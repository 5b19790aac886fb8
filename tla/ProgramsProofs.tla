--------------------------- MODULE ProgramsProofs ---------------------------
(***************************************************************************)
(* Proofs about the small programs, each an instance of its module: the    *)
(* FIFO of cw05/zad2, the counted signals of cw04/zad3, the pipelines of   *)
(* cw05/zad1, the records of cw02/zad1, the tables of cw01, the image      *)
(* filter of cw08 and the batch interpreter of cw03.  For each, its        *)
(* inductive invariant is shown to be kept by every action, and the        *)
(* theorem at the end of its section states the property that the run      *)
(* checks.  What a theorem needs to know of the constants is its           *)
(* hypothesis.                                                             *)
(***************************************************************************)
EXTENDS Programs, FiniteSetTheorems, TLAPS

-----------------------------------------------------------------------------
(***************************************************************************)
(* cw05/zad2: the FIFO.                                                    *)
(***************************************************************************)

\* Nothing is in the FIFO and nothing was written.
LEMMA FifoInit == FF!Init => FF!IInv
<1> SUFFICES ASSUME FF!Init PROVE FF!IInv
  OBVIOUS
<1> USE DEF FF!Init
<1>1. FF!TypeOK
  <2>1. fifo \in Seq(FF!Line)
    OBVIOUS
  <2>2. {line_count, written, printed} \subseteq [Slaves -> Nat]
    OBVIOUS
  <2> QED
    BY <2>1, <2>2 DEF FF!TypeOK
<1>2. FF!LinesInOrder
  <2>1. /\ DOMAIN fifo = {}
        /\ \A s \in Slaves : /\ printed[s] + 1 .. written[s] = {}
                             /\ printed[s] <= written[s]
    OBVIOUS
  <2> QED
    BY <2>1 DEF FF!LinesInOrder
<1>3. FF!OnlyLateLinesLost /\ FF!WritersKnown
  BY DEF FF!OnlyLateLinesLost, FF!WritersKnown, FF!Writers
<1> QED
  BY <1>1, <1>2, <1>3 DEF FF!IInv, FF!LinesKept

\* A step that moves master or slaves and leaves the lines alone keeps the
\* order of the lines.
LEMMA FifoMoves ==
  ASSUME FF!LinesInOrder, UNCHANGED <<fifo, written, printed>>
  PROVE  FF!LinesInOrder'
  BY DEF FF!LinesInOrder

\* The master makes, opens and closes the FIFO.  At the end that it finds
\* nothing is left in it, and nobody writes.
LEMMA FifoMaster ==
  ASSUME FF!IInv,
         FF!MakeFifo \/ FF!OpenToRead \/ FF!FindEnd \/ FF!ExitMaster
           \/ FF!InterruptMaster
  PROVE  FF!IInv'
<1>a. FF!TypeOK /\ FF!LinesInOrder /\ FF!OnlyLateLinesLost /\ FF!WritersKnown
  BY DEF FF!IInv, FF!LinesKept
<1>f. UNCHANGED <<fifo, slave, line_count, written, printed, late>>
  BY DEF FF!MakeFifo, FF!OpenToRead, FF!FindEnd, FF!ExitMaster,
     FF!InterruptMaster
<1>1. FF!TypeOK'
  BY <1>a, <1>f DEF FF!TypeOK, FF!MakeFifo, FF!OpenToRead, FF!FindEnd,
     FF!ExitMaster, FF!InterruptMaster, FF!Line
<1>2. FF!LinesInOrder'
  BY <1>a, <1>f, FifoMoves
<1>3. FF!WritersKnown'
  BY <1>a, <1>f DEF FF!WritersKnown, FF!Writers, FF!MakeFifo, FF!OpenToRead,
     FF!FindEnd, FF!AtEnd, FF!ExitMaster, FF!InterruptMaster, FF!Reading
<1>4. FF!OnlyLateLinesLost'
  <2>1. CASE FF!FindEnd
    <3>1. \A s \in Slaves : printed[s] + 1 .. written[s] = {}
      BY <1>a, <2>1 DEF FF!FindEnd, FF!AtEnd, FF!LinesInOrder
    <3>2. \A s \in Slaves : printed[s] \in Nat /\ written[s] \in Nat
      BY <1>a DEF FF!TypeOK
    <3>3. \A s \in Slaves : printed[s] >= written[s]
      BY <3>1, <3>2
    <3>4. \A s \in Slaves : printed[s] <= written[s]
      BY <1>a DEF FF!LinesInOrder
    <3>5. \A s \in Slaves : printed[s] = written[s]
      BY <3>2, <3>3, <3>4
    <3> QED
      BY <1>a, <1>f, <2>1, <3>5 DEF FF!OnlyLateLinesLost, FF!FindEnd
  <2>2. CASE ~FF!FindEnd
    BY <1>a, <1>f, <2>2 DEF FF!OnlyLateLinesLost, FF!MakeFifo, FF!OpenToRead,
       FF!ExitMaster, FF!InterruptMaster, FF!Reading
  <2> QED BY <2>1, <2>2
<1> QED
  BY <1>1, <1>2, <1>3, <1>4 DEF FF!IInv, FF!LinesKept

\* The first line in the FIFO is the next one of its slave to be printed.
LEMMA FifoPrint ==
  ASSUME FF!IInv, FF!PrintLine
  PROVE  FF!IInv'
<1>a. FF!TypeOK /\ FF!LinesInOrder /\ FF!OnlyLateLinesLost /\ FF!WritersKnown
  BY DEF FF!IInv, FF!LinesKept
<1>b. /\ fifo \in Seq(FF!Line) /\ fifo # <<>>
      /\ printed \in [Slaves -> Nat] /\ written \in [Slaves -> Nat]
  BY <1>a DEF FF!TypeOK, FF!PrintLine
<1> DEFINE s1 == fifo[1].from
<1>f. /\ master = "reading" /\ fifo' = Tail(fifo)
      /\ printed' = [printed EXCEPT ![s1] = @ + 1]
      /\ UNCHANGED <<exists, master, met, slave, line_count, written, late>>
  BY DEF FF!PrintLine
<1>c. /\ Len(fifo) \in Nat \ {0} /\ DOMAIN fifo = 1 .. Len(fifo)
      /\ \A k \in DOMAIN fifo : fifo[k].from \in Slaves /\ fifo[k].number \in Nat
      /\ s1 \in Slaves
  <2>1. Len(fifo) \in Nat \ {0} /\ DOMAIN fifo = 1 .. Len(fifo)
    BY <1>b
  <2>2. \A k \in DOMAIN fifo : fifo[k] \in FF!Line
    BY <1>b
  <2> QED
    BY <2>1, <2>2 DEF FF!Line
<1>d. /\ fifo' \in Seq(FF!Line) /\ DOMAIN fifo' = 1 .. Len(fifo) - 1
      /\ \A k \in DOMAIN fifo' : fifo'[k] = fifo[k + 1] /\ k + 1 \in DOMAIN fifo
      /\ \A k \in DOMAIN fifo : k # 1 => k - 1 \in DOMAIN fifo'
                                         /\ fifo'[k - 1] = fifo[k]
  BY <1>b, <1>c, <1>f
<1>e. /\ \A k \in DOMAIN fifo :
           fifo[k].number \in printed[fifo[k].from] + 1 .. written[fifo[k].from]
      /\ \A j, k \in DOMAIN fifo :
           j < k /\ fifo[j].from = fifo[k].from => fifo[j].number < fifo[k].number
      /\ \A s \in Slaves :
           /\ printed[s] <= written[s]
           /\ \A n \in printed[s] + 1 .. written[s] :
                \E k \in DOMAIN fifo : fifo[k] = [from |-> s, number |-> n]
  BY <1>a DEF FF!LinesInOrder
<1>g. fifo[1].number = printed[s1] + 1
  <2>1. 1 \in DOMAIN fifo /\ fifo[1].number \in printed[s1] + 1 .. written[s1]
    BY <1>c, <1>e
  <2>2. printed[s1] + 1 \in printed[s1] + 1 .. written[s1]
    BY <1>b, <1>c, <2>1
  <2>3. PICK k \in DOMAIN fifo :
          fifo[k] = [from |-> s1, number |-> printed[s1] + 1]
    BY <1>c, <1>e, <2>2
  <2>4. k # 1 => fifo[1].number < printed[s1] + 1
    BY <1>c, <1>e, <2>1, <2>3
  <2> QED
    BY <1>b, <1>c, <2>1, <2>3, <2>4
<1>h. /\ printed' \in [Slaves -> Nat] /\ written' = written
      /\ printed'[s1] = printed[s1] + 1
      /\ \A s \in Slaves : s # s1 => printed'[s] = printed[s]
  BY <1>b, <1>c, <1>f
<1>1. FF!TypeOK'
  BY <1>a, <1>d, <1>f, <1>h, SMTT(30) DEF FF!TypeOK, FF!Line
<1>2. FF!LinesInOrder'
  <2>1. ASSUME NEW k \in DOMAIN fifo'
        PROVE  fifo'[k].number
                 \in printed'[fifo'[k].from] + 1 .. written'[fifo'[k].from]
    <3>1. fifo'[k] = fifo[k + 1] /\ k + 1 \in DOMAIN fifo /\ 1 < k + 1
      BY <1>c, <1>d
    <3>2. CASE fifo[k + 1].from = s1
      <4>1. fifo[1].number < fifo[k + 1].number
        BY <1>c, <1>e, <3>1, <3>2
      <4> QED
        BY <1>b, <1>c, <1>e, <1>g, <1>h, <3>1, <3>2, <4>1
    <3>3. CASE fifo[k + 1].from # s1
      BY <1>b, <1>c, <1>e, <1>h, <3>1, <3>3
    <3> QED BY <3>2, <3>3
  <2>2. ASSUME NEW j \in DOMAIN fifo', NEW k \in DOMAIN fifo', j < k,
               fifo'[j].from = fifo'[k].from
        PROVE  fifo'[j].number < fifo'[k].number
    <3>1. j + 1 < k + 1
      BY <1>c, <1>d, <2>2
    <3> QED
      BY <1>d, <1>e, <2>2, <3>1
  <2>3. ASSUME NEW s \in Slaves
        PROVE  printed'[s] <= written'[s]
    <3>1. CASE s = s1
      <4>1. /\ fifo[1].number \in printed[s1] + 1 .. written[s1]
            /\ printed[s1] \in Nat /\ written[s1] \in Nat
        BY <1>b, <1>c, <1>e
      <4>2. printed[s1] + 1 <= written[s1]
        BY <4>1
      <4> QED
        BY <4>2, <3>1, <1>h
    <3>2. CASE s # s1
      <4>1. printed[s] <= written[s]
        BY <1>e
      <4> QED
        BY <4>1, <3>2, <1>h
    <3> QED
      BY <3>1, <3>2
  <2>4. ASSUME NEW s \in Slaves, NEW n \in printed'[s] + 1 .. written'[s]
        PROVE  \E k \in DOMAIN fifo' : fifo'[k] = [from |-> s, number |-> n]
    <3>1. n \in printed[s] + 1 .. written[s] /\ (s = s1 => n # printed[s1] + 1)
      BY <1>b, <1>c, <1>h
    <3>2. PICK k \in DOMAIN fifo : fifo[k] = [from |-> s, number |-> n]
      BY <1>e, <3>1
    <3>3. k # 1
      BY <1>g, <3>1, <3>2
    <3> QED
      BY <1>d, <3>2, <3>3
  <2> QED
    BY <2>1, <2>2, <2>3, <2>4 DEF FF!LinesInOrder
<1>3. FF!OnlyLateLinesLost' /\ FF!WritersKnown'
  BY <1>a, <1>f DEF FF!OnlyLateLinesLost, FF!WritersKnown, FF!Writers
<1> QED
  BY <1>1, <1>2, <1>3 DEF FF!IInv, FF!LinesKept

\* A slave adds its next line at the end, or finds no reader.
LEMMA FifoWrite ==
  ASSUME FF!IInv, NEW s \in Slaves, FF!WriteLine(s)
  PROVE  FF!IInv'
<1>a. FF!TypeOK /\ FF!LinesInOrder /\ FF!OnlyLateLinesLost /\ FF!WritersKnown
  BY DEF FF!IInv, FF!LinesKept
<1>b. /\ fifo \in Seq(FF!Line) /\ slave[s] = "writing" /\ s \in FF!Writers
      /\ printed \in [Slaves -> Nat] /\ written \in [Slaves -> Nat]
      /\ UNCHANGED <<exists, master, met, line_count, printed, late>>
  BY <1>a DEF FF!TypeOK, FF!WriteLine, FF!Writers
<1>1. CASE FF!Reading
  <2> DEFINE new == [from |-> s, number |-> written[s] + 1]
  <2>f. /\ fifo' = Append(fifo, new)
        /\ written' = [written EXCEPT ![s] = @ + 1] /\ slave' = slave
    BY <1>1 DEF FF!WriteLine
  <2>c. /\ Len(fifo) \in Nat /\ DOMAIN fifo = 1 .. Len(fifo)
        /\ new \in FF!Line
        /\ \A k \in DOMAIN fifo : fifo[k].from \in Slaves /\ fifo[k].number \in Nat
    <3>1. Len(fifo) \in Nat /\ DOMAIN fifo = 1 .. Len(fifo)
      BY <1>b
    <3>2. \A k \in DOMAIN fifo : fifo[k] \in FF!Line
      BY <1>b
    <3>3. written[s] \in Nat
      BY <1>b
    <3> QED
      BY <3>1, <3>2, <3>3 DEF FF!Line
  <2>d. /\ fifo' \in Seq(FF!Line) /\ DOMAIN fifo' = 1 .. Len(fifo) + 1
        /\ \A k \in DOMAIN fifo : fifo'[k] = fifo[k] /\ k \in DOMAIN fifo'
        /\ fifo'[Len(fifo) + 1] = new
    BY <1>b, <2>c, <2>f
  <2>e. /\ \A k \in DOMAIN fifo :
             fifo[k].number \in printed[fifo[k].from] + 1 .. written[fifo[k].from]
        /\ \A j, k \in DOMAIN fifo :
             j < k /\ fifo[j].from = fifo[k].from =>
               fifo[j].number < fifo[k].number
        /\ \A r \in Slaves :
             /\ printed[r] <= written[r]
             /\ \A n \in printed[r] + 1 .. written[r] :
                  \E k \in DOMAIN fifo : fifo[k] = [from |-> r, number |-> n]
    BY <1>a DEF FF!LinesInOrder
  <2>h. /\ written' \in [Slaves -> Nat] /\ printed' = printed
        /\ written'[s] = written[s] + 1
        /\ \A r \in Slaves : r # s => written'[r] = written[r]
    BY <1>b, <2>f
  <2>1. FF!TypeOK'
    BY <1>a, <1>b, <2>d, <2>f, <2>h DEF FF!TypeOK, FF!Line
  <2>2. FF!LinesInOrder'
    <3>1. ASSUME NEW k \in DOMAIN fifo'
          PROVE  fifo'[k].number
                   \in printed'[fifo'[k].from] + 1 .. written'[fifo'[k].from]
      <4>1. CASE k \in DOMAIN fifo
        <5>1. /\ fifo'[k] = fifo[k] /\ fifo[k].from \in Slaves
              /\ written[fifo[k].from] \in Nat /\ fifo[k].number \in Nat
              /\ fifo[k].number
                   \in printed[fifo[k].from] + 1 .. written[fifo[k].from]
          BY <1>b, <2>c, <2>d, <2>e, <4>1
        <5>2. written'[fifo[k].from]
                \in {written[fifo[k].from], written[fifo[k].from] + 1}
          BY <2>h, <5>1
        <5>3. printed[fifo[k].from] \in Nat
          BY <1>b, <5>1
        <5> QED
          BY <1>b, <5>1, <5>2, <5>3
      <4>2. CASE k = Len(fifo) + 1
        BY <1>b, <2>d, <2>e, <2>h, <4>2
      <4> QED BY <2>c, <2>d, <4>1, <4>2
    <3>2. ASSUME NEW j \in DOMAIN fifo', NEW k \in DOMAIN fifo', j < k,
                 fifo'[j].from = fifo'[k].from
          PROVE  fifo'[j].number < fifo'[k].number
      <4>1. j \in DOMAIN fifo
        BY <2>c, <2>d, <3>2
      <4>2. CASE k \in DOMAIN fifo
        BY <2>d, <2>e, <3>2, <4>1, <4>2
      <4>3. CASE k = Len(fifo) + 1
        <5>1. fifo[j].from = s /\ fifo'[k].number = written[s] + 1
          BY <2>d, <3>2, <4>1, <4>3
        <5>2. fifo[j].number <= written[s] /\ fifo'[j] = fifo[j]
          BY <1>b, <2>c, <2>d, <2>e, <4>1, <5>1
        <5> QED BY <1>b, <2>c, <4>1, <5>1, <5>2
      <4> QED BY <2>c, <2>d, <4>2, <4>3
    <3>3. ASSUME NEW r \in Slaves PROVE printed'[r] <= written'[r]
      <4>1. printed[r] \in Nat /\ written[r] \in Nat /\ printed'[r] = printed[r]
        BY <1>b
      <4>2. printed[r] <= written[r] /\ written'[r] \in {written[r], written[r] + 1}
        BY <2>e, <2>h
      <4> QED
        BY <4>1, <4>2
    <3>4. ASSUME NEW r \in Slaves, NEW n \in printed'[r] + 1 .. written'[r]
          PROVE  \E k \in DOMAIN fifo' : fifo'[k] = [from |-> r, number |-> n]
      <4>1. CASE r = s /\ n = written[s] + 1
        BY <2>c, <2>d, <4>1
      <4>2. CASE ~(r = s /\ n = written[s] + 1)
        <5>1. n \in printed[r] + 1 .. written[r]
          BY <1>b, <2>h, <4>2
        <5> QED BY <2>d, <2>e, <5>1
      <4> QED BY <4>1, <4>2
    <3> QED
      BY <3>1, <3>2, <3>3, <3>4 DEF FF!LinesInOrder
  <2>3. FF!WritersKnown'
    BY <1>a, <1>b, <2>f DEF FF!WritersKnown, FF!Writers
  <2>4. FF!OnlyLateLinesLost'
    BY <1>a, <1>b, <2>f, <2>h DEF FF!OnlyLateLinesLost, FF!WritersKnown
  <2> QED
    BY <2>1, <2>2, <2>3, <2>4 DEF FF!IInv, FF!LinesKept
<1>2. CASE ~FF!Reading
  <2>f. /\ slave' = [slave EXCEPT ![s] = "broken"]
        /\ UNCHANGED <<fifo, written>>
    BY <1>2 DEF FF!WriteLine
  <2>1. FF!TypeOK'
    BY <1>a, <1>b, <2>f DEF FF!TypeOK, FF!Line
  <2>2. FF!LinesInOrder'
    BY <1>a, <1>b, <2>f, FifoMoves
  <2>3. FF!OnlyLateLinesLost' /\ FF!WritersKnown'
    BY <1>a, <1>b, <1>2, <2>f DEF FF!TypeOK, FF!OnlyLateLinesLost,
       FF!WritersKnown, FF!Writers, FF!Reading
  <2> QED
    BY <2>1, <2>2, <2>3 DEF FF!IInv, FF!LinesKept
<1> QED BY <1>1, <1>2

\* A slave starts, opens the FIFO, and ends.
LEMMA FifoSlave ==
  ASSUME MaxCount \in Nat, FF!IInv, NEW s \in Slaves,
         FF!Start(s) \/ FF!OpenToWrite(s) \/ FF!ExitSlave(s)
           \/ FF!InterruptSlave(s)
  PROVE  FF!IInv'
<1>a. FF!TypeOK /\ FF!LinesInOrder /\ FF!OnlyLateLinesLost /\ FF!WritersKnown
  BY DEF FF!IInv, FF!LinesKept
<1>f. UNCHANGED <<exists, master, fifo, written, printed>>
  BY DEF FF!Start, FF!OpenToWrite, FF!ExitSlave, FF!InterruptSlave
<1>1. FF!TypeOK'
  <2>0. line_count \in [Slaves -> Nat]
    BY <1>a DEF FF!TypeOK
  <2>1. line_count' \in [Slaves -> Nat]
    <3>1. CASE FF!Start(s)
      <4>1. PICK n \in 0 .. MaxCount : line_count' = [line_count EXCEPT ![s] = n]
        BY <3>1 DEF FF!Start
      <4>2. n \in Nat
        BY <4>1
      <4> QED
        BY <2>0, <4>1, <4>2
    <3>2. CASE ~FF!Start(s)
      BY <2>0, <3>2 DEF FF!OpenToWrite, FF!ExitSlave, FF!InterruptSlave
    <3> QED BY <3>1, <3>2
  <2> QED
    BY <1>a, <1>f, <2>1 DEF FF!TypeOK, FF!Line, FF!Start, FF!OpenToWrite,
       FF!ExitSlave, FF!InterruptSlave
<1>2. FF!LinesInOrder'
  BY <1>a, <1>f, FifoMoves
<1>3. FF!OnlyLateLinesLost' /\ FF!WritersKnown'
  BY <1>a, <1>f DEF FF!TypeOK, FF!OnlyLateLinesLost, FF!WritersKnown,
     FF!Writers, FF!Reading, FF!Start, FF!OpenToWrite, FF!ExitSlave,
     FF!InterruptSlave
<1> QED
  BY <1>1, <1>2, <1>3 DEF FF!IInv, FF!LinesKept

\* The FIFO of cw05/zad2 keeps the lines of any number of slaves in order, and
\* a master that ends has printed all of them but those of slaves that opened
\* the FIFO after it found its end (master.c:48-55, slave.c:43-64).
THEOREM LinesAlwaysKept == MaxCount \in Nat => (FF!Spec => []LinesKept)
<1> SUFFICES ASSUME MaxCount \in Nat PROVE FF!Spec => []LinesKept
  OBVIOUS
<1>1. FF!IInv /\ [FF!Next]_(FF!vars) => FF!IInv'
  <2> SUFFICES ASSUME FF!IInv, [FF!Next]_(FF!vars) PROVE FF!IInv'
    OBVIOUS
  <2>1. CASE FF!MasterStep \/ FF!InterruptMaster
    BY <2>1, FifoMaster, FifoPrint DEF FF!MasterStep
  <2>2. ASSUME NEW s \in Slaves,
               FF!Start(s) \/ FF!SlaveStep(s) \/ FF!InterruptSlave(s)
        PROVE  FF!IInv'
    BY <2>2, FifoSlave, FifoWrite DEF FF!SlaveStep
  <2>3. CASE UNCHANGED FF!vars
    BY <2>3 DEF FF!vars, FF!IInv, FF!TypeOK, FF!Line, FF!LinesKept,
       FF!LinesInOrder, FF!OnlyLateLinesLost, FF!WritersKnown, FF!Writers
  <2> QED
    BY <2>1, <2>2, <2>3 DEF FF!Next
<1>2. FF!IInv => LinesKept
  BY DEF FF!IInv, LinesKept
<1> QED
  BY <1>1, <1>2, FifoInit, PTL DEF FF!Spec
-----------------------------------------------------------------------------
(***************************************************************************)
(* cw04/zad3: the counted signals.                                         *)
(***************************************************************************)
Pending == [USR1 : {0, 1}, RT : Nat, USR2 : {0, 1}]

\* What a signal does to the pending ones, field by field.
LEMMA RaiseFacts ==
  ASSUME NEW p \in Pending
  PROVE  /\ CS!Raise(p, "USR1") = [USR1 |-> 1, RT |-> p.RT, USR2 |-> p.USR2]
         /\ CS!Raise(p, "RT") = [USR1 |-> p.USR1, RT |-> p.RT + 1, USR2 |-> p.USR2]
         /\ CS!Raise(p, "USR2") = [USR1 |-> p.USR1, RT |-> p.RT, USR2 |-> 1]
<1>1. PICK a \in {0, 1}, b \in Nat, c \in {0, 1} :
        p = [USR1 |-> a, RT |-> b, USR2 |-> c]
  BY DEF Pending
<1>2. CS!Raise(p, "USR1") = [[USR1 |-> a, RT |-> b, USR2 |-> c] EXCEPT
                              !.USR1 = 1]
  BY <1>1 DEF CS!Raise
<1>3. CS!Raise(p, "RT") = [[USR1 |-> a, RT |-> b, USR2 |-> c] EXCEPT
                            !.RT = @ + 1]
  BY <1>1 DEF CS!Raise
<1>4. CS!Raise(p, "USR2") = [[USR1 |-> a, RT |-> b, USR2 |-> c] EXCEPT
                              !.USR2 = 1]
  BY <1>1 DEF CS!Raise
<1> QED
  BY <1>1, <1>2, <1>3, <1>4

\* And what handling one does.
LEMMA TakeFacts ==
  ASSUME NEW p \in Pending
  PROVE  /\ CS!Take(p, "USR1") = [USR1 |-> p.USR1 - 1, RT |-> p.RT, USR2 |-> p.USR2]
         /\ CS!Take(p, "RT") = [USR1 |-> p.USR1, RT |-> p.RT - 1, USR2 |-> p.USR2]
         /\ CS!Take(p, "USR2") = [USR1 |-> p.USR1, RT |-> p.RT, USR2 |-> p.USR2 - 1]
<1>1. PICK a \in {0, 1}, b \in Nat, c \in {0, 1} :
        p = [USR1 |-> a, RT |-> b, USR2 |-> c]
  BY DEF Pending
<1>2. CS!Take(p, "USR1") = [[USR1 |-> a, RT |-> b, USR2 |-> c] EXCEPT
                              !.USR1 = @ - 1]
  BY <1>1 DEF CS!Take
<1>3. CS!Take(p, "RT") = [[USR1 |-> a, RT |-> b, USR2 |-> c] EXCEPT
                            !.RT = @ - 1]
  BY <1>1 DEF CS!Take
<1>4. CS!Take(p, "USR2") = [[USR1 |-> a, RT |-> b, USR2 |-> c] EXCEPT
                              !.USR2 = @ - 1]
  BY <1>1 DEF CS!Take
<1> QED
  BY <1>1, <1>2, <1>3, <1>4

\* Nothing is sent, and there is no child.
LEMMA SigInit == CS!Init => CS!IInv
<1> SUFFICES ASSUME CS!Init PROVE CS!IInv
  OBVIOUS
<1> USE DEF CS!Init, CS!NothingPending
<1>1. CS!TypeOK
  <2>1. {signal_count, ci, sent, received, kills, received_count} \subseteq Nat
    OBVIOUS
  <2>2. mode \in 0 .. 3 /\ handlers \in 0 .. 4
    OBVIOUS
  <2>3. /\ toParent \in [USR1 : {0, 1}, RT : Nat, USR2 : {0}]
        /\ toChild \in [USR1 : {0, 1}, RT : Nat, USR2 : {0, 1}]
    OBVIOUS
  <2> QED
    BY <2>1, <2>2, <2>3 DEF CS!TypeOK
<1>2. CS!NothingBefore
  BY DEF CS!NothingBefore
<1>3. CS!NoneAppears
  BY DEF CS!NoneAppears, CS!Bit
<1>4. CS!OneUnderWay /\ CS!NoneLost
  BY DEF CS!OneUnderWay, CS!NoneLost
<1> QED
  BY <1>1, <1>2, <1>3, <1>4 DEF CS!IInv

\* The arguments are read, the child is forked, the handlers installed.
LEMMA SigStart ==
  ASSUME MaxSignals \in Nat, CS!IInv, CS!ReadArguments \/ CS!Fork \/ CS!Install
  PROVE  CS!IInv'
<1>a. /\ CS!TypeOK /\ CS!NothingBefore /\ CS!NoneAppears
      /\ CS!OneUnderWay /\ CS!NoneLost
  BY DEF CS!IInv
<1> USE DEF CS!ReadArguments, CS!Fork, CS!Install, CS!parentVars, CS!childVars
<1>1. CS!TypeOK'
  BY <1>a DEF CS!TypeOK, CS!Bit, CS!Ours, CS!NothingPending
<1>2. CS!NothingBefore'
  BY <1>a DEF CS!TypeOK, CS!Bit, CS!Ours, CS!NothingPending, CS!NothingBefore
<1>3. CS!NoneAppears'
  BY <1>a DEF CS!TypeOK, CS!Bit, CS!Ours, CS!NothingPending, CS!NothingBefore,
       CS!NoneAppears
<1>4. CS!OneUnderWay'
  BY <1>a DEF CS!TypeOK, CS!Bit, CS!Ours, CS!NothingPending, CS!NothingBefore,
       CS!OneUnderWay
<1>5. CS!NoneLost'
  BY <1>a DEF CS!TypeOK, CS!Bit, CS!Ours, CS!NothingPending, CS!NothingBefore,
       CS!NoneLost, CS!NoneAppears
<1> QED
  BY <1>1, <1>2, <1>3, <1>4, <1>5 DEF CS!IInv

\* The parent counts what it sent and waits for the answer.
LEMMA SigWait ==
  ASSUME CS!IInv, CS!Count \/ CS!TestAnswer \/ CS!Suspend
           \/ CS!PrintCount \/ CS!Interrupt
  PROVE  CS!IInv'
<1>a. /\ CS!TypeOK /\ CS!NothingBefore /\ CS!NoneAppears
      /\ CS!OneUnderWay /\ CS!NoneLost
  BY DEF CS!IInv
<1> USE DEF CS!Count, CS!TestAnswer, CS!Answered, CS!Suspend, CS!PrintCount,
  CS!Interrupt, CS!parentVars, CS!childVars
<1>1. CS!TypeOK'
  <2>1. ci' \in Nat /\ sent' \in Nat
    BY <1>a DEF CS!TypeOK
  <2>2. UNCHANGED <<signal_count, received, kills, received_count>>
    OBVIOUS
  <2>3. UNCHANGED <<mode, toParent, CS!childVars, toChild>>
    OBVIOUS
  <2>4. usr1_received' \in BOOLEAN
    BY <1>a DEF CS!TypeOK
  <2>5. /\ cpc' \in {"loop", "await", "tested", "suspended", "exited", cpc}
        /\ intr' \in {"pending", intr}
    OBVIOUS
  <2> QED
    BY <1>a, <2>1, <2>2, <2>3, <2>4, <2>5 DEF CS!TypeOK
<1>2. CS!NothingBefore'
  BY <1>a DEF CS!TypeOK, CS!Bit, CS!Ours, CS!NothingPending, CS!NothingBefore
<1>3. CS!NoneAppears'
  BY <1>a DEF CS!TypeOK, CS!Bit, CS!Ours, CS!NothingPending, CS!NothingBefore,
       CS!NoneAppears
<1>4. CS!OneUnderWay'
  BY <1>a DEF CS!TypeOK, CS!Bit, CS!Ours, CS!NothingPending, CS!NothingBefore,
       CS!OneUnderWay
<1>5. CS!NoneLost'
  BY <1>a DEF CS!TypeOK, CS!Bit, CS!Ours, CS!NothingPending, CS!NothingBefore,
       CS!NoneLost, CS!NoneAppears
<1> QED
  BY <1>1, <1>2, <1>3, <1>4, <1>5 DEF CS!IInv

\* A turn of the loop sends a signal; a standard one merges with a pending one.
LEMMA SigSend ==
  ASSUME CS!IInv, CS!Send
  PROVE  CS!IInv'
<1>a. /\ CS!TypeOK /\ CS!NothingBefore /\ CS!NoneAppears
      /\ CS!OneUnderWay /\ CS!NoneLost
  BY DEF CS!IInv
<1>t. toChild \in Pending /\ toParent \in Pending
  BY <1>a DEF CS!TypeOK, Pending
<1>c. toChild' = IF cchild # "alive" THEN toChild
                 ELSE IF mode = 3
                 THEN [USR1 |-> toChild.USR1, RT |-> toChild.RT + 1, USR2 |-> toChild.USR2]
                 ELSE [USR1 |-> 1, RT |-> toChild.RT, USR2 |-> toChild.USR2]
  BY <1>t, RaiseFacts DEF CS!Send, CS!Deliver
<1> USE DEF CS!Send, CS!Deliver, CS!parentVars, CS!childVars
<1>1. CS!TypeOK'
  BY <1>a, <1>c DEF CS!TypeOK, CS!Bit, CS!Ours, CS!NothingPending
<1>2. CS!NothingBefore'
  BY <1>a, <1>c DEF CS!TypeOK, CS!Bit, CS!Ours, CS!NothingPending,
       CS!NothingBefore
<1>3. CS!NoneAppears'
  BY <1>a, <1>c DEF CS!TypeOK, CS!Bit, CS!Ours, CS!NothingPending,
       CS!NothingBefore, CS!NoneAppears
<1>4. CS!OneUnderWay'
  BY <1>a, <1>c DEF CS!TypeOK, CS!Bit, CS!Ours, CS!NothingPending,
       CS!NothingBefore, CS!OneUnderWay
<1>5. CS!NoneLost'
  BY <1>a, <1>c DEF CS!TypeOK, CS!Bit, CS!Ours, CS!NothingPending,
       CS!NothingBefore, CS!NoneLost, CS!NoneAppears
<1> QED
  BY <1>1, <1>2, <1>3, <1>4, <1>5 DEF CS!IInv

\* SIGUSR2, after the loop or on SIGINT.
LEMMA SigLast ==
  ASSUME CS!IInv, CS!SendLast \/ CS!HandleInterrupt
  PROVE  CS!IInv'
<1>a. /\ CS!TypeOK /\ CS!NothingBefore /\ CS!NoneAppears
      /\ CS!OneUnderWay /\ CS!NoneLost
  BY DEF CS!IInv
<1>t. toChild \in Pending /\ toParent \in Pending
  BY <1>a DEF CS!TypeOK, Pending
<1>c. CS!Raise(toChild, "USR2")
        = [USR1 |-> toChild.USR1, RT |-> toChild.RT, USR2 |-> 1]
  BY <1>t, RaiseFacts
<1> USE DEF CS!SendLast, CS!HandleInterrupt, CS!Deliver, CS!Running, CS!Blocked, CS!parentVars, CS!childVars
<1>1. CS!TypeOK'
  BY <1>a, <1>c DEF CS!TypeOK, CS!Bit, CS!Ours, CS!NothingPending
<1>2. CS!NothingBefore'
  BY <1>a, <1>c DEF CS!TypeOK, CS!Bit, CS!Ours, CS!NothingPending,
       CS!NothingBefore
<1>3. CS!NoneAppears'
  BY <1>a, <1>c DEF CS!TypeOK, CS!Bit, CS!Ours, CS!NothingPending,
       CS!NothingBefore, CS!NoneAppears
<1>4. CS!OneUnderWay'
  BY <1>a, <1>c DEF CS!TypeOK, CS!Bit, CS!Ours, CS!NothingPending,
       CS!NothingBefore, CS!OneUnderWay
<1>5. CS!NoneLost'
  BY <1>a, <1>c DEF CS!TypeOK, CS!Bit, CS!Ours, CS!NothingPending,
       CS!NothingBefore, CS!NoneLost, CS!NoneAppears
<1> QED
  BY <1>1, <1>2, <1>3, <1>4, <1>5 DEF CS!IInv

\* The parent counts an answer.
LEMMA SigAnswer ==
  ASSUME CS!IInv, NEW sig \in {"USR1", "RT"}, CS!HandleAnswer(sig)
  PROVE  CS!IInv'
<1>a. /\ CS!TypeOK /\ CS!NothingBefore /\ CS!NoneAppears
      /\ CS!OneUnderWay /\ CS!NoneLost
  BY DEF CS!IInv
<1>t. toChild \in Pending /\ toParent \in Pending
  BY <1>a DEF CS!TypeOK, Pending
<1>c. toParent' =
        IF sig = "RT"
        THEN [USR1 |-> toParent.USR1, RT |-> toParent.RT - 1, USR2 |-> toParent.USR2]
        ELSE [USR1 |-> toParent.USR1 - 1, RT |-> toParent.RT, USR2 |-> toParent.USR2]
  BY <1>t, TakeFacts DEF CS!HandleAnswer
<1>d. \/ sig = "RT" /\ toParent["RT"] > 0
      \/ sig = "USR1" /\ toParent["USR1"] > 0
  BY DEF CS!HandleAnswer
<1> USE DEF CS!HandleAnswer, CS!Running, CS!Blocked, CS!parentVars, CS!childVars
<1>1. CS!TypeOK'
  BY <1>a, <1>c, <1>d DEF CS!TypeOK, CS!Bit, CS!Ours, CS!NothingPending
<1>2. CS!NothingBefore'
  BY <1>a, <1>c, <1>d DEF CS!TypeOK, CS!Bit, CS!Ours, CS!NothingPending,
       CS!NothingBefore
<1>3. CS!NoneAppears'
  BY <1>a, <1>c, <1>d DEF CS!TypeOK, CS!Bit, CS!Ours, CS!NothingPending,
       CS!NothingBefore, CS!NoneAppears
<1>4. CS!OneUnderWay'
  BY <1>a, <1>c, <1>d DEF CS!TypeOK, CS!Bit, CS!Ours, CS!NothingPending,
       CS!NothingBefore, CS!OneUnderWay
<1>5. CS!NoneLost'
  BY <1>a, <1>c, <1>d DEF CS!TypeOK, CS!Bit, CS!Ours, CS!NothingPending,
       CS!NothingBefore, CS!NoneLost, CS!NoneAppears
<1> QED
  BY <1>1, <1>2, <1>3, <1>4, <1>5 DEF CS!IInv

\* The child counts a signal.
LEMMA SigChild ==
  ASSUME CS!IInv, NEW sig \in {"USR1", "RT"}, CS!HandleSignal(sig)
  PROVE  CS!IInv'
<1>a. /\ CS!TypeOK /\ CS!NothingBefore /\ CS!NoneAppears
      /\ CS!OneUnderWay /\ CS!NoneLost
  BY DEF CS!IInv
<1>t. toChild \in Pending /\ toParent \in Pending
  BY <1>a DEF CS!TypeOK, Pending
<1>c. toChild' =
        IF sig = "RT"
        THEN [USR1 |-> toChild.USR1, RT |-> toChild.RT - 1, USR2 |-> toChild.USR2]
        ELSE [USR1 |-> toChild.USR1 - 1, RT |-> toChild.RT, USR2 |-> toChild.USR2]
  BY <1>t, TakeFacts DEF CS!HandleSignal
<1>d. \/ sig = "RT" /\ toChild["RT"] > 0
      \/ sig = "USR1" /\ toChild["USR1"] > 0
  BY DEF CS!HandleSignal
<1> USE DEF CS!HandleSignal, CS!parentVars, CS!childVars
<1>1. CS!TypeOK'
  BY <1>a, <1>c, <1>d DEF CS!TypeOK, CS!Bit, CS!Ours, CS!NothingPending
<1>2. CS!NothingBefore'
  BY <1>a, <1>c, <1>d DEF CS!TypeOK, CS!Bit, CS!Ours, CS!NothingPending,
       CS!NothingBefore
<1>3. CS!NoneAppears'
  BY <1>a, <1>c, <1>d DEF CS!TypeOK, CS!Bit, CS!Ours, CS!NothingPending,
       CS!NothingBefore, CS!NoneAppears
<1>4. CS!OneUnderWay'
  BY <1>a, <1>c, <1>d DEF CS!TypeOK, CS!Bit, CS!Ours, CS!NothingPending,
       CS!NothingBefore, CS!OneUnderWay
<1>5. CS!NoneLost'
  BY <1>a, <1>c, <1>d DEF CS!TypeOK, CS!Bit, CS!Ours, CS!NothingPending,
       CS!NothingBefore, CS!NoneLost, CS!NoneAppears
<1> QED
  BY <1>1, <1>2, <1>3, <1>4, <1>5 DEF CS!IInv

\* A signal that comes before its handler kills the child.
LEMMA SigDie ==
  ASSUME CS!IInv, NEW sig \in {"USR1", "RT", "USR2"}, CS!DieOfSignal(sig)
  PROVE  CS!IInv'
<1>a. /\ CS!TypeOK /\ CS!NothingBefore /\ CS!NoneAppears
      /\ CS!OneUnderWay /\ CS!NoneLost
  BY DEF CS!IInv
<1>t. toChild \in Pending /\ toParent \in Pending
  BY <1>a DEF CS!TypeOK, Pending
<1>c. toChild' =
        IF sig = "RT"
        THEN [USR1 |-> toChild.USR1, RT |-> toChild.RT - 1, USR2 |-> toChild.USR2]
        ELSE IF sig = "USR1"
        THEN [USR1 |-> toChild.USR1 - 1, RT |-> toChild.RT, USR2 |-> toChild.USR2]
        ELSE [USR1 |-> toChild.USR1, RT |-> toChild.RT, USR2 |-> toChild.USR2 - 1]
  BY <1>t, TakeFacts DEF CS!DieOfSignal
<1>d. \/ sig = "RT" /\ toChild["RT"] > 0
      \/ sig = "USR1" /\ toChild["USR1"] > 0
      \/ sig = "USR2" /\ toChild["USR2"] > 0
  BY DEF CS!DieOfSignal
<1> USE DEF CS!DieOfSignal, CS!parentVars, CS!childVars
<1>1. CS!TypeOK'
  BY <1>a, <1>c, <1>d DEF CS!TypeOK, CS!Bit, CS!Ours, CS!NothingPending
<1>2. CS!NothingBefore'
  BY <1>a, <1>c, <1>d DEF CS!TypeOK, CS!Bit, CS!Ours, CS!NothingPending,
       CS!NothingBefore
<1>3. CS!NoneAppears'
  BY <1>a, <1>c, <1>d DEF CS!TypeOK, CS!Bit, CS!Ours, CS!NothingPending,
       CS!NothingBefore, CS!NoneAppears
<1>4. CS!OneUnderWay'
  BY <1>a, <1>c, <1>d DEF CS!TypeOK, CS!Bit, CS!Ours, CS!NothingPending,
       CS!NothingBefore, CS!OneUnderWay
<1>5. CS!NoneLost'
  BY <1>a, <1>c, <1>d DEF CS!TypeOK, CS!Bit, CS!Ours, CS!NothingPending,
       CS!NothingBefore, CS!NoneLost, CS!NoneAppears
<1> QED
  BY <1>1, <1>2, <1>3, <1>4, <1>5 DEF CS!IInv

\* The answer to the signal the child has counted.
LEMMA SigReply ==
  ASSUME CS!IInv, CS!Reply
  PROVE  CS!IInv'
<1>a. /\ CS!TypeOK /\ CS!NothingBefore /\ CS!NoneAppears
      /\ CS!OneUnderWay /\ CS!NoneLost
  BY DEF CS!IInv
<1>t. toChild \in Pending /\ toParent \in Pending
  BY <1>a DEF CS!TypeOK, Pending
<1>c. toParent' =
        IF cpc \in {"exited", "killed"} THEN toParent
        ELSE IF replying = "RT"
        THEN [USR1 |-> toParent.USR1, RT |-> toParent.RT + 1, USR2 |-> toParent.USR2]
        ELSE [USR1 |-> 1, RT |-> toParent.RT, USR2 |-> toParent.USR2]
  BY <1>a, <1>t, RaiseFacts DEF CS!Reply, CS!AnswerTo, CS!TypeOK
<1> USE DEF CS!Reply, CS!parentVars, CS!childVars
<1>1. CS!TypeOK'
  BY <1>a, <1>c DEF CS!TypeOK, CS!Bit, CS!Ours, CS!NothingPending
<1>2. CS!NothingBefore'
  BY <1>a, <1>c DEF CS!TypeOK, CS!Bit, CS!Ours, CS!NothingPending,
       CS!NothingBefore
<1>3. CS!NoneAppears'
  BY <1>a, <1>c DEF CS!TypeOK, CS!Bit, CS!Ours, CS!NothingPending,
       CS!NothingBefore, CS!NoneAppears
<1>4. CS!OneUnderWay'
  BY <1>a, <1>c DEF CS!TypeOK, CS!Bit, CS!Ours, CS!NothingPending,
       CS!NothingBefore, CS!OneUnderWay
<1>5. CS!NoneLost'
  BY <1>a, <1>c DEF CS!TypeOK, CS!Bit, CS!Ours, CS!NothingPending,
       CS!NothingBefore, CS!NoneLost, CS!NoneAppears
<1> QED
  BY <1>1, <1>2, <1>3, <1>4, <1>5 DEF CS!IInv

\* The child installs a handler, or exits on SIGUSR2.
LEMMA SigExit ==
  ASSUME CS!IInv, CS!InstallHandler \/ CS!HandleLast
  PROVE  CS!IInv'
<1>a. /\ CS!TypeOK /\ CS!NothingBefore /\ CS!NoneAppears
      /\ CS!OneUnderWay /\ CS!NoneLost
  BY DEF CS!IInv
<1>t. toChild \in Pending /\ toParent \in Pending
  BY <1>a DEF CS!TypeOK, Pending
<1>c. CS!Take(toChild, "USR2")
        = [USR1 |-> toChild.USR1, RT |-> toChild.RT, USR2 |-> toChild.USR2 - 1]
  BY <1>t, TakeFacts
<1> USE DEF CS!InstallHandler, CS!HandleLast, CS!ExitChild, CS!parentVars, CS!childVars
<1>1. CS!TypeOK'
  BY <1>a, <1>c DEF CS!TypeOK, CS!Bit, CS!Ours, CS!NothingPending
<1>2. CS!NothingBefore'
  BY <1>a, <1>c DEF CS!TypeOK, CS!Bit, CS!Ours, CS!NothingPending,
       CS!NothingBefore
<1>3. CS!NoneAppears'
  BY <1>a, <1>c DEF CS!TypeOK, CS!Bit, CS!Ours, CS!NothingPending,
       CS!NothingBefore, CS!NoneAppears
<1>4. CS!OneUnderWay'
  BY <1>a, <1>c DEF CS!TypeOK, CS!Bit, CS!Ours, CS!NothingPending,
       CS!NothingBefore, CS!OneUnderWay
<1>5. CS!NoneLost'
  BY <1>a, <1>c DEF CS!TypeOK, CS!Bit, CS!Ours, CS!NothingPending,
       CS!NothingBefore, CS!NoneLost, CS!NoneAppears
<1> QED
  BY <1>1, <1>2, <1>3, <1>4, <1>5 DEF CS!IInv

\* The counters of cw04/zad3 agree as far as each mode promises, for any number
\* of signals and whenever a SIGINT comes: in mode 2 one signal is under way at
\* a time (main.c:65-102, child.c:8-23).
THEOREM CountsAlwaysAgree == MaxSignals \in Nat => (CS!Spec => []CountsAgree)
<1> SUFFICES ASSUME MaxSignals \in Nat PROVE CS!Spec => []CountsAgree
  OBVIOUS
<1>1. CS!IInv /\ [CS!Next]_(CS!vars) => CS!IInv'
  <2> SUFFICES ASSUME CS!IInv, [CS!Next]_(CS!vars) PROVE CS!IInv'
    OBVIOUS
  <2>1. CASE CS!ParentStep
    BY <2>1, SigStart, SigWait, SigSend, SigLast, SigAnswer DEF CS!ParentStep
  <2>2. CASE CS!ChildStep
    <3>1. DOMAIN CS!Order = {"USR1", "RT", "USR2"}
      BY DEF CS!Order
    <3> QED
      BY <2>2, <3>1, SigChild, SigDie, SigReply, SigExit DEF CS!ChildStep
  <2>3. CASE CS!Interrupt
    BY <2>3, SigWait
  <2>4. CASE UNCHANGED CS!vars
    <3>1. CS!TypeOK' /\ CS!NothingBefore' /\ CS!NoneAppears'
      BY <2>4 DEF CS!vars, CS!IInv, CS!TypeOK, CS!NothingBefore, CS!NoneAppears
    <3>2. CS!OneUnderWay' /\ CS!NoneLost'
      BY <2>4 DEF CS!vars, CS!IInv, CS!OneUnderWay, CS!NoneLost, CS!Ours
    <3> QED
      BY <3>1, <3>2 DEF CS!IInv
  <2> QED
    BY <2>1, <2>2, <2>3, <2>4 DEF CS!Next
<1>2. CS!IInv => CountsAgree
  <2> SUFFICES ASSUME CS!IInv PROVE CountsAgree
    OBVIOUS
  <2>1. CS!ModeTwoIsExact
    BY DEF CS!IInv, CS!TypeOK, CS!NothingBefore, CS!OneUnderWay, CS!Ours,
       CS!Bit, CS!ModeTwoIsExact
  <2>2. CS!RealTimeSignalsQueued
    BY DEF CS!IInv, CS!TypeOK, CS!NoneLost, CS!Bit, CS!Running,
       CS!RealTimeSignalsQueued
  <2>3. CS!CountersOrdered
    BY DEF CS!IInv, CS!TypeOK, CS!NoneAppears, CS!Bit, CS!CountersOrdered
  <2> QED
    BY <2>1, <2>2, <2>3 DEF CountsAgree, CS!CountsAgree
<1> QED
  BY <1>1, <1>2, SigInit, PTL DEF CS!Spec
-----------------------------------------------------------------------------
(***************************************************************************)
(* cw05/zad1: the pipelines.                                               *)
(***************************************************************************)

\* There are no pipes and no processes.
LEMMA PipesInit == PL!Init => PL!IInv
<1> SUFFICES ASSUME PL!Init PROVE PL!IInv
  OBVIOUS
<1> USE DEF PL!Init
<1>1. /\ DOMAIN pipes = {} /\ DOMAIN procs = {} /\ args \in Seq(PL!Progs)
      /\ pipes \in Seq(PL!PipeType) /\ procs \in Seq(PL!ProcType) /\ line \in Nat
  OBVIOUS
<1>2. PL!TypeOK
  BY <1>1 DEF PL!TypeOK
<1>3. PL!Children = {}
  BY <1>1 DEF PL!Children
<1>4. PL!ShellAt /\ PL!NoStragglers
  BY <1>3 DEF PL!ShellAt, PL!NoStragglers
<1>5. PL!ShellReads /\ PL!WritersFit /\ PL!NoBrokenPipe
  BY <1>1 DEF PL!ShellReads, PL!WritersFit, PL!NoBrokenPipe
<1> QED
  BY <1>2, <1>4, <1>5 DEF PL!IInv

\* What the types say of one pipe and of one process.
LEMMA PipesAndProcs ==
  ASSUME PL!TypeOK
  PROVE  /\ pipes \in Seq(PL!PipeType) /\ procs \in Seq(PL!ProcType)
         /\ DOMAIN pipes = 1 .. Len(pipes) /\ Len(pipes) \in Nat
         /\ DOMAIN procs = 1 .. Len(procs) /\ Len(procs) \in Nat
         /\ 0 \notin DOMAIN pipes /\ 0 \notin DOMAIN procs
         /\ \A p \in DOMAIN pipes : pipes[p] \in PL!PipeType
         /\ \A q \in DOMAIN procs : procs[q] \in PL!ProcType
<1>1. pipes \in Seq(PL!PipeType) /\ procs \in Seq(PL!ProcType)
  BY DEF PL!TypeOK
<1> QED
  BY <1>1

\* A process that ends closes its ends of the pipes, and nothing else.
LEMMA Closed ==
  ASSUME PL!TypeOK, NEW x
  PROVE  /\ PL!CloseAll(x) \in Seq(PL!PipeType)
         /\ DOMAIN PL!CloseAll(x) = DOMAIN pipes
         /\ \A p \in DOMAIN pipes :
              /\ PL!CloseAll(x)[p].writers = pipes[p].writers \ {x}
              /\ PL!CloseAll(x)[p].readers = pipes[p].readers \ {x}
<1>1. \A p \in DOMAIN pipes :
        [pipes[p] EXCEPT !.readers = @ \ {x}, !.writers = @ \ {x}] \in PL!PipeType
  BY PipesAndProcs DEF PL!PipeType
<1>2. PL!CloseAll(x) \in [1 .. Len(pipes) -> PL!PipeType]
  BY <1>1, PipesAndProcs DEF PL!CloseAll
<1>3. PL!CloseAll(x) \in Seq(PL!PipeType)
  BY <1>2, PipesAndProcs
<1>4. \A p \in DOMAIN pipes : pipes[p] \in PL!PipeType
  BY PipesAndProcs
<1> QED
  BY <1>3, <1>4 DEF PL!CloseAll, PL!PipeType

\* A step that starts no process, opens no end and ends no program by SIGPIPE
\* while the shell lives keeps the invariant.
LEMMA PipesKept ==
  ASSUME PL!IInv,
         pipes' \in Seq(PL!PipeType), DOMAIN pipes' = DOMAIN pipes,
         procs' \in Seq(PL!ProcType), DOMAIN procs' = DOMAIN procs,
         \A p \in DOMAIN pipes :
           /\ pipes'[p].writers \subseteq pipes[p].writers
           /\ sh' # "exited" /\ 0 \in pipes[p].readers => 0 \in pipes'[p].readers,
         \A q \in DOMAIN procs :
           /\ procs'[q].in = procs[q].in /\ procs'[q].out = procs[q].out
           /\ procs'[q].line = procs[q].line
           /\ procs[q].st = "reaped" => procs'[q].st = "reaped"
           /\ procs'[q].st = "broken" => procs[q].st = "broken" \/ sh' = "exited",
         stdin' = stdin, fd' \in {fd, 0},
         source' \in {"none", "file", "stdin", "buffered"}, failed' \in BOOLEAN,
         args' \in Seq(PL!Progs), line' \in Nat,
         sh' \in {"start", "read", "exec", "vfork", "redirect", "wait", "exited"},
         sh' # "exited" => sh # "exited",
         line' = line \/ PL!Children = {},
         sh' \in {"vfork", "redirect"} => fd' # 0 /\ Len(args') > 1,
         sh' \in {"start", "read", "exec", "wait"} => fd' = 0,
         sh' \in {"start", "read"} => PL!Children = {}
  PROVE  PL!IInv'
<1>a. /\ PL!TypeOK /\ PL!ShellAt /\ PL!ShellReads /\ PL!WritersFit
      /\ PL!NoBrokenPipe /\ PL!NoStragglers
  BY DEF PL!IInv
<1>1. PL!TypeOK'
  <2>1. {stdin', fd'} \subseteq {0} \cup DOMAIN pipes'
    BY <1>a DEF PL!TypeOK
  <2>2. \A q \in DOMAIN procs' :
          {procs'[q].in, procs'[q].out} \subseteq {0} \cup DOMAIN pipes'
    BY <1>a, SMTT(30) DEF PL!TypeOK
  <2> QED
    BY <2>1, <2>2 DEF PL!TypeOK, PL!PipeType, PL!ProcType
<1>2. PL!Children' \subseteq PL!Children
  BY DEF PL!Children
<1>3. PL!ShellAt'
  BY <1>2 DEF PL!ShellAt
<1>4. PL!ShellReads'
  BY <1>a DEF PL!ShellReads
<1>5. PL!WritersFit'
  <2>1. ASSUME NEW p \in DOMAIN pipes, NEW w \in pipes'[p].writers
        PROVE  /\ w \in {0} \cup DOMAIN procs
               /\ p = stdin \/ (\E q \in DOMAIN procs : procs[q].in = p) => w # 0
               /\ p = stdin \/ (\E q \in DOMAIN procs : procs[q].in = p) \/ p = fd
                    => w = 0 \/ procs[w].out = p
    BY <1>a DEF PL!WritersFit, PL!IsInput
  <2>2. 0 \notin DOMAIN pipes
    BY <1>a, PipesAndProcs
  <2>3. \A p : (\E q \in DOMAIN procs' : procs'[q].in = p)
                 <=> (\E q \in DOMAIN procs : procs[q].in = p)
    OBVIOUS
  <2>4. ASSUME NEW p \in DOMAIN pipes', NEW w \in pipes'[p].writers
        PROVE  /\ w \in {0} \cup DOMAIN procs'
               /\ p = stdin' \/ (\E q \in DOMAIN procs' : procs'[q].in = p)
                    => w # 0
               /\ p = stdin' \/ (\E q \in DOMAIN procs' : procs'[q].in = p)
                    \/ p = fd'
                    => w = 0 \/ procs'[w].out = p
    <3>1. p \in DOMAIN pipes /\ p # 0
      BY <2>2
    <3>2. w \in {0} \cup DOMAIN procs
      BY <2>1, <3>1
    <3>3. w = 0 \/ procs'[w].out = procs[w].out
      BY <3>2
    <3>4. /\ p = stdin \/ (\E q \in DOMAIN procs : procs[q].in = p) => w # 0
          /\ p = stdin \/ (\E q \in DOMAIN procs : procs[q].in = p) \/ p = fd
               => w = 0 \/ procs[w].out = p
      BY <2>1, <3>1
    <3>5. /\ p = stdin' <=> p = stdin
          /\ p = fd' => p = fd
      BY <3>1
    <3>6. CASE w = 0
      BY <2>3, <3>4, <3>5, <3>6
    <3>7. CASE w # 0
      BY <2>3, <3>2, <3>3, <3>4, <3>5, <3>7
    <3> QED BY <3>6, <3>7
  <2> QED
    BY <2>4 DEF PL!WritersFit, PL!IsInput
<1>6. PL!NoBrokenPipe'
  BY <1>a DEF PL!NoBrokenPipe
<1>7. PL!NoStragglers'
  BY <1>a, <1>2 DEF PL!NoStragglers, PL!Children
<1> QED
  BY <1>1, <1>3, <1>4, <1>5, <1>6, <1>7 DEF PL!IInv

\* The shell opens its input, reads a line, fails to vfork, or has waited for
\* all children of a line.
LEMMA PipesShell ==
  ASSUME Lines \subseteq Seq(PL!Progs), PL!IInv,
         \/ PL!OpenSource \/ PL!VforkFails \/ PL!AllWaitedFor \/ PL!EndOfInput
         \/ PL!ReadLeftover
         \/ \E l \in Lines : PL!ReadLine(l)
  PROVE  PL!IInv'
<1>a. /\ PL!TypeOK /\ PL!ShellAt /\ PL!ShellReads /\ PL!WritersFit
      /\ PL!NoBrokenPipe /\ PL!NoStragglers
  BY DEF PL!IInv
<1>t. /\ source \in {"none", "file", "stdin", "buffered"} /\ failed \in BOOLEAN
      /\ args \in Seq(PL!Progs) /\ line \in Nat /\ stdin \in {0} \cup DOMAIN pipes
      /\ sh \in {"start", "read", "exec", "vfork", "redirect", "wait", "exited"}
  BY <1>a DEF PL!TypeOK
<1>1. ASSUME NEW l \in Lines, PL!ReadLine(l), l = <<"bad">> PROVE PL!IInv'
  <2>f. /\ sh' = "exited" /\ pipes' = PL!CloseAll(0) /\ sh = "read"
        /\ line' = line + 1 /\ failed' = FALSE /\ args' = args
        /\ source' = source /\ stdin' = stdin /\ fd' = fd /\ procs' = procs
    BY <1>1 DEF PL!ReadLine, PL!ExitShell
  <2>1. PL!Children = {}
    BY <1>a, <2>f DEF PL!ShellAt
  <2>2. line' \in Nat
    BY <1>t, <2>f
  <2>3. /\ pipes' \in Seq(PL!PipeType) /\ DOMAIN pipes' = DOMAIN pipes
        /\ \A p \in DOMAIN pipes : pipes'[p].writers \subseteq pipes[p].writers
    BY <1>a, <2>f, Closed
  <2>4. procs' \in Seq(PL!ProcType)
    BY <1>a, <2>f, PipesAndProcs
  <2> QED
    BY <1>t, <2>f, <2>1, <2>2, <2>3, <2>4, PipesKept
<1>2. ASSUME NEW l \in Lines, PL!ReadLine(l), l # <<"bad">> PROVE PL!IInv'
  <2>f. /\ sh' \in {"read", "exec"} /\ pipes' = pipes /\ sh = "read"
        /\ line' = line + 1 /\ failed' = FALSE /\ args' \in Seq(PL!Progs)
        /\ source' = source /\ stdin' = stdin /\ fd' = fd /\ procs' = procs
    BY <1>2 DEF PL!ReadLine
  <2>1. PL!Children = {} /\ fd = 0
    BY <1>a, <2>f DEF PL!ShellAt
  <2>2. line' \in Nat
    BY <1>t, <2>f
  <2> QED
    BY <1>a, <1>t, <2>f, <2>1, <2>2, PipesAndProcs, PipesKept
<1>3. CASE PL!EndOfInput
  <2>f. /\ sh' = "exited" /\ pipes' = PL!CloseAll(0) /\ sh = "read"
        /\ line' = line /\ failed' = failed /\ args' = args
        /\ source' = source /\ stdin' = stdin /\ fd' = fd /\ procs' = procs
    BY <1>3 DEF PL!EndOfInput, PL!ExitShell
  <2> QED
    BY <1>a, <1>t, <2>f, Closed, PipesAndProcs, PipesKept
<1>4. CASE PL!ReadLeftover
  <2>f. /\ sh' = "exec" /\ sh = "read" /\ stdin # 0 /\ pipes[stdin].data > 0
        /\ pipes' = [pipes EXCEPT ![stdin].data = @ - 1]
        /\ line' = line + 1 /\ failed' = FALSE /\ args' = <<"missing">>
        /\ source' = "stdin" /\ stdin' = stdin /\ fd' = fd /\ procs' = procs
    BY <1>4 DEF PL!ReadLeftover
  <2>1. PL!Children = {} /\ fd = 0
    BY <1>a, <2>f DEF PL!ShellAt
  <2>2. stdin \in DOMAIN pipes /\ pipes[stdin] \in PL!PipeType
    BY <1>a, <1>t, <2>f, PipesAndProcs
  <2>3. [pipes[stdin] EXCEPT !.data = @ - 1] \in PL!PipeType
    BY <2>f, <2>2 DEF PL!PipeType
  <2>4. /\ pipes' \in Seq(PL!PipeType) /\ DOMAIN pipes' = DOMAIN pipes
        /\ \A p \in DOMAIN pipes :
             pipes'[p] = IF p = stdin THEN [pipes[stdin] EXCEPT !.data = @ - 1]
                         ELSE pipes[p]
    BY <1>a, <2>f, <2>2, <2>3, PipesAndProcs
  <2>5. \A p \in DOMAIN pipes : /\ pipes'[p].writers = pipes[p].writers
                                /\ pipes'[p].readers = pipes[p].readers
    BY <2>2, <2>4 DEF PL!PipeType
  <2>6. args' \in Seq(PL!Progs)
    <3>1. "missing" \in PL!Progs
      BY DEF PL!Progs
    <3> QED BY <2>f, <3>1
  <2>7. line' \in Nat /\ procs' \in Seq(PL!ProcType)
    BY <1>a, <1>t, <2>f, PipesAndProcs
  <2> QED
    BY <1>t, <2>f, <2>1, <2>4, <2>5, <2>6, <2>7, PipesKept
<1>5. CASE PL!OpenSource \/ PL!VforkFails \/ PL!AllWaitedFor
  <2>f. /\ pipes' = pipes /\ stdin' = stdin /\ procs' = procs /\ line' = line
        /\ args' = args /\ failed' \in BOOLEAN
        /\ source' \in {"none", "file", "stdin", "buffered"}
        /\ \/ sh = "start" /\ sh' = "read" /\ fd' = fd
           \/ sh \in {"exec", "vfork"} /\ sh' = "wait" /\ fd' = 0
           \/ sh = "wait" /\ sh' = "read" /\ fd' = fd /\ PL!Children = {}
    BY <1>5, <1>t DEF PL!OpenSource, PL!VforkFails, PL!AllWaitedFor,
         PL!NoChildren
  <2>1. /\ sh' = "read" => PL!Children = {} /\ fd' = 0
        /\ sh' \in {"read", "wait"} /\ fd' \in {fd, 0} /\ fd' = 0
    BY <1>a, <2>f DEF PL!ShellAt
  <2> QED
    BY <1>a, <1>t, <2>f, <2>1, PipesAndProcs, PipesKept
<1> QED
  BY <1>1, <1>2, <1>3, <1>4, <1>5

\* A process changes only in its state, its status and what it has to write.
LEMMA ProcChanged ==
  ASSUME PL!TypeOK, NEW q \in DOMAIN procs, NEW x \in PL!ProcType,
         x.in = procs[q].in, x.out = procs[q].out, x.line = procs[q].line,
         procs' = [procs EXCEPT ![q] = x]
  PROVE  /\ procs' \in Seq(PL!ProcType) /\ DOMAIN procs' = DOMAIN procs
         /\ \A r \in DOMAIN procs :
              /\ procs'[r].in = procs[r].in /\ procs'[r].out = procs[r].out
              /\ procs'[r].line = procs[r].line
              /\ r # q => procs'[r].st = procs[r].st
         /\ procs'[q].st = x.st
<1>1. procs \in Seq(PL!ProcType)
  BY PipesAndProcs
<1>2. procs' \in Seq(PL!ProcType) /\ DOMAIN procs' = DOMAIN procs
  BY <1>1
<1>3. \A r \in DOMAIN procs : procs'[r] = IF r = q THEN x ELSE procs[r]
  BY <1>1
<1> QED
  BY <1>2, <1>3

\* waitpid; the shell ends if the program has failed.
LEMMA PipesWait ==
  ASSUME PL!IInv, NEW q \in DOMAIN procs, PL!Waitpid(q)
  PROVE  PL!IInv'
<1>a. /\ PL!TypeOK /\ PL!ShellAt /\ PL!ShellReads /\ PL!WritersFit
      /\ PL!NoBrokenPipe /\ PL!NoStragglers
  BY DEF PL!IInv
<1>f. /\ sh = "wait" /\ line' = line /\ failed' = failed /\ args' = args
      /\ source' = source /\ stdin' = stdin /\ fd' = fd
      /\ procs' = [procs EXCEPT ![q] = [procs[q] EXCEPT !.st = "reaped"]]
      /\ \/ sh' = "exited" /\ pipes' = PL!CloseAll(0)
         \/ sh' = "wait" /\ pipes' = pipes
  BY DEF PL!Waitpid, PL!ExitShell
<1>t. /\ source \in {"none", "file", "stdin", "buffered"} /\ failed \in BOOLEAN
      /\ args \in Seq(PL!Progs) /\ line \in Nat /\ fd = 0
  BY <1>a, <1>f DEF PL!TypeOK, PL!ShellAt
<1>1. /\ [procs[q] EXCEPT !.st = "reaped"] \in PL!ProcType
      /\ [procs[q] EXCEPT !.st = "reaped"].in = procs[q].in
      /\ [procs[q] EXCEPT !.st = "reaped"].out = procs[q].out
      /\ [procs[q] EXCEPT !.st = "reaped"].line = procs[q].line
      /\ [procs[q] EXCEPT !.st = "reaped"].st = "reaped"
  BY <1>a, PipesAndProcs DEF PL!ProcType
<1>2. /\ procs' \in Seq(PL!ProcType) /\ DOMAIN procs' = DOMAIN procs
      /\ \A r \in DOMAIN procs :
           /\ procs'[r].in = procs[r].in /\ procs'[r].out = procs[r].out
           /\ procs'[r].line = procs[r].line
           /\ r # q => procs'[r].st = procs[r].st
      /\ procs'[q].st = "reaped"
  BY <1>a, <1>f, <1>1, ProcChanged
<1>3. /\ pipes' \in Seq(PL!PipeType) /\ DOMAIN pipes' = DOMAIN pipes
      /\ \A p \in DOMAIN pipes :
           /\ pipes'[p].writers \subseteq pipes[p].writers
           /\ sh' # "exited" => pipes'[p].readers = pipes[p].readers
  BY <1>a, <1>f, Closed, PipesAndProcs
<1> QED
  BY <1>f, <1>t, <1>2, <1>3, PipesKept

\* A program writes, reads, or ends; by SIGPIPE only when the shell has ended,
\* which reads from all pipes.
LEMMA PipesProgram ==
  ASSUME PL!IInv, NEW q \in DOMAIN procs, PL!Step(q)
  PROVE  PL!IInv'
<1>a. /\ PL!TypeOK /\ PL!ShellAt /\ PL!ShellReads /\ PL!WritersFit
      /\ PL!NoBrokenPipe /\ PL!NoStragglers
  BY DEF PL!IInv
<1>f. line' = line /\ failed' = failed /\ args' = args /\ sh' = sh
      /\ source' = source /\ stdin' = stdin /\ fd' = fd
  BY DEF PL!Step, PL!Write, PL!BreakPipe, PL!Read, PL!EndProgram, PL!Die,
       PL!shell
<1>t. /\ source \in {"none", "file", "stdin", "buffered"} /\ failed \in BOOLEAN
      /\ args \in Seq(PL!Progs) /\ line \in Nat
      /\ sh \in {"start", "read", "exec", "vfork", "redirect", "wait", "exited"}
      /\ sh \in {"vfork", "redirect"} => fd # 0 /\ Len(args) > 1
      /\ sh \in {"start", "read", "exec", "wait"} => fd = 0
      /\ sh \in {"start", "read"} => PL!Children = {}
  BY <1>a DEF PL!TypeOK, PL!ShellAt
<1>b. /\ procs[q] \in PL!ProcType /\ pipes \in Seq(PL!PipeType)
      /\ \A p \in DOMAIN pipes : pipes[p] \in PL!PipeType
  BY <1>a, PipesAndProcs
<1>c. procs[q].st = "running"
  BY DEF PL!Step, PL!Write, PL!BreakPipe, PL!Read, PL!EndProgram
<1>1. ASSUME NEW p \in DOMAIN pipes, NEW x \in PL!PipeType,
             x.readers = pipes[p].readers, x.writers = pipes[p].writers,
             pipes' = [pipes EXCEPT ![p] = x]
      PROVE  /\ pipes' \in Seq(PL!PipeType) /\ DOMAIN pipes' = DOMAIN pipes
             /\ \A r \in DOMAIN pipes :
                  /\ pipes'[r].writers = pipes[r].writers
                  /\ pipes'[r].readers = pipes[r].readers
  <2>1. \A r \in DOMAIN pipes : pipes'[r] = IF r = p THEN x ELSE pipes[r]
    BY <1>b, <1>1
  <2> QED
    BY <1>b, <1>1, <2>1
<1>2. CASE PL!Write(q)
  <2> DEFINE p == procs[q].out
  <2> DEFINE x == [procs[q] EXCEPT !.left = @ - 1]
  <2>f. /\ procs[q].left > 0 /\ procs' = [procs EXCEPT ![q] = x]
        /\ pipes' = IF p = 0 THEN pipes
                    ELSE [pipes EXCEPT ![p] = [pipes[p] EXCEPT !.data = @ + 1]]
    BY <1>2 DEF PL!Write
  <2>1. /\ x \in PL!ProcType /\ x.in = procs[q].in /\ x.out = procs[q].out
        /\ x.line = procs[q].line /\ x.st = "running"
    BY <1>b, <1>c, <2>f DEF PL!ProcType
  <2>2. /\ procs' \in Seq(PL!ProcType) /\ DOMAIN procs' = DOMAIN procs
        /\ \A r \in DOMAIN procs :
             /\ procs'[r].in = procs[r].in /\ procs'[r].out = procs[r].out
             /\ procs'[r].line = procs[r].line
             /\ procs'[r].st = procs[r].st
    BY <1>a, <1>c, <2>f, <2>1, ProcChanged
  <2>3. /\ pipes' \in Seq(PL!PipeType) /\ DOMAIN pipes' = DOMAIN pipes
        /\ \A r \in DOMAIN pipes :
             /\ pipes'[r].writers = pipes[r].writers
             /\ pipes'[r].readers = pipes[r].readers
    <3>1. CASE p \notin DOMAIN pipes
      <4>1. p = 0
        BY <1>a, <3>1 DEF PL!TypeOK
      <4> QED
        BY <1>b, <2>f, <4>1
    <3>2. CASE p \in DOMAIN pipes
      <4>1. /\ [pipes[p] EXCEPT !.data = @ + 1] \in PL!PipeType
            /\ [pipes[p] EXCEPT !.data = @ + 1].readers = pipes[p].readers
            /\ [pipes[p] EXCEPT !.data = @ + 1].writers = pipes[p].writers
        <5>1. pipes[p] \in PL!PipeType
          BY <1>b, <3>2
        <5> HIDE DEF p
        <5> QED
          BY <5>1 DEF PL!PipeType
      <4>2. p # 0
        BY <1>a, <3>2, PipesAndProcs
      <4> QED
        BY <1>1, <2>f, <3>2, <4>1, <4>2
    <3> QED BY <3>1, <3>2
  <2> QED
    BY <1>f, <1>t, <1>c, <2>2, <2>3, PipesKept
<1>3. CASE PL!Read(q)
  <2> DEFINE p == procs[q].in
  <2> DEFINE x == [procs[q] EXCEPT !.left = 1]
  <2>f. /\ p # 0 /\ pipes[p].data > 0 /\ procs' = [procs EXCEPT ![q] = x]
        /\ pipes' = [pipes EXCEPT ![p] = [pipes[p] EXCEPT !.data = @ - 1]]
    BY <1>3 DEF PL!Read
  <2>1. /\ x \in PL!ProcType /\ x.in = procs[q].in /\ x.out = procs[q].out
        /\ x.line = procs[q].line /\ x.st = "running"
    BY <1>b, <1>c, <2>f DEF PL!ProcType
  <2>2. /\ procs' \in Seq(PL!ProcType) /\ DOMAIN procs' = DOMAIN procs
        /\ \A r \in DOMAIN procs :
             /\ procs'[r].in = procs[r].in /\ procs'[r].out = procs[r].out
             /\ procs'[r].line = procs[r].line
             /\ procs'[r].st = procs[r].st
    BY <1>a, <1>c, <2>f, <2>1, ProcChanged
  <2>3. p \in DOMAIN pipes
    BY <1>a, <2>f DEF PL!TypeOK
  <2>4. /\ [pipes[p] EXCEPT !.data = @ - 1] \in PL!PipeType
        /\ [pipes[p] EXCEPT !.data = @ - 1].readers = pipes[p].readers
        /\ [pipes[p] EXCEPT !.data = @ - 1].writers = pipes[p].writers
    <3>1. pipes[p] \in PL!PipeType /\ pipes[p].data > 0
      BY <1>b, <2>f, <2>3
    <3> HIDE DEF p
    <3> QED
      BY <3>1 DEF PL!PipeType
  <2>5. /\ pipes' \in Seq(PL!PipeType) /\ DOMAIN pipes' = DOMAIN pipes
        /\ \A r \in DOMAIN pipes :
             /\ pipes'[r].writers = pipes[r].writers
             /\ pipes'[r].readers = pipes[r].readers
    BY <1>1, <2>f, <2>3, <2>4
  <2> QED
    BY <1>f, <1>t, <1>c, <2>2, <2>5, PipesKept
<1>4. CASE PL!BreakPipe(q) \/ PL!EndProgram(q)
  <2>1. PICK status \in Nat, how \in {"dead", "broken"} :
          /\ procs' = [procs EXCEPT ![q] = [procs[q] EXCEPT !.st = how,
                                                            !.status = status]]
          /\ how = "broken" => PL!BreakPipe(q)
    BY <1>4 DEF PL!BreakPipe, PL!EndProgram, PL!Die
  <2> DEFINE x == [procs[q] EXCEPT !.st = how, !.status = status]
  <2>f. pipes' = PL!CloseAll(q)
    BY <1>4 DEF PL!BreakPipe, PL!EndProgram, PL!Die
  <2>2. /\ x \in PL!ProcType /\ x.in = procs[q].in /\ x.out = procs[q].out
        /\ x.line = procs[q].line /\ x.st = how
    BY <1>b, <1>c, <2>1 DEF PL!ProcType
  <2>3. /\ procs' \in Seq(PL!ProcType) /\ DOMAIN procs' = DOMAIN procs
        /\ \A r \in DOMAIN procs :
             /\ procs'[r].in = procs[r].in /\ procs'[r].out = procs[r].out
             /\ procs'[r].line = procs[r].line
             /\ r # q => procs'[r].st = procs[r].st
        /\ procs'[q].st = how
    BY <1>a, <2>1, <2>2, ProcChanged
  <2>4. how = "broken" => sh = "exited"
    <3>1. SUFFICES ASSUME PL!BreakPipe(q) PROVE sh = "exited"
      BY <2>1
    <3>2. procs[q].out # 0 /\ pipes[procs[q].out].readers = {}
      BY <3>1 DEF PL!BreakPipe
    <3>3. procs[q].out \in DOMAIN pipes
      BY <1>a, <3>2 DEF PL!TypeOK
    <3> QED
      BY <1>a, <3>2, <3>3 DEF PL!ShellReads
  <2>5. /\ pipes' \in Seq(PL!PipeType) /\ DOMAIN pipes' = DOMAIN pipes
        /\ \A p \in DOMAIN pipes :
             /\ pipes'[p].writers \subseteq pipes[p].writers
             /\ 0 \in pipes[p].readers => 0 \in pipes'[p].readers
    BY <1>a, <2>f, Closed, PipesAndProcs
  <2> QED
    BY <1>f, <1>t, <1>c, <2>3, <2>4, <2>5, PipesKept
<1> QED
  BY <1>2, <1>3, <1>4 DEF PL!Step

\* pipe: the new one is nobody's input yet, and the shell holds both its ends;
\* or the shell ends.
LEMMA PipesCreate ==
  ASSUME PL!IInv, PL!CreatePipe
  PROVE  PL!IInv'
<1>a. /\ PL!TypeOK /\ PL!ShellAt /\ PL!ShellReads /\ PL!WritersFit
      /\ PL!NoBrokenPipe /\ PL!NoStragglers
  BY DEF PL!IInv
<1>t. /\ source \in {"none", "file", "stdin", "buffered"} /\ failed \in BOOLEAN
      /\ args \in Seq(PL!Progs) /\ line \in Nat
      /\ stdin \in {0} \cup DOMAIN pipes /\ fd \in {0} \cup DOMAIN pipes
      /\ \A q \in DOMAIN procs : /\ procs[q].in \in {0} \cup DOMAIN pipes
                                 /\ procs[q].out \in {0} \cup DOMAIN pipes
  BY <1>a DEF PL!TypeOK
<1>b. /\ pipes \in Seq(PL!PipeType) /\ procs \in Seq(PL!ProcType)
      /\ DOMAIN pipes = 1 .. Len(pipes) /\ Len(pipes) \in Nat
      /\ DOMAIN procs = 1 .. Len(procs) /\ Len(procs) \in Nat
      /\ 0 \notin DOMAIN pipes /\ 0 \notin DOMAIN procs
      /\ \A p \in DOMAIN pipes : pipes[p] \in PL!PipeType
      /\ \A q \in DOMAIN procs : procs[q] \in PL!ProcType
  BY <1>a, PipesAndProcs
<1>w. \A p \in DOMAIN pipes : \A w \in pipes[p].writers :
        /\ w \in {0} \cup DOMAIN procs
        /\ p = stdin \/ (\E q \in DOMAIN procs : procs[q].in = p) => w # 0
        /\ p = stdin \/ (\E q \in DOMAIN procs : procs[q].in = p) \/ p = fd
             => w = 0 \/ procs[w].out = p
  BY <1>a DEF PL!WritersFit, PL!IsInput
<1>f. /\ sh = "exec" /\ Len(args) > 1 /\ source' = source /\ line' = line
      /\ args' = args /\ stdin' = stdin /\ procs' = procs /\ failed' = failed
  BY DEF PL!CreatePipe
<1>0. fd = 0 /\ Len(pipes) + 1 \notin DOMAIN pipes /\ Len(pipes) + 1 # 0
  BY <1>a, <1>b, <1>f DEF PL!ShellAt
<1>1. CASE sh' = "exited" /\ fd' = fd /\ pipes' = PL!CloseAll(0)
  <2>1. /\ pipes' \in Seq(PL!PipeType) /\ DOMAIN pipes' = DOMAIN pipes
        /\ \A p \in DOMAIN pipes : pipes'[p].writers \subseteq pipes[p].writers
    BY <1>a, <1>1, Closed
  <2> QED
    BY <1>b, <1>t, <1>f, <1>0, <1>1, <2>1, PipesKept
<1>2. CASE /\ pipes' = Append(pipes, [data |-> 0, readers |-> {0}, writers |-> {0}])
           /\ fd' = Len(pipes) + 1 /\ sh' = "vfork"
  <2> DEFINE x == [data |-> 0, readers |-> {0}, writers |-> {0}]
  <2>1. x \in PL!PipeType /\ x.writers = {0} /\ x.readers = {0}
    BY DEF PL!PipeType
  <2>2. /\ pipes' \in Seq(PL!PipeType) /\ DOMAIN pipes' = 1 .. Len(pipes) + 1
        /\ \A p \in DOMAIN pipes : pipes'[p] = pipes[p]
        /\ pipes'[Len(pipes) + 1] = x
    BY <1>b, <1>2, <2>1
  <2>3. DOMAIN pipes' = DOMAIN pipes \cup {Len(pipes) + 1}
    BY <1>b, <2>2
  <2>4. PL!TypeOK'
    <3>1. {stdin', fd'} \subseteq {0} \cup DOMAIN pipes'
      BY <1>f, <1>t, <1>2, <2>3
    <3>2. \A q \in DOMAIN procs' :
            {procs'[q].in, procs'[q].out} \subseteq {0} \cup DOMAIN pipes'
      BY <1>f, <1>t, <2>3
    <3> QED
      BY <1>b, <1>f, <1>t, <1>2, <2>2, <3>1, <3>2
         DEF PL!TypeOK, PL!PipeType, PL!ProcType
  <2>5. PL!ShellAt'
    BY <1>0, <1>2, <1>f DEF PL!ShellAt
  <2>6. PL!ShellReads'
    BY <1>a, <1>f, <2>1, <2>2, <2>3 DEF PL!ShellReads
  <2>7. PL!WritersFit'
    <3>1. ASSUME NEW p \in DOMAIN pipes', NEW w \in pipes'[p].writers
          PROVE  /\ w \in {0} \cup DOMAIN procs'
                 /\ p = stdin' \/ (\E q \in DOMAIN procs' : procs'[q].in = p)
                      => w # 0
                 /\ p = stdin' \/ (\E q \in DOMAIN procs' : procs'[q].in = p)
                      \/ p = fd'
                      => w = 0 \/ procs'[w].out = p
      <4>1. CASE p = Len(pipes) + 1
        <5>1. w = 0
          BY <2>1, <2>2, <4>1
        <5>2. p # stdin' /\ \A q \in DOMAIN procs' : procs'[q].in # p
          BY <1>0, <1>f, <1>t, <4>1
        <5> QED BY <5>1, <5>2
      <4>2. CASE p \in DOMAIN pipes
        <5>1. w \in pipes[p].writers /\ p # fd'
          BY <1>0, <1>2, <2>2, <4>2
        <5> QED BY <1>f, <1>w, <4>2, <5>1
      <4> QED BY <2>3, <4>1, <4>2
    <3> QED
      BY <3>1 DEF PL!WritersFit, PL!IsInput
  <2>8. PL!NoBrokenPipe' /\ PL!NoStragglers'
    BY <1>a, <1>f DEF PL!NoBrokenPipe, PL!NoStragglers, PL!Children
  <2> QED
    BY <2>4, <2>5, <2>6, <2>7, <2>8 DEF PL!IInv
<1> QED
  BY <1>1, <1>2 DEF PL!CreatePipe, PL!ExitShell

\* The pipe in hand becomes the input of the next program, after the shell has
\* closed its write end.
LEMMA PipesRedirect ==
  ASSUME PL!IInv, PL!Redirect
  PROVE  PL!IInv'
<1>a. /\ PL!TypeOK /\ PL!ShellAt /\ PL!ShellReads /\ PL!WritersFit
      /\ PL!NoBrokenPipe /\ PL!NoStragglers
  BY DEF PL!IInv
<1>t. /\ source \in {"none", "file", "stdin", "buffered"} /\ failed \in BOOLEAN
      /\ args \in Seq(PL!Progs) /\ line \in Nat
      /\ stdin \in {0} \cup DOMAIN pipes /\ fd \in {0} \cup DOMAIN pipes
      /\ \A q \in DOMAIN procs : /\ procs[q].in \in {0} \cup DOMAIN pipes
                                 /\ procs[q].out \in {0} \cup DOMAIN pipes
  BY <1>a DEF PL!TypeOK
<1>b. /\ pipes \in Seq(PL!PipeType) /\ procs \in Seq(PL!ProcType)
      /\ DOMAIN pipes = 1 .. Len(pipes) /\ Len(pipes) \in Nat
      /\ DOMAIN procs = 1 .. Len(procs) /\ Len(procs) \in Nat
      /\ 0 \notin DOMAIN pipes /\ 0 \notin DOMAIN procs
      /\ \A p \in DOMAIN pipes : pipes[p] \in PL!PipeType
      /\ \A q \in DOMAIN procs : procs[q] \in PL!ProcType
  BY <1>a, PipesAndProcs
<1>w. \A p \in DOMAIN pipes : \A w \in pipes[p].writers :
        /\ w \in {0} \cup DOMAIN procs
        /\ p = stdin \/ (\E q \in DOMAIN procs : procs[q].in = p) => w # 0
        /\ p = stdin \/ (\E q \in DOMAIN procs : procs[q].in = p) \/ p = fd
             => w = 0 \/ procs[w].out = p
  BY <1>a DEF PL!WritersFit, PL!IsInput
<1>f. /\ sh = "redirect" /\ sh' = "exec" /\ stdin' = fd /\ fd' = 0
      /\ pipes' = [pipes EXCEPT ![fd] = [pipes[fd] EXCEPT !.writers = @ \ {0}]]
      /\ args' = Tail(args) /\ source' = source /\ line' = line
      /\ procs' = procs /\ failed' = failed
  BY DEF PL!Redirect, PL!CloseWriteEnd
<1>0. fd \in DOMAIN pipes /\ Len(args) > 1
  BY <1>a, <1>f, <1>t DEF PL!ShellAt
<1>1. /\ [pipes[fd] EXCEPT !.writers = @ \ {0}] \in PL!PipeType
      /\ [pipes[fd] EXCEPT !.writers = @ \ {0}].writers = pipes[fd].writers \ {0}
      /\ [pipes[fd] EXCEPT !.writers = @ \ {0}].readers = pipes[fd].readers
  BY <1>0, <1>b DEF PL!PipeType
<1>2. /\ pipes' \in Seq(PL!PipeType) /\ DOMAIN pipes' = DOMAIN pipes
      /\ \A p \in DOMAIN pipes : p # fd => pipes'[p] = pipes[p]
      /\ pipes'[fd] = [pipes[fd] EXCEPT !.writers = @ \ {0}]
  BY <1>0, <1>1, <1>b, <1>f
<1>3. \A p \in DOMAIN pipes :
        /\ pipes'[p].readers = pipes[p].readers
        /\ pipes'[p].writers \subseteq pipes[p].writers
        /\ p = fd => 0 \notin pipes'[p].writers
  BY <1>1, <1>2
<1>4. PL!TypeOK'
  <2>1. args' \in Seq(PL!Progs)
    BY <1>0, <1>f, <1>t
  <2>2. {stdin', fd'} \subseteq {0} \cup DOMAIN pipes'
    BY <1>0, <1>2, <1>f
  <2>3. \A q \in DOMAIN procs' :
          {procs'[q].in, procs'[q].out} \subseteq {0} \cup DOMAIN pipes'
    BY <1>2, <1>f, <1>t
  <2> QED
    BY <1>2, <1>b, <1>f, <1>t, <2>1, <2>2, <2>3
       DEF PL!TypeOK, PL!PipeType, PL!ProcType
<1>5. PL!ShellAt'
  BY <1>f DEF PL!ShellAt
<1>6. PL!ShellReads'
  BY <1>2, <1>3, <1>a, <1>f DEF PL!ShellReads
<1>7. PL!WritersFit'
  <2>1. ASSUME NEW p \in DOMAIN pipes', NEW w \in pipes'[p].writers
        PROVE  /\ w \in {0} \cup DOMAIN procs'
               /\ p = stdin' \/ (\E q \in DOMAIN procs' : procs'[q].in = p)
                    => w # 0
               /\ p = stdin' \/ (\E q \in DOMAIN procs' : procs'[q].in = p)
                    \/ p = fd'
                    => w = 0 \/ procs'[w].out = p
    <3>1. p \in DOMAIN pipes /\ w \in pipes[p].writers /\ p # fd'
      BY <1>2, <1>3, <1>b, <1>f
    <3>2. p = fd => w # 0
      BY <1>3, <3>1
    <3> QED
      BY <1>f, <1>w, <3>1, <3>2
  <2> QED
    BY <2>1 DEF PL!WritersFit, PL!IsInput
<1>8. PL!NoBrokenPipe' /\ PL!NoStragglers'
  BY <1>a, <1>f DEF PL!NoBrokenPipe, PL!NoStragglers, PL!Children
<1> QED
  BY <1>4, <1>5, <1>6, <1>7, <1>8 DEF PL!IInv

\* The new process inherits the write ends that the shell holds: those of the
\* pipe in hand, its output, and of pipes that are nobody's input.
LEMMA PipesVfork ==
  ASSUME PL!IInv, PL!Vfork
  PROVE  PL!IInv'
<1>a. /\ PL!TypeOK /\ PL!ShellAt /\ PL!ShellReads /\ PL!WritersFit
      /\ PL!NoBrokenPipe /\ PL!NoStragglers
  BY DEF PL!IInv
<1>t. /\ source \in {"none", "file", "stdin", "buffered"} /\ failed \in BOOLEAN
      /\ args \in Seq(PL!Progs) /\ line \in Nat
      /\ stdin \in {0} \cup DOMAIN pipes /\ fd \in {0} \cup DOMAIN pipes
      /\ \A q \in DOMAIN procs : /\ procs[q].in \in {0} \cup DOMAIN pipes
                                 /\ procs[q].out \in {0} \cup DOMAIN pipes
  BY <1>a DEF PL!TypeOK
<1>b. /\ pipes \in Seq(PL!PipeType) /\ procs \in Seq(PL!ProcType)
      /\ DOMAIN pipes = 1 .. Len(pipes) /\ Len(pipes) \in Nat
      /\ DOMAIN procs = 1 .. Len(procs) /\ Len(procs) \in Nat
      /\ 0 \notin DOMAIN pipes /\ 0 \notin DOMAIN procs
      /\ \A p \in DOMAIN pipes : pipes[p] \in PL!PipeType
      /\ \A q \in DOMAIN procs : procs[q] \in PL!ProcType
  BY <1>a, PipesAndProcs
<1>w. \A p \in DOMAIN pipes : \A w \in pipes[p].writers :
        /\ w \in {0} \cup DOMAIN procs
        /\ p = stdin \/ (\E q \in DOMAIN procs : procs[q].in = p) => w # 0
        /\ p = stdin \/ (\E q \in DOMAIN procs : procs[q].in = p) \/ p = fd
             => w = 0 \/ procs[w].out = p
  BY <1>a DEF PL!WritersFit, PL!IsInput
<1> DEFINE new == Len(procs) + 1
<1> DEFINE x == PL!Process(args[1])
<1>f. /\ sh = "vfork" \/ (sh = "exec" /\ Len(args) = 1)
      /\ sh' = IF fd = 0 THEN "wait" ELSE "redirect"
      /\ procs' = Append(procs, x)
      /\ source' = source /\ line' = line /\ args' = args /\ stdin' = stdin
      /\ fd' = fd /\ failed' = failed
  BY DEF PL!Vfork
<1>0. args # <<>> /\ args[1] \in PL!Progs /\ (sh = "exec" => fd = 0)
      /\ (sh = "vfork" => fd # 0 /\ Len(args) > 1)
  BY <1>a, <1>f, <1>t DEF PL!ShellAt
<1>1. /\ x.in = stdin /\ x.out = fd /\ x.line = line
      /\ x.st \in {"running", "dead"} /\ x \in PL!ProcType
  <2>1. /\ x.in = stdin /\ x.out = fd /\ x.line = line
        /\ x.st \in {"running", "dead"}
    BY DEF PL!Process
  <2>2. stdin \in Nat /\ fd \in Nat
    BY <1>b, <1>t
  <2>3. (CASE args[1] = "echo" -> 1 [] args[1] = "flood" -> 2 [] OTHER -> 0) \in Nat
    OBVIOUS
  <2> QED
    BY <1>0, <1>t, <2>1, <2>2, <2>3 DEF PL!Process, PL!ProcType
<1> HIDE DEF x
<1>2. /\ procs' \in Seq(PL!ProcType) /\ DOMAIN procs' = DOMAIN procs \cup {new}
      /\ \A q \in DOMAIN procs : procs'[q] = procs[q]
      /\ procs'[new] = x /\ new \notin DOMAIN procs /\ new # 0 /\ new \in Nat
  BY <1>1, <1>b, <1>f
<1> HIDE DEF new
<1>3. /\ pipes' \in Seq(PL!PipeType) /\ DOMAIN pipes' = DOMAIN pipes
      /\ \A p \in DOMAIN pipes :
           /\ pipes[p].readers \subseteq pipes'[p].readers
           /\ pipes'[p].writers \subseteq pipes[p].writers \cup {new}
           /\ new \in pipes'[p].writers => 0 \in pipes[p].writers
  <2>1. CASE pipes' = pipes
    <3>1. \A p \in DOMAIN pipes : new \notin pipes[p].writers
      BY <1>2, <1>w
    <3> QED BY <1>b, <2>1, <3>1
  <2> DEFINE y(p) == [pipes[p] EXCEPT
                       !.readers = IF 0 \in @ /\ PL!Inherits(p) THEN @ \cup {new}
                                   ELSE @,
                       !.writers = IF 0 \in @ THEN @ \cup {new} ELSE @]
  <2>2. CASE pipes' = [p \in DOMAIN pipes |-> y(p)]
    <3>1. ASSUME NEW p \in DOMAIN pipes
          PROVE  /\ y(p) \in PL!PipeType
                 /\ pipes[p].readers \subseteq y(p).readers
                 /\ y(p).writers \subseteq pipes[p].writers \cup {new}
                 /\ 0 \notin pipes[p].writers => y(p).writers = pipes[p].writers
      <4>1. pipes[p] \in PL!PipeType /\ new \in Nat
        BY <1>2, <1>b
      <4> QED
        BY <4>1 DEF PL!PipeType
    <3>2. \A p \in DOMAIN pipes : new \notin pipes[p].writers
      BY <1>2, <1>w
    <3> HIDE DEF y
    <3>3. pipes' \in [1 .. Len(pipes) -> PL!PipeType]
      BY <1>b, <2>2, <3>1
    <3>4. pipes' \in Seq(PL!PipeType) /\ DOMAIN pipes' = DOMAIN pipes
      BY <1>b, <3>3
    <3>5. \A p \in DOMAIN pipes : pipes'[p] = y(p)
      BY <2>2
    <3> QED
      BY <3>1, <3>2, <3>4, <3>5
  <2> QED
    BY <2>1, <2>2 DEF PL!Vfork, new
<1>4. PL!TypeOK'
  <2>1. /\ source' \in {"none", "file", "stdin", "buffered"} /\ failed' \in BOOLEAN
        /\ args' \in Seq(PL!Progs) /\ line' \in Nat
        /\ sh' \in {"wait", "redirect"}
        /\ {stdin', fd'} \subseteq {0} \cup DOMAIN pipes'
    BY <1>3, <1>f, <1>t
  <2>2. \A q \in DOMAIN procs' :
          {procs'[q].in, procs'[q].out} \subseteq {0} \cup DOMAIN pipes'
    BY <1>1, <1>2, <1>3, <1>t
  <2> QED
    BY <1>2, <1>3, <2>1, <2>2 DEF PL!TypeOK, PL!PipeType, PL!ProcType
<1>5. PL!ShellAt'
  BY <1>0, <1>f DEF PL!ShellAt
<1>6. PL!ShellReads'
  BY <1>3, <1>a, <1>f DEF PL!ShellReads
<1>7. PL!WritersFit'
  <2>1. \A p : (p = stdin' \/ \E q \in DOMAIN procs' : procs'[q].in = p)
                 <=> (p = stdin \/ \E q \in DOMAIN procs : procs[q].in = p)
    BY <1>1, <1>2, <1>f
  <2>2. ASSUME NEW p \in DOMAIN pipes', NEW w \in pipes'[p].writers
        PROVE  /\ w \in {0} \cup DOMAIN procs'
               /\ p = stdin' \/ (\E q \in DOMAIN procs' : procs'[q].in = p)
                    => w # 0
               /\ p = stdin' \/ (\E q \in DOMAIN procs' : procs'[q].in = p)
                    \/ p = fd'
                    => w = 0 \/ procs'[w].out = p
    <3>1. CASE w = new
      <4>1. p \in DOMAIN pipes /\ 0 \in pipes[p].writers
        BY <1>3, <3>1
      <4>2. ~(p = stdin \/ \E q \in DOMAIN procs : procs[q].in = p)
        BY <1>w, <4>1
      <4>3. procs'[w].out = fd' /\ w \in DOMAIN procs'
        BY <1>1, <1>2, <1>f, <3>1
      <4> QED BY <2>1, <4>2, <4>3
    <3>2. CASE w # new
      <4>1. p \in DOMAIN pipes /\ w \in pipes[p].writers
        BY <1>3, <3>2
      <4>2. /\ w \in {0} \cup DOMAIN procs
            /\ p = stdin \/ (\E q \in DOMAIN procs : procs[q].in = p) => w # 0
            /\ p = stdin \/ (\E q \in DOMAIN procs : procs[q].in = p) \/ p = fd
                 => w = 0 \/ procs[w].out = p
        BY <1>w, <4>1
      <4>3. w = 0 \/ (w \in DOMAIN procs' /\ procs'[w].out = procs[w].out)
        BY <1>2, <4>2
      <4> QED BY <1>f, <2>1, <4>2, <4>3
    <3> QED BY <3>1, <3>2
  <2> QED
    BY <2>2 DEF PL!WritersFit, PL!IsInput
<1>8. PL!NoBrokenPipe'
  BY <1>1, <1>2, <1>a, <1>f DEF PL!NoBrokenPipe
<1>9. PL!NoStragglers'
  <2>1. PL!Children' \subseteq PL!Children \cup {new}
    BY <1>2 DEF PL!Children
  <2>2. \A q \in PL!Children : procs[q].line = line /\ q \in DOMAIN procs
    BY <1>a, <1>f DEF PL!NoStragglers, PL!Children
  <2> QED
    BY <1>1, <1>2, <1>f, <2>1, <2>2 DEF PL!NoStragglers
<1> QED
  BY <1>4, <1>5, <1>6, <1>7, <1>8, <1>9 DEF PL!IInv

\* The pipelines of cw05/zad1, for lines of any length: while a program runs,
\* its input can only be kept open by the program before it, no program is
\* ended by SIGPIPE while the shell lives, and no program outlasts its line
\* (command_runner.c:10-75).
THEOREM PipesAlwaysHeld ==
  Lines \subseteq Seq(PL!Progs) => (PL!Spec => []PipesHeld)
<1> SUFFICES ASSUME Lines \subseteq Seq(PL!Progs) PROVE PL!Spec => []PipesHeld
  OBVIOUS
<1>1. PL!IInv /\ [PL!Next]_(PL!vars) => PL!IInv'
  <2> SUFFICES ASSUME PL!IInv, [PL!Next]_(PL!vars) PROVE PL!IInv'
    OBVIOUS
  <2>1. CASE PL!Shell
    BY <2>1, PipesShell, PipesCreate, PipesVfork, PipesRedirect, PipesWait
       DEF PL!Shell
  <2>2. ASSUME NEW q \in DOMAIN procs, PL!Step(q) PROVE PL!IInv'
    BY <2>2, PipesProgram
  <2>3. CASE UNCHANGED PL!vars
    <3>1. PL!TypeOK' /\ PL!ShellAt' /\ PL!ShellReads'
      BY <2>3 DEF PL!vars, PL!IInv, PL!TypeOK, PL!ShellAt, PL!ShellReads,
         PL!Children
    <3>2. PL!WritersFit' /\ PL!NoBrokenPipe' /\ PL!NoStragglers'
      BY <2>3 DEF PL!vars, PL!IInv, PL!WritersFit, PL!IsInput, PL!NoBrokenPipe,
         PL!NoStragglers, PL!Children
    <3> QED
      BY <3>1, <3>2 DEF PL!IInv
  <2> QED
    BY <2>1, <2>2, <2>3 DEF PL!Next
<1>2. PL!IInv => PipesHeld
  BY DEF PL!IInv, PL!TypeOK, PipesHeld, PL!PipesHeld, PL!OnlyWriterHoldsPipe,
     PL!WritersFit, PL!IsInput
<1> QED
  BY <1>1, <1>2, PipesInit, PTL DEF PL!Spec
-----------------------------------------------------------------------------
(***************************************************************************)
(* cw02/zad1: the record files.                                            *)
(***************************************************************************)

\* What fd_write does to a file: one row changes, or one comes at the end.
LEMMA RowWritten ==
  ASSUME NEW f \in Seq(RF!RecordType), NEW row \in Nat, NEW r \in RF!RecordType
  PROVE  /\ RF!WriteRow(f, row, r) \in Seq(RF!RecordType)
         /\ row < Len(f) =>
              /\ Len(RF!WriteRow(f, row, r)) = Len(f)
              /\ RF!WriteRow(f, row, r)[row + 1] = r
              /\ \A n \in 1 .. Len(f) :
                   n # row + 1 => RF!WriteRow(f, row, r)[n] = f[n]
         /\ row = Len(f) =>
              /\ Len(RF!WriteRow(f, row, r)) = Len(f) + 1
              /\ RF!WriteRow(f, row, r)[row + 1] = r
              /\ \A n \in 1 .. Len(f) : RF!WriteRow(f, row, r)[n] = f[n]
<1>1. CASE row = Len(f)
  <2>1. RF!WriteRow(f, row, r) = Append(f, r)
    BY <1>1 DEF RF!WriteRow
  <2> QED
    BY <1>1, <2>1
<1>2. CASE row # Len(f)
  <2>1. RF!WriteRow(f, row, r) = [f EXCEPT ![row + 1] = r]
    BY <1>2 DEF RF!WriteRow
  <2>2. /\ [f EXCEPT ![row + 1] = r] \in Seq(RF!RecordType)
        /\ Len([f EXCEPT ![row + 1] = r]) = Len(f)
    <3> DEFINE g == [f EXCEPT ![row + 1] = r]
    <3>a. f \in [1 .. Len(f) -> RF!RecordType] /\ Len(f) \in Nat
      OBVIOUS
    <3>1. g \in [1 .. Len(f) -> RF!RecordType]
      BY <3>a, Zenon
    <3> HIDE DEF g
    <3>2. g \in Seq(RF!RecordType) /\ Len(g) = Len(f)
      BY <3>a, <3>1
    <3> QED
      BY <3>2 DEF g
  <2>3. row < Len(f) => /\ row + 1 \in DOMAIN f
                        /\ [f EXCEPT ![row + 1] = r][row + 1] = r
    OBVIOUS
  <2>4. \A n \in 1 .. Len(f) : n # row + 1 => [f EXCEPT ![row + 1] = r][n] = f[n]
    OBVIOUS
  <2> QED
    BY <1>2, <2>1, <2>2, <2>3, <2>4
<1> QED
  BY <1>1, <1>2

\* Two files hold the same records if one is the other with two rows swapped.
LEMMA RowsSwapped ==
  ASSUME NEW f, NEW g, NEW a \in DOMAIN f, NEW b \in DOMAIN f,
         DOMAIN g = DOMAIN f, g[a] = f[b], g[b] = f[a],
         \A n \in DOMAIN f : n # a /\ n # b => g[n] = f[n]
  PROVE  RF!Elements(g) = RF!Elements(f)
<1>1. ASSUME NEW n \in DOMAIN f
      PROVE  (\E m \in DOMAIN g : g[m] = f[n]) /\ (\E m \in DOMAIN f : f[m] = g[n])
  <2>1. CASE n = a
    BY <2>1
  <2>2. CASE n = b
    BY <2>2
  <2>3. CASE n # a /\ n # b
    BY <2>3, <1>1
  <2> QED
    BY <2>1, <2>2, <2>3
<1> QED
  BY <1>1 DEF RF!Elements

\* The files are empty at first.
LEMMA RecInit == RF!Init => RF!IInv
<1> SUFFICES ASSUME RF!Init PROVE RF!IInv
  OBVIOUS
<1> USE DEF RF!Init
<1>1. RF!Garbage \in RF!RecordType
  BY DEF RF!Garbage, RF!Record, RF!RecordType
<1>2. <<>> \in Seq(RF!RecordType)
  OBVIOUS
<1>3. RF!TypeOK
  BY <1>1, <1>2 DEF RF!TypeOK
<1>4. RF!AtTheStart /\ RF!CopyInv
  BY DEF RF!AtTheStart, RF!CopyInv
<1>5. RF!RowsInv /\ RF!HandInv /\ RF!NothingLost
  BY DEF RF!RowsInv, RF!HandInv, RF!NothingLost, RF!Sorting, RF!InHand
<1> QED
  BY <1>3, <1>4, <1>5 DEF RF!IInv

\* The arguments name files of records, each with its number.
LEMMA RecArgs ==
  ASSUME Files \subseteq Seq(Nat), SomeFiles \subseteq Seq(Nat),
         MaxRecords \in Nat, RF!IInv, RF!ReadArguments
  PROVE  RF!IInv'
<1>t. RF!TypeOK /\ RF!AtTheStart
  BY DEF RF!IInv
<1>a. PICK b1 \in IF op' = "sort" THEN Files ELSE SomeFiles,
           b2 \in IF op' = "copy" THEN SomeFiles ELSE {<<>>} :
        /\ original' = RF!ContentOf(b1, "file")
        /\ old' = RF!ContentOf(b2, "file2")
        /\ record_count' \in 0 .. (IF op' = "sort" THEN Len(b1) ELSE MaxRecords)
  BY DEF RF!ReadArguments
<1>b. /\ rpc = "args" /\ rpc' = "open"
      /\ op' \in {"generate", "copy", "sort"} /\ rmode' \in {"SYS", "LIB"}
      /\ file' = file /\ file2' = file2 /\ cursor' = cursor /\ ri' = ri
      /\ sorted_end' = sorted_end /\ next_pos' = next_pos
      /\ inserted' = inserted
  BY DEF RF!ReadArguments
<1>c. b1 \in Seq(Nat) /\ b2 \in Seq(Nat)
  <2>1. b1 \in Seq(Nat)
    BY <1>a
  <2>2. <<>> \in Seq(Nat)
    OBVIOUS
  <2>3. b2 \in Seq(Nat)
    <3>1. CASE op' = "copy"
      BY <1>a, <3>1
    <3>2. CASE op' # "copy"
      BY <1>a, <3>2, <2>2
    <3> QED
      BY <3>1, <3>2
  <2> QED
    BY <2>1, <2>3
<1>d. ASSUME NEW b \in Seq(Nat), NEW from \in {"file", "file2"}
      PROVE  /\ RF!ContentOf(b, from) \in Seq(RF!RecordType)
             /\ Len(RF!ContentOf(b, from)) = Len(b)
             /\ \A n \in DOMAIN RF!ContentOf(b, from) :
                  RF!ContentOf(b, from)[n].n = n
  <2> DEFINE c == [n \in 1 .. Len(b) |-> RF!Record(b[n], from, n)]
  <2>1. RF!ContentOf(b, from) = c
    BY DEF RF!ContentOf
  <2>2. \A n \in 1 .. Len(b) : /\ RF!Record(b[n], from, n) \in RF!RecordType
                               /\ RF!Record(b[n], from, n).n = n
    BY DEF RF!Record, RF!RecordType
  <2>3. c \in Seq(RF!RecordType) /\ Len(c) = Len(b)
    <3> HIDE DEF RF!RecordType
    <3> QED
      BY <2>2
  <2>4. \A n \in DOMAIN c : c[n].n = n
    BY <2>2
  <2> HIDE DEF c
  <2> QED
    BY <2>1, <2>3, <2>4
<1>e. /\ original' \in Seq(RF!RecordType) /\ Len(original') = Len(b1)
      /\ \A n \in DOMAIN original' : original'[n].n = n
      /\ old' \in Seq(RF!RecordType)
  BY <1>a, <1>c, <1>d
<1>f. record_count' \in Nat /\ (op' = "sort" => record_count' <= Len(original'))
  BY <1>a, <1>c, <1>e
<1>1. RF!TypeOK'
  BY <1>t, <1>b, <1>e, <1>f DEF RF!TypeOK
<1>2. RF!AtTheStart'
  BY <1>t, <1>b, <1>e, <1>f DEF RF!AtTheStart
<1>3. RF!CopyInv' /\ RF!RowsInv' /\ RF!HandInv' /\ RF!NothingLost'
  BY <1>b DEF RF!CopyInv, RF!RowsInv, RF!HandInv, RF!NothingLost, RF!Sorting,
              RF!InHand
<1> QED
  BY <1>1, <1>2, <1>3 DEF RF!IInv

\* Opening for writing empties the file or leaves it, and no row of a file
\* that is sorted has moved.
LEMMA RecOpen == ASSUME RF!IInv, RF!OpenFiles PROVE RF!IInv'
<1>t. RF!TypeOK /\ RF!AtTheStart
  BY DEF RF!IInv
<1>a. /\ rpc = "open" /\ rpc' \in {op, "failed"} /\ file' = original
      /\ rpc' # "failed" =>
           file2' = IF op = "copy" THEN RF!fd_openw(rmode, old) ELSE old
      /\ rpc' = "failed" => file2' = old
  BY <1>t DEF RF!OpenFiles, RF!TypeOK
<1>b. /\ op' = op /\ rmode' = rmode /\ record_count' = record_count
      /\ original' = original /\ old' = old /\ cursor' = cursor /\ ri' = ri
      /\ sorted_end' = sorted_end /\ next_pos' = next_pos
      /\ inserted' = inserted
  BY DEF RF!OpenFiles, RF!arguments
<1>c. /\ op \in {"generate", "copy", "sort"} /\ rmode \in {"SYS", "LIB"}
      /\ original \in Seq(RF!RecordType) /\ old \in Seq(RF!RecordType)
      /\ cursor = 0 /\ ri = 0 /\ sorted_end = 0 /\ record_count \in Nat
  BY <1>a, <1>t DEF RF!TypeOK, RF!AtTheStart
<1>d. /\ file2' \in Seq(RF!RecordType)
      /\ op = "copy" /\ rpc' = "copy" =>
           file2' = IF rmode = "LIB" THEN <<>> ELSE old
  <2>1. <<>> \in Seq(RF!RecordType)
    OBVIOUS
  <2>2. RF!fd_openw(rmode, old) = IF rmode = "LIB" THEN <<>> ELSE old
    BY DEF RF!fd_openw
  <2>3. file2' \in {old, <<>>}
    BY <2>2, <1>a
  <2> QED
    BY <2>1, <2>2, <2>3, <1>a, <1>c
<1>1. RF!TypeOK'
  BY <1>t, <1>a, <1>b, <1>c, <1>d DEF RF!TypeOK
<1>2. RF!AtTheStart'
  BY <1>t, <1>a, <1>b, <1>c DEF RF!AtTheStart
<1>3. RF!CopyInv'
  <2> SUFFICES ASSUME op' = "copy", rpc' \in {"copy", "done"}
               PROVE  /\ file' = original' /\ cursor' = ri' /\ ri' <= record_count'
                      /\ rpc' = "done" => ri' = record_count'
                      /\ Len(file2') = IF rmode' = "SYS" /\ Len(old') > ri'
                                       THEN Len(old') ELSE ri'
                      /\ \A n \in DOMAIN file2' :
                           file2'[n] = IF n <= ri' THEN original'[n] ELSE old'[n]
    BY DEF RF!CopyInv
  <2>1. CASE rmode = "LIB"
    BY <2>1, <1>a, <1>b, <1>c, <1>d
  <2>2. CASE rmode = "SYS"
    BY <2>2, <1>a, <1>b, <1>c, <1>d
  <2> QED
    BY <2>1, <2>2, <1>c
<1>4. RF!RowsInv'
  <2> SUFFICES ASSUME RF!Sorting'
               PROVE  RF!RowsInv'
    BY DEF RF!RowsInv
  <2>1. rpc' = "sort" /\ ~RF!InHand' /\ RF!Top' = 1
    BY <1>a, <1>b, <1>c DEF RF!Sorting, RF!InHand, RF!Top
  <2>2. \A n \in RF!InOrder' : n = 1 /\ n \in DOMAIN original
    BY <2>1, <1>a, <1>c DEF RF!InOrder
  <2>3. \A n \in RF!InOrder' : file'[n].n <= sorted_end' + 1
    BY <2>2, <1>a, <1>b, <1>c, <1>t DEF RF!AtTheStart
  <2>4. \A m, n \in RF!InOrder' : ~(m < n)
    BY <2>2
  <2>5. /\ Len(file') = Len(original') /\ sorted_end' = 0 /\ rpc' # "done"
        /\ \A n \in DOMAIN file' : file'[n] = original'[n]
    BY <2>1, <1>a, <1>b, <1>c
  <2> QED
    BY <2>3, <2>4, <2>5 DEF RF!RowsInv
<1>5. RF!HandInv' /\ RF!NothingLost'
  BY <1>a, <1>b, <1>c DEF RF!HandInv, RF!NothingLost, RF!InHand, RF!Elements
<1> QED
  BY <1>1, <1>2, <1>3, <1>4, <1>5 DEF RF!IInv

\* op_generate only concerns the file it writes.
LEMMA RecGenerate == ASSUME Bytes \subseteq Nat, RF!IInv, RF!Generate PROVE RF!IInv'
<1>t. RF!TypeOK /\ RF!AtTheStart
  BY DEF RF!IInv
<1>b. /\ op' = op /\ rmode' = rmode /\ record_count' = record_count
      /\ original' = original /\ old' = old /\ cursor' = cursor
      /\ file2' = file2 /\ sorted_end' = sorted_end /\ next_pos' = next_pos
      /\ inserted' = inserted
  BY DEF RF!Generate, RF!arguments
<1>c. rpc = "generate" /\ op = "generate" /\ rpc' \in {"generate", "done"}
  BY <1>t DEF RF!Generate, RF!AtTheStart
<1>d. ri \in Nat /\ file \in Seq(RF!RecordType)
  BY <1>t DEF RF!TypeOK
<1>e. file' \in Seq(RF!RecordType) /\ ri' \in Nat
  <2>1. CASE ri < record_count
    <3>1. PICK b \in Bytes :
            file' = RF!WriteRow(file, ri, RF!Record(b, "random", ri + 1))
      BY <2>1 DEF RF!Generate
    <3>2. RF!Record(b, "random", ri + 1) \in RF!RecordType
      BY <1>d DEF RF!Record, RF!RecordType
    <3>3. ri' = ri + 1
      BY <2>1 DEF RF!Generate
    <3> QED
      BY <3>1, <3>2, <3>3, <1>d, RowWritten
  <2>2. CASE ~(ri < record_count)
    BY <2>2, <1>d DEF RF!Generate
  <2> QED
    BY <2>1, <2>2
<1>1. RF!TypeOK'
  BY <1>t, <1>b, <1>c, <1>e DEF RF!TypeOK
<1>2. RF!AtTheStart'
  BY <1>t, <1>b, <1>c DEF RF!AtTheStart
<1>3. RF!CopyInv' /\ RF!RowsInv' /\ RF!HandInv' /\ RF!NothingLost'
  BY <1>b, <1>c DEF RF!CopyInv, RF!RowsInv, RF!HandInv, RF!NothingLost,
                    RF!Sorting, RF!InHand
<1> QED
  BY <1>1, <1>2, <1>3 DEF RF!IInv

\* op_copy writes the row it has read to the same row.
LEMMA RecCopy == ASSUME RF!IInv, RF!Copy PROVE RF!IInv'
<1>t. RF!TypeOK /\ RF!AtTheStart /\ RF!CopyInv
  BY DEF RF!IInv
<1>b. /\ op' = op /\ rmode' = rmode /\ record_count' = record_count
      /\ original' = original /\ old' = old /\ file' = file
      /\ sorted_end' = sorted_end /\ next_pos' = next_pos
  BY DEF RF!Copy, RF!arguments
<1>c. rpc = "copy" /\ op = "copy" /\ rpc' \in {"copy", "done"}
  BY <1>t DEF RF!Copy, RF!AtTheStart
<1>d. /\ ri \in Nat /\ cursor \in Nat /\ record_count \in Nat
      /\ file \in Seq(RF!RecordType) /\ file2 \in Seq(RF!RecordType)
      /\ original \in Seq(RF!RecordType) /\ old \in Seq(RF!RecordType)
      /\ inserted \in RF!RecordType
  BY <1>t DEF RF!TypeOK
<1>e. ASSUME ri < record_count PROVE RF!TypeOK' /\ RF!CopyInv'
  <2>1. /\ inserted' = RF!ReadRow(file, cursor, inserted)
        /\ cursor' = RF!AfterRead(file, cursor)
        /\ file2' = RF!WriteRow(file2, ri, inserted')
        /\ ri' = ri + 1 /\ rpc' = rpc
    BY <1>e DEF RF!Copy
  <2>2. inserted' \in RF!RecordType
    <3>1. CASE cursor < Len(file)
      BY <2>1, <3>1, <1>d DEF RF!ReadRow
    <3>2. CASE ~(cursor < Len(file))
      BY <2>1, <3>2, <1>d DEF RF!ReadRow
    <3> QED
      BY <3>1, <3>2
  <2>3. cursor' \in Nat
    BY <2>1, <1>d DEF RF!AfterRead
  <2>4. file2' \in Seq(RF!RecordType)
    BY <2>1, <2>2, <1>d, RowWritten
  <2>5. RF!TypeOK'
    BY <1>t, <1>b, <1>c, <1>d, <2>1, <2>2, <2>3, <2>4 DEF RF!TypeOK
  <2>6. RF!CopyInv'
    <3> SUFFICES ASSUME record_count <= Len(original) PROVE RF!CopyInv'
      BY <1>b DEF RF!CopyInv
    <3>1. /\ file = original /\ cursor = ri
          /\ Len(file2) = IF rmode = "SYS" /\ Len(old) > ri THEN Len(old) ELSE ri
          /\ \A n \in 1 .. Len(file2) :
               file2[n] = IF n <= ri THEN original[n] ELSE old[n]
      BY <1>t, <1>c, <1>d DEF RF!CopyInv
    <3>2. inserted' = original[ri + 1] /\ cursor' = ri + 1
      BY <3>1, <2>1, <1>e, <1>d DEF RF!ReadRow, RF!AfterRead
    <3>3. /\ Len(file2') = IF rmode = "SYS" /\ Len(old) > ri + 1
                           THEN Len(old) ELSE ri + 1
          /\ \A n \in 1 .. Len(file2') :
               file2'[n] = IF n <= ri + 1 THEN original[n] ELSE old[n]
      <4>1. CASE ri < Len(file2)
        <5>0. ri \in Nat /\ Len(old) \in Nat /\ Len(file2) \in Nat
          BY <1>d
        <5>1. /\ Len(file2') = Len(file2) /\ file2'[ri + 1] = original[ri + 1]
              /\ \A n \in 1 .. Len(file2) : n # ri + 1 => file2'[n] = file2[n]
          BY <4>1, <2>1, <2>2, <3>2, <1>d, RowWritten, ZenonT(60)
        <5>2. Len(file2') = IF rmode = "SYS" /\ Len(old) > ri + 1
                            THEN Len(old) ELSE ri + 1
          BY <5>1, <5>0, <4>1, <3>1
        <5>3. ASSUME NEW n \in 1 .. Len(file2')
              PROVE  file2'[n] = IF n <= ri + 1 THEN original[n] ELSE old[n]
          <6>1. CASE n = ri + 1
            BY <6>1, <5>1
          <6>2. CASE n # ri + 1
            <7>1. file2'[n] = file2[n] /\ (n <= ri + 1 <=> n <= ri)
              BY <6>2, <5>0, <5>1, <5>3
            <7>2. file2[n] = IF n <= ri THEN original[n] ELSE old[n]
              BY <3>1, <5>1, <5>3
            <7> QED
              BY <7>1, <7>2
          <6> QED
            BY <6>1, <6>2
        <5> QED
          BY <5>2, <5>3
      <4>2. CASE ri = Len(file2)
        <5>0. ri \in Nat /\ Len(old) \in Nat /\ Len(file2) \in Nat
          BY <1>d
        <5>1. /\ Len(file2') = ri + 1 /\ file2'[ri + 1] = original[ri + 1]
              /\ \A n \in 1 .. Len(file2) : file2'[n] = file2[n]
          BY <4>2, <2>1, <2>2, <3>2, <1>d, RowWritten, ZenonT(60)
        <5>2. Len(file2') = IF rmode = "SYS" /\ Len(old) > ri + 1
                            THEN Len(old) ELSE ri + 1
          BY <5>1, <5>0, <4>2, <3>1
        <5>3. ASSUME NEW n \in 1 .. Len(file2')
              PROVE  file2'[n] = IF n <= ri + 1 THEN original[n] ELSE old[n]
          <6>1. CASE n = ri + 1
            BY <6>1, <5>1
          <6>2. CASE n # ri + 1
            <7>1. file2'[n] = file2[n] /\ (n <= ri + 1 <=> n <= ri)
              <8>1. n \in 1 .. Len(file2)
                BY <6>2, <5>0, <5>1, <5>3, <4>2
              <8> QED
                BY <8>1, <5>0, <5>1, <4>2
            <7>2. file2[n] = IF n <= ri THEN original[n] ELSE old[n]
              BY <3>1, <5>0, <5>1, <5>3, <6>2, <4>2
            <7> QED
              BY <7>1, <7>2
          <6> QED
            BY <6>1, <6>2
        <5> QED
          BY <5>2, <5>3
      <4> QED
        BY <4>1, <4>2, <3>1, <1>d
    <3>4. \A n \in DOMAIN file2' : n \in 1 .. Len(file2')
      BY <2>4
    <3> QED
      BY <3>1, <3>2, <3>3, <3>4, <2>1, <1>b, <1>c, <1>d, <1>e DEF RF!CopyInv
  <2> QED
    BY <2>5, <2>6
<1>f. ASSUME ~(ri < record_count) PROVE RF!TypeOK' /\ RF!CopyInv'
  <2>1. rpc' = "done" /\ file2' = file2 /\ cursor' = cursor /\ ri' = ri
        /\ inserted' = inserted
    BY <1>f DEF RF!Copy
  <2>2. RF!TypeOK'
    BY <1>t, <1>b, <2>1 DEF RF!TypeOK
  <2>3. RF!CopyInv'
    <3>1. record_count <= Len(original) => ri = record_count
      BY <1>t, <1>c, <1>d, <1>f DEF RF!CopyInv
    <3> QED
      BY <3>1, <1>t, <1>b, <1>c, <2>1 DEF RF!CopyInv
  <2> QED
    BY <2>2, <2>3
<1>2. RF!AtTheStart'
  BY <1>t, <1>b, <1>c DEF RF!AtTheStart
<1>3. RF!RowsInv' /\ RF!HandInv' /\ RF!NothingLost'
  BY <1>b, <1>c DEF RF!RowsInv, RF!HandInv, RF!NothingLost, RF!Sorting,
       RF!InHand
<1> QED
  BY <1>e, <1>f, <1>2, <1>3 DEF RF!IInv

\* Taking a record out leaves a row for it behind the rows that are in order.
LEMMA RecTake == ASSUME RF!IInv, RF!TakeRecord PROVE RF!IInv'
<1>t. RF!TypeOK /\ RF!AtTheStart /\ RF!RowsInv /\ RF!NothingLost
  BY DEF RF!IInv
<1>b. /\ op' = op /\ rmode' = rmode /\ record_count' = record_count
      /\ original' = original /\ old' = old /\ file' = file /\ file2' = file2
      /\ ri' = ri /\ sorted_end' = sorted_end
  BY DEF RF!TakeRecord, RF!arguments
<1>c. rpc = "sort" /\ op = "sort" /\ rpc' \in {"shift", "done"}
  BY <1>t DEF RF!TakeRecord, RF!AtTheStart
<1>d. /\ sorted_end \in Nat /\ record_count \in Nat
      /\ file \in Seq(RF!RecordType) /\ original \in Seq(RF!RecordType)
      /\ inserted \in RF!RecordType
  BY <1>t DEF RF!TypeOK
<1>e. /\ record_count <= Len(original) /\ Len(file) = Len(original)
      /\ DOMAIN file = 1 .. Len(file) /\ Len(file) \in Nat
  BY <1>t, <1>c, <1>d DEF RF!AtTheStart, RF!RowsInv, RF!Sorting
<1>g. RF!Sorting /\ ~RF!InHand /\ RF!Top = sorted_end + 1
  BY <1>c DEF RF!Sorting, RF!InHand, RF!Top
<1>h. RF!InOrder = {n \in 1 .. Len(file) : n <= sorted_end + 1}
  BY <1>g, <1>e DEF RF!InOrder
<1>i. RF!Elements(file) = RF!Elements(original)
  BY <1>t, <1>c DEF RF!NothingLost
<1>2. RF!AtTheStart' /\ RF!CopyInv'
  BY <1>t, <1>b, <1>c DEF RF!AtTheStart, RF!CopyInv
<1>3. ASSUME RF!MoreToInsert
      PROVE  RF!TypeOK' /\ RF!RowsInv' /\ RF!HandInv' /\ RF!NothingLost'
  <2>1. sorted_end + 1 < record_count /\ sorted_end + 1 < Len(file)
    BY <1>3, <1>d, <1>e DEF RF!MoreToInsert
  <2>2. /\ rpc' = "shift" /\ inserted' = file[sorted_end + 2]
        /\ cursor' = sorted_end + 1 /\ next_pos' = sorted_end + 1
    BY <1>3, <2>1, <1>d, <1>e DEF RF!TakeRecord, RF!ReadRow, RF!AfterRead
  <2>3. inserted' \in RF!RecordType
    BY <2>1, <2>2, <1>d
  <2>4. RF!TypeOK'
    BY <1>t, <1>b, <1>d, <2>2, <2>3 DEF RF!TypeOK
  <2>5. RF!Sorting' /\ RF!InHand' /\ RF!Top' = sorted_end + 2
    BY <2>2, <1>b, <1>c DEF RF!Sorting, RF!InHand, RF!Top
  <2>6. RF!InOrder' = RF!InOrder
    <3>1. RF!InOrder' = {n \in 1 .. Len(file) :
                           n <= sorted_end + 2 /\ n # sorted_end + 2}
      BY <2>5, <2>2, <1>b, <1>d, <1>e DEF RF!InOrder
    <3> QED
      BY <3>1, <1>h, <1>d
  <2>7. RF!RowsInv'
    <3>1. \A n \in DOMAIN file : n > sorted_end + 2 => file[n] = original[n]
      BY <1>t, <1>g, <1>d, <1>e DEF RF!RowsInv
    <3>2. /\ sorted_end = 0 \/ sorted_end < record_count
          /\ \A n \in RF!InOrder : file[n].n <= sorted_end + 1
          /\ \A m, n \in RF!InOrder : m < n =>
               \/ file[m].byte < file[n].byte
               \/ file[m].byte = file[n].byte /\ file[m].n < file[n].n
      BY <1>t, <1>g DEF RF!RowsInv
    <3> QED
      BY <3>1, <3>2, <2>5, <2>6, <2>2, <1>b, <1>e DEF RF!RowsInv
  <2>8. RF!HandInv'
    <3>1. file[sorted_end + 2] = original[sorted_end + 2]
      BY <1>t, <1>g, <1>d, <1>e, <2>1 DEF RF!RowsInv
    <3>2. \A n \in RF!InOrder' : ~(n > next_pos' + 1)
      BY <2>6, <1>h, <2>2, <1>d
    <3>3. /\ next_pos' \in 0 .. sorted_end' + 1 /\ next_pos' > 0
          /\ cursor' = next_pos' /\ sorted_end' + 1 < record_count'
          /\ inserted' = original'[sorted_end' + 2]
      BY <3>1, <2>1, <2>2, <1>b, <1>d
    <3> QED
      BY <3>2, <3>3, <2>2 DEF RF!HandInv
  <2>9. RF!NothingLost'
    <3>1. [file EXCEPT ![sorted_end + 2] = file[sorted_end + 2]] = file
      BY <1>d
    <3>2. [file' EXCEPT ![next_pos' + 1] = inserted'] = file
      <4>1. next_pos' + 1 = sorted_end + 2
        BY <2>2, <1>d
      <4> QED
        BY <4>1, <3>1, <2>2, <1>b
    <3>3. rpc' \notin {"sort", "done"}
      BY <2>2
    <3> QED
      BY <3>2, <3>3, <1>b, <1>i DEF RF!NothingLost
  <2> QED
    BY <2>4, <2>7, <2>8, <2>9
<1>4. ASSUME ~RF!MoreToInsert
      PROVE  RF!TypeOK' /\ RF!RowsInv' /\ RF!HandInv' /\ RF!NothingLost'
  <2>1. rpc' = "done" /\ inserted' = inserted /\ cursor' = cursor
        /\ next_pos' = next_pos
    BY <1>4 DEF RF!TakeRecord
  <2>2. RF!TypeOK'
    BY <1>t, <1>b, <2>1 DEF RF!TypeOK
  <2>3. RF!Sorting' /\ ~RF!InHand' /\ RF!Top' = RF!Top
    BY <2>1, <1>b, <1>c, <1>g DEF RF!Sorting, RF!InHand, RF!Top
  <2>4. RF!InOrder' = RF!InOrder
    BY <2>3, <1>g, <1>b DEF RF!InOrder
  <2>5. sorted_end + 1 >= record_count
    BY <1>4, <1>d DEF RF!MoreToInsert
  <2>6. RF!RowsInv'
    BY <1>t, <1>b, <1>g, <2>3, <2>4, <2>5 DEF RF!RowsInv
  <2>7. RF!HandInv'
    BY <2>3 DEF RF!HandInv
  <2>8. RF!NothingLost'
    BY <2>1, <1>b, <1>i DEF RF!NothingLost
  <2> QED
    BY <2>2, <2>6, <2>7, <2>8
<1> QED
  BY <1>2, <1>3, <1>4 DEF RF!IInv

\* What is known while a record is in hand, in terms of rows.
LEMMA RecHand ==
  ASSUME RF!IInv, rpc \in {"shift", "insert"}
  PROVE  /\ op = "sort" /\ sorted_end \in Nat /\ record_count \in Nat
         /\ next_pos \in Nat /\ next_pos <= sorted_end + 1 /\ cursor = next_pos
         /\ file \in Seq(RF!RecordType) /\ original \in Seq(RF!RecordType)
         /\ sorted_end + 1 < record_count /\ record_count <= Len(original)
         /\ Len(file) = Len(original) /\ Len(file) \in Nat
         /\ DOMAIN file = 1 .. Len(file) /\ DOMAIN original = 1 .. Len(file)
         /\ inserted \in RF!RecordType /\ inserted = original[sorted_end + 2]
         /\ inserted.n = sorted_end + 2
         /\ \A n \in 1 .. Len(file) : n > sorted_end + 2 => file[n] = original[n]
         /\ \A n \in 1 .. Len(file) : n <= sorted_end + 2 /\ n # next_pos + 1 =>
              file[n].n <= sorted_end + 1
         /\ \A m, n \in 1 .. Len(file) :
              m < n /\ n <= sorted_end + 2 /\ m # next_pos + 1 /\ n # next_pos + 1 =>
                   \/ file[m].byte < file[n].byte
                   \/ file[m].byte = file[n].byte /\ file[m].n < file[n].n
         /\ \A n \in 1 .. Len(file) : n <= sorted_end + 2 /\ n > next_pos + 1 =>
              inserted.byte < file[n].byte
         /\ RF!Elements([file EXCEPT ![next_pos + 1] = inserted])
              = RF!Elements(original)
<1>t. RF!TypeOK /\ RF!AtTheStart /\ RF!RowsInv /\ RF!HandInv /\ RF!NothingLost
  BY DEF RF!IInv
<1>1. /\ sorted_end \in Nat /\ record_count \in Nat /\ next_pos \in Nat
      /\ file \in Seq(RF!RecordType) /\ original \in Seq(RF!RecordType)
      /\ inserted \in RF!RecordType
  BY <1>t DEF RF!TypeOK
<1>2. op = "sort" /\ record_count <= Len(original)
  BY <1>t DEF RF!AtTheStart
<1>3. RF!Sorting /\ RF!InHand /\ RF!Top = sorted_end + 2
  BY <1>2 DEF RF!Sorting, RF!InHand, RF!Top
<1>4. /\ Len(file) = Len(original) /\ Len(file) \in Nat
      /\ DOMAIN file = 1 .. Len(file) /\ DOMAIN original = 1 .. Len(file)
  BY <1>t, <1>1, <1>3 DEF RF!RowsInv
<1>5. RF!InOrder = {n \in 1 .. Len(file) : n <= sorted_end + 2 /\ n # next_pos + 1}
  BY <1>3, <1>4 DEF RF!InOrder
<1>6. /\ sorted_end + 1 < record_count /\ next_pos <= sorted_end + 1
      /\ cursor = next_pos /\ inserted = original[sorted_end + 2]
  BY <1>t, <1>1, <1>3 DEF RF!HandInv
<1>7. inserted.n = sorted_end + 2
  <2>1. sorted_end + 2 \in DOMAIN original
    BY <1>1, <1>2, <1>4, <1>6
  <2> QED
    BY <2>1, <1>t, <1>6 DEF RF!AtTheStart
<1>8. \A n \in 1 .. Len(file) : n > sorted_end + 2 => file[n] = original[n]
  BY <1>t, <1>3, <1>4 DEF RF!RowsInv
<1>9. /\ \A n \in RF!InOrder : file[n].n <= sorted_end + 1
      /\ \A m, n \in RF!InOrder : m < n =>
           \/ file[m].byte < file[n].byte
           \/ file[m].byte = file[n].byte /\ file[m].n < file[n].n
      /\ \A n \in RF!InOrder : n > next_pos + 1 => inserted.byte < file[n].byte
  BY <1>t, <1>3 DEF RF!RowsInv, RF!HandInv
<1>10. \A m, n \in 1 .. Len(file) :
         m < n /\ n <= sorted_end + 2 /\ m # next_pos + 1 /\ n # next_pos + 1 =>
              \/ file[m].byte < file[n].byte
              \/ file[m].byte = file[n].byte /\ file[m].n < file[n].n
  <2> SUFFICES ASSUME NEW m \in 1 .. Len(file), NEW n \in 1 .. Len(file),
                      m < n, n <= sorted_end + 2,
                      m # next_pos + 1, n # next_pos + 1
               PROVE  \/ file[m].byte < file[n].byte
                      \/ file[m].byte = file[n].byte /\ file[m].n < file[n].n
    OBVIOUS
  <2>1. m \in RF!InOrder /\ n \in RF!InOrder
    BY <1>5, <1>1, <1>4
  <2> QED
    BY <2>1, <1>9
<1>11. \A n \in 1 .. Len(file) : n <= sorted_end + 2 /\ n # next_pos + 1 =>
         n \in RF!InOrder
  BY <1>5
<1>12. \A n \in 1 .. Len(file) : n <= sorted_end + 2 /\ n > next_pos + 1 =>
         inserted.byte < file[n].byte
  <2>1. \A n \in 1 .. Len(file) : n > next_pos + 1 => n # next_pos + 1
    BY <1>1
  <2> QED
    BY <2>1, <1>11, <1>9
<1>13. RF!Elements([file EXCEPT ![next_pos + 1] = inserted])
         = RF!Elements(original)
  BY <1>t, <1>2 DEF RF!NothingLost
<1>14. \A n \in 1 .. Len(file) : n <= sorted_end + 2 /\ n # next_pos + 1 =>
         file[n].n <= sorted_end + 1
  BY <1>11, <1>9
<1> QED
  BY <1>1, <1>2, <1>4, <1>6, <1>7, <1>8, <1>10, <1>12, <1>13, <1>14

\* A greater record moves into the free row, and its own row becomes the
\* free one; at a record that is not greater the loop ends.
LEMMA RecShift == ASSUME RF!IInv, RF!ShiftRecord PROVE RF!IInv'
<1>c. rpc = "shift"
  BY DEF RF!ShiftRecord
<1>t. RF!TypeOK /\ RF!AtTheStart /\ RF!CopyInv /\ RF!RowsInv /\ RF!HandInv
      /\ RF!NothingLost
  BY DEF RF!IInv
<1>h. next_pos > 0
  BY <1>c, <1>t DEF RF!HandInv, RF!InHand
<1>b. /\ op' = op /\ rmode' = rmode /\ record_count' = record_count
      /\ original' = original /\ old' = old /\ file2' = file2
      /\ ri' = ri /\ sorted_end' = sorted_end /\ inserted' = inserted
  BY DEF RF!ShiftRecord, RF!arguments
<1>k. /\ op = "sort" /\ sorted_end \in Nat /\ record_count \in Nat
      /\ next_pos \in Nat /\ next_pos <= sorted_end + 1 /\ cursor = next_pos
      /\ file \in Seq(RF!RecordType) /\ original \in Seq(RF!RecordType)
      /\ sorted_end + 1 < record_count /\ record_count <= Len(original)
      /\ Len(file) = Len(original) /\ Len(file) \in Nat
      /\ DOMAIN file = 1 .. Len(file)
      /\ inserted \in RF!RecordType /\ inserted = original[sorted_end + 2]
  BY <1>c, RecHand
<1>r. /\ next_pos \in 1 .. Len(file) /\ next_pos + 1 \in 1 .. Len(file)
      /\ next_pos + 1 <= sorted_end + 2 /\ next_pos - 1 \in Nat
      /\ next_pos < Len(file) /\ cursor - 1 < Len(file)
      /\ (cursor - 1) + 1 = next_pos
  BY <1>k, <1>h
<1>n. /\ RF!ReadRow(file, cursor - 1, RF!Garbage) = file[next_pos]
      /\ RF!AfterRead(file, cursor - 1) = next_pos
  BY <1>r DEF RF!ReadRow, RF!AfterRead
<1>y. file[next_pos] \in RF!RecordType
  BY <1>k, <1>r
<1>z. /\ file[next_pos].byte \in Nat /\ inserted.byte \in Nat
  BY <1>y, <1>k DEF RF!RecordType
<1>2. ASSUME rpc' \in {"shift", "insert"} PROVE RF!AtTheStart' /\ RF!CopyInv'
  BY <1>2, <1>c, <1>t, <1>b, <1>k DEF RF!AtTheStart, RF!CopyInv
<1>3. CASE RF!Shifts(file[next_pos])
  <2>1. /\ file' = RF!WriteRow(file, next_pos, file[next_pos])
        /\ cursor' = next_pos - 1 /\ next_pos' = next_pos - 1
        /\ rpc' = IF next_pos - 1 > 0 THEN "shift" ELSE "insert"
    <3>1. /\ file' = RF!WriteRow(file, next_pos, file[next_pos])
          /\ cursor' = RF!BackTwo(next_pos + 1) /\ next_pos' = next_pos - 1
          /\ rpc' = IF next_pos - 1 > 0 THEN "shift" ELSE "insert"
      BY <1>3, <1>n DEF RF!ShiftRecord
    <3> QED
      BY <3>1, <1>k DEF RF!BackTwo
  <2>2. /\ file' \in Seq(RF!RecordType) /\ Len(file') = Len(file)
        /\ file'[next_pos + 1] = file[next_pos]
        /\ \A n \in 1 .. Len(file) : n # next_pos + 1 => file'[n] = file[n]
        /\ DOMAIN file' = 1 .. Len(file)
    <3>1. /\ file' \in Seq(RF!RecordType) /\ Len(file') = Len(file)
          /\ file'[next_pos + 1] = file[next_pos]
          /\ \A n \in 1 .. Len(file) : n # next_pos + 1 => file'[n] = file[n]
      <4>1. next_pos \in Nat /\ file \in Seq(RF!RecordType) /\ next_pos < Len(file)
        BY <1>k, <1>r
      <4> QED
        BY <4>1, <2>1, <1>y, RowWritten
    <3>2. DOMAIN file' = 1 .. Len(file')
      BY <3>1
    <3> QED
      BY <3>1, <3>2
  <2>3. inserted.byte < file[next_pos].byte
    BY <1>3, <1>z DEF RF!Shifts
  <2>4. RF!TypeOK'
    <3>1. cursor' \in Nat /\ next_pos' \in Nat /\ rpc' \in {"shift", "insert"}
      BY <2>1, <1>r
    <3> QED
      BY <3>1, <2>2, <1>b, <1>t DEF RF!TypeOK
  <2>5. RF!Sorting' /\ RF!InHand' /\ RF!Top' = sorted_end + 2
    BY <2>1, <1>b, <1>k DEF RF!Sorting, RF!InHand, RF!Top
  <2>6. RF!InOrder' = {n \in 1 .. Len(file) : n <= sorted_end + 2 /\ n # next_pos}
    <3>1. next_pos' + 1 = next_pos
      BY <2>1, <1>k
    <3> QED
      BY <3>1, <2>2, <2>5 DEF RF!InOrder
  <2> DEFINE was(n) == IF n = next_pos + 1 THEN next_pos ELSE n
  <2>7. \A n \in RF!InOrder' :
          /\ was(n) \in 1 .. Len(file) /\ was(n) <= sorted_end + 2
          /\ was(n) # next_pos + 1 /\ file'[n] = file[was(n)]
    BY <2>6, <2>2, <1>r, <1>k
  <2>8. \A m, n \in RF!InOrder' : m < n => was(m) < was(n)
    BY <2>6, <1>k
  <2>9. RF!RowsInv'
    <3>1. \A n \in DOMAIN file' : n > RF!Top' => file'[n] = original'[n]
      <4>1. \A n \in 1 .. Len(file) : n > sorted_end + 2 =>
              file[n] = original[n] /\ n # next_pos + 1
        BY <1>c, RecHand, <1>k
      <4> QED
        BY <4>1, <2>2, <2>5, <1>b
    <3>2. \A n \in RF!InOrder' : file'[n].n <= sorted_end' + 1
      <4>1. \A n \in 1 .. Len(file) : n <= sorted_end + 2 /\ n # next_pos + 1 =>
              file[n].n <= sorted_end + 1
        BY <1>c, RecHand
      <4> HIDE DEF was
      <4> QED
        BY <4>1, <2>7, <1>b
    <3>3. \A m, n \in RF!InOrder' : m < n =>
            \/ file'[m].byte < file'[n].byte
            \/ file'[m].byte = file'[n].byte /\ file'[m].n < file'[n].n
      <4> SUFFICES ASSUME NEW m \in RF!InOrder', NEW n \in RF!InOrder', m < n
                   PROVE  \/ file'[m].byte < file'[n].byte
                          \/ file'[m].byte = file'[n].byte /\ file'[m].n < file'[n].n
        OBVIOUS
      <4>1. was(m) < was(n)
        BY <2>8
      <4>2. /\ was(m) \in 1 .. Len(file) /\ was(n) \in 1 .. Len(file)
            /\ was(n) <= sorted_end + 2 /\ was(m) # next_pos + 1
            /\ was(n) # next_pos + 1
            /\ file'[m] = file[was(m)] /\ file'[n] = file[was(n)]
        <5> HIDE DEF was
        <5> QED
          BY <2>7
      <4> HIDE DEF was
      <4>3. \/ file[was(m)].byte < file[was(n)].byte
            \/ /\ file[was(m)].byte = file[was(n)].byte
               /\ file[was(m)].n < file[was(n)].n
        BY <4>1, <4>2, <1>c, RecHand
      <4> QED
        BY <4>2, <4>3
    <3>4. /\ Len(file') = Len(original')
          /\ sorted_end' = 0 \/ sorted_end' < record_count'
          /\ rpc' # "done"
      BY <2>1, <2>2, <1>b, <1>k
    <3> QED
      BY <3>1, <3>2, <3>3, <3>4 DEF RF!RowsInv
  <2>10. RF!HandInv'
    <3>1. ASSUME NEW n \in RF!InOrder', n > next_pos' + 1
          PROVE  inserted'.byte < file'[n].byte
      <4>1. n > next_pos
        BY <3>1, <2>1, <2>6, <1>k
      <4>2. CASE n = next_pos + 1
        BY <4>2, <2>2, <2>3, <1>b
      <4>3. CASE n # next_pos + 1
        <5>1. n \in 1 .. Len(file) /\ n <= sorted_end + 2 /\ n > next_pos + 1
          BY <4>1, <4>3, <2>6, <1>k
        <5>2. inserted.byte < file[n].byte
          BY <5>1, <1>c, RecHand
        <5> QED
          BY <5>1, <5>2, <4>3, <2>2, <1>b
      <4> QED
        BY <4>2, <4>3
    <3>2. /\ sorted_end' + 1 < record_count' /\ next_pos' \in 0 .. sorted_end' + 1
          /\ cursor' = next_pos' /\ inserted' = original'[sorted_end' + 2]
          /\ rpc' = "shift" => next_pos' > 0
          /\ rpc' = "insert" => ~(next_pos' > 0)
      BY <2>1, <1>b, <1>k, <1>r
    <3> QED
      BY <3>1, <3>2 DEF RF!HandInv
  <2>11. RF!NothingLost'
    <3> DEFINE f == [file EXCEPT ![next_pos + 1] = inserted]
               g == [file' EXCEPT ![next_pos] = inserted]
    <3>1. /\ DOMAIN f = 1 .. Len(file) /\ DOMAIN g = 1 .. Len(file)
          /\ f[next_pos + 1] = inserted /\ f[next_pos] = file[next_pos]
          /\ g[next_pos] = inserted /\ g[next_pos + 1] = file[next_pos]
          /\ \A n \in 1 .. Len(file) :
               n # next_pos /\ n # next_pos + 1 => f[n] = file[n] /\ g[n] = file[n]
      BY <2>2, <1>r, <1>k
    <3>2. RF!Elements(f) = RF!Elements(original)
      BY <1>c, RecHand
    <3> HIDE DEF f, g
    <3>3. RF!Elements(g) = RF!Elements(f)
      <4>1. /\ next_pos + 1 \in DOMAIN f /\ next_pos \in DOMAIN f
            /\ DOMAIN g = DOMAIN f /\ g[next_pos + 1] = f[next_pos]
            /\ g[next_pos] = f[next_pos + 1]
        BY <3>1, <1>r
      <4>2. \A n \in DOMAIN f : n # next_pos + 1 /\ n # next_pos => g[n] = f[n]
        BY <3>1
      <4> QED
        BY <4>1, <4>2, RowsSwapped, Zenon
    <3>4. next_pos' + 1 = next_pos /\ rpc' \notin {"sort", "done"}
      BY <2>1, <1>k
    <3>5. g = [file' EXCEPT ![next_pos' + 1] = inserted']
      BY <3>4, <1>b DEF g
    <3> QED
      BY <3>2, <3>3, <3>4, <3>5, <1>b DEF RF!NothingLost
  <2>12. rpc' \in {"shift", "insert"}
    BY <2>1
  <2> QED
    BY <1>2, <2>4, <2>9, <2>10, <2>11, <2>12 DEF RF!IInv
<1>4. CASE ~RF!Shifts(file[next_pos])
  <2>1. /\ cursor' = cursor /\ rpc' = "insert" /\ file' = file
        /\ next_pos' = next_pos
    BY <1>4, <1>n, <1>k DEF RF!ShiftRecord
  <2>2. RF!TypeOK'
    BY <2>1, <1>b, <1>t DEF RF!TypeOK
  <2>3. /\ RF!InHand /\ RF!InHand' /\ RF!Sorting /\ RF!Sorting'
        /\ RF!Top' = RF!Top /\ RF!InOrder' = RF!InOrder
    BY <2>1, <1>b, <1>c, <1>k DEF RF!InHand, RF!Sorting, RF!Top, RF!InOrder
  <2>4. RF!RowsInv'
    BY <2>1, <2>3, <1>b, <1>t DEF RF!RowsInv
  <2>5. RF!HandInv'
    <3>1. file[next_pos].byte <= inserted.byte
      BY <1>4, <1>z DEF RF!Shifts
    <3> QED
      BY <3>1, <2>1, <2>3, <1>b, <1>t DEF RF!HandInv
  <2>6. RF!NothingLost'
    BY <2>1, <1>b, <1>c, <1>t DEF RF!NothingLost
  <2> QED
    BY <1>2, <2>1, <2>2, <2>4, <2>5, <2>6 DEF RF!IInv
<1> QED
  BY <1>3, <1>4

\* The record in hand fills the free row, and one row more is in order.
LEMMA RecInsert == ASSUME RF!IInv, RF!InsertRecord PROVE RF!IInv'
<1>c. rpc = "insert" /\ rpc' = "sort"
  BY DEF RF!InsertRecord
<1>t. RF!TypeOK /\ RF!AtTheStart /\ RF!CopyInv /\ RF!HandInv
  BY DEF RF!IInv
<1>h. next_pos > 0 => file[next_pos].byte <= inserted.byte
  BY <1>c, <1>t DEF RF!HandInv, RF!InHand
<1>b. /\ op' = op /\ rmode' = rmode /\ record_count' = record_count
      /\ original' = original /\ old' = old /\ file2' = file2
      /\ ri' = ri /\ next_pos' = next_pos /\ inserted' = inserted
      /\ file' = RF!WriteRow(file, cursor, inserted)
      /\ cursor' = cursor + 1 /\ sorted_end' = sorted_end + 1
  BY DEF RF!InsertRecord, RF!arguments
<1>k. /\ op = "sort" /\ sorted_end \in Nat /\ record_count \in Nat
      /\ next_pos \in Nat /\ next_pos <= sorted_end + 1 /\ cursor = next_pos
      /\ file \in Seq(RF!RecordType) /\ original \in Seq(RF!RecordType)
      /\ sorted_end + 1 < record_count /\ record_count <= Len(original)
      /\ Len(file) = Len(original) /\ Len(file) \in Nat
      /\ DOMAIN file = 1 .. Len(file)
      /\ inserted \in RF!RecordType /\ inserted.n = sorted_end + 2
  BY <1>c, RecHand
<1>r. next_pos + 1 \in 1 .. Len(file) /\ next_pos < Len(file)
      /\ next_pos + 1 <= sorted_end + 2
  BY <1>k
<1>1. /\ file' \in Seq(RF!RecordType) /\ Len(file') = Len(file)
      /\ file'[next_pos + 1] = inserted
      /\ \A n \in 1 .. Len(file) : n # next_pos + 1 => file'[n] = file[n]
      /\ DOMAIN file' = 1 .. Len(file)
  <2>1. /\ file' \in Seq(RF!RecordType) /\ Len(file') = Len(file)
        /\ file'[next_pos + 1] = inserted
        /\ \A n \in 1 .. Len(file) : n # next_pos + 1 => file'[n] = file[n]
    <3>1. /\ next_pos \in Nat /\ file \in Seq(RF!RecordType) /\ next_pos < Len(file)
          /\ inserted \in RF!RecordType
          /\ file' = RF!WriteRow(file, next_pos, inserted)
      BY <1>k, <1>r, <1>b
    <3> QED
      BY <3>1, RowWritten
  <2>2. DOMAIN file' = 1 .. Len(file')
    BY <2>1
  <2> QED
    BY <2>1, <2>2
<1>2. RF!TypeOK'
  <2>1. cursor' \in Nat /\ sorted_end' \in Nat
    BY <1>b, <1>k
  <2> QED
    BY <2>1, <1>1, <1>b, <1>c, <1>t DEF RF!TypeOK
<1>3. RF!AtTheStart' /\ RF!CopyInv'
  BY <1>t, <1>b, <1>c, <1>k DEF RF!AtTheStart, RF!CopyInv
<1>4. ~RF!InHand' /\ RF!Top' = sorted_end + 2
  BY <1>b, <1>c, <1>k DEF RF!InHand, RF!Top
<1>5. RF!InOrder' = {n \in 1 .. Len(file) : n <= sorted_end + 2}
  BY <1>1, <1>4 DEF RF!InOrder
<1>o. \A n \in 1 .. Len(file) : file[n].byte \in Nat /\ file[n].n \in Nat
  <2>1. \A n \in 1 .. Len(file) : file[n] \in RF!RecordType
    BY <1>k
  <2> QED
    BY <2>1 DEF RF!RecordType
<1>y. inserted.byte \in Nat
  BY <1>k DEF RF!RecordType
<1>6. RF!RowsInv'
  <2>1. \A n \in DOMAIN file' : n > RF!Top' => file'[n] = original'[n]
    <3>1. \A n \in 1 .. Len(file) : n > sorted_end + 2 =>
            file[n] = original[n] /\ n # next_pos + 1
      BY <1>c, RecHand, <1>k
    <3> QED
      BY <3>1, <1>1, <1>4, <1>b
  <2>2. \A n \in RF!InOrder' : file'[n].n <= sorted_end' + 1
    <3> SUFFICES ASSUME NEW n \in RF!InOrder' PROVE file'[n].n <= sorted_end' + 1
      OBVIOUS
    <3>0. n \in 1 .. Len(file) /\ n <= sorted_end + 2
      BY <1>5
    <3>1. CASE n = next_pos + 1
      BY <3>1, <1>1, <1>b, <1>k
    <3>2. CASE n # next_pos + 1
      <4>1. file[n].n <= sorted_end + 1
        BY <3>0, <3>2, <1>c, RecHand
      <4>2. file'[n] = file[n] /\ file[n].n \in Nat
        BY <3>0, <3>2, <1>1, <1>o
      <4> QED
        BY <4>1, <4>2, <1>b, <1>k
    <3> QED
      BY <3>1, <3>2
  <2>3. \A m, n \in RF!InOrder' : m < n =>
          \/ file'[m].byte < file'[n].byte
          \/ file'[m].byte = file'[n].byte /\ file'[m].n < file'[n].n
    <3> SUFFICES ASSUME NEW m \in RF!InOrder', NEW n \in RF!InOrder', m < n
                 PROVE  \/ file'[m].byte < file'[n].byte
                        \/ file'[m].byte = file'[n].byte /\ file'[m].n < file'[n].n
      OBVIOUS
    <3>0. /\ m \in 1 .. Len(file) /\ n \in 1 .. Len(file) /\ n <= sorted_end + 2
          /\ m <= sorted_end + 2
      BY <1>5
    <3>1. CASE m # next_pos + 1 /\ n # next_pos + 1
      <4>1. \/ file[m].byte < file[n].byte
            \/ file[m].byte = file[n].byte /\ file[m].n < file[n].n
        BY <3>0, <3>1, <1>c, RecHand
      <4> QED
        BY <4>1, <3>0, <3>1, <1>1
    <3>2. CASE m = next_pos + 1
      <4>1. n > next_pos + 1 /\ n # next_pos + 1
        BY <3>2, <3>0, <1>k
      <4>2. inserted.byte < file[n].byte
        BY <4>1, <3>0, <1>c, RecHand
      <4> QED
        BY <4>1, <4>2, <3>0, <3>2, <1>1
    <3>3. CASE n = next_pos + 1
      <4>1. m <= next_pos /\ next_pos \in 1 .. Len(file) /\ next_pos > 0
            /\ m # next_pos + 1 /\ next_pos # next_pos + 1
            /\ next_pos <= sorted_end + 2
        BY <3>3, <3>0, <1>k, <1>r
      <4>2. file[next_pos].byte <= inserted.byte
        BY <4>1, <1>h
      <4>3. \/ m = next_pos
            \/ file[m].byte < file[next_pos].byte
            \/ file[m].byte = file[next_pos].byte
        <5>1. m = next_pos \/ m < next_pos
          BY <4>1, <3>0
        <5> QED
          BY <5>1, <4>1, <3>0, <1>c, RecHand
      <4>4. file[m].n <= sorted_end + 1
        BY <4>1, <3>0, <1>c, RecHand
      <4>5. /\ file[m].byte \in Nat /\ file[next_pos].byte \in Nat
            /\ file[m].n \in Nat
        BY <1>o, <4>1, <3>0
      <4>6. \/ file[m].byte < inserted.byte
            \/ file[m].byte = inserted.byte /\ file[m].n < inserted.n
        BY <4>2, <4>3, <4>4, <4>5, <1>y, <1>k
      <4> QED
        BY <4>1, <4>6, <3>0, <3>3, <1>1
    <3> QED
      BY <3>1, <3>2, <3>3
  <2>4. /\ Len(file') = Len(original')
        /\ sorted_end' = 0 \/ sorted_end' < record_count'
        /\ rpc' # "done"
    BY <1>1, <1>b, <1>c, <1>k
  <2> QED
    BY <2>1, <2>2, <2>3, <2>4 DEF RF!RowsInv
<1>7. RF!HandInv'
  BY <1>4 DEF RF!HandInv
<1>8. RF!NothingLost'
  <2>1. file' = [file EXCEPT ![next_pos + 1] = inserted]
    <3>0. next_pos \in Nat /\ Len(file) \in Nat /\ cursor = next_pos
      BY <1>k
    <3>1. cursor # Len(file) /\ cursor + 1 = next_pos + 1
      BY <3>0, <1>r
    <3> QED
      BY <3>1, <1>b DEF RF!WriteRow
  <2>2. RF!Elements(file') = RF!Elements(original)
    BY <2>1, <1>c, RecHand
  <2> QED
    BY <2>2, <1>b, <1>c DEF RF!NothingLost
<1> QED
  BY <1>2, <1>3, <1>6, <1>7, <1>8 DEF RF!IInv

\* A file whose rows to the last are in order is sorted.
LEMMA RecSorted == RF!IInv => RF!RecordsKept
<1> SUFFICES ASSUME RF!IInv PROVE RF!RecordsKept
  OBVIOUS
<1>t. RF!TypeOK /\ RF!AtTheStart /\ RF!CopyInv /\ RF!RowsInv /\ RF!NothingLost
  BY DEF RF!IInv
<1>1. RF!CopyIsPrefix
  BY <1>t DEF RF!CopyIsPrefix, RF!CopyInv
<1>2. RF!SortedAndStable
  <2> SUFFICES ASSUME op = "sort", rpc = "done",
                      NEW m \in DOMAIN file, NEW n \in DOMAIN file, m < n
               PROVE  \/ n > record_count /\ file[n] = original[n]
                      \/ file[m].byte < file[n].byte
                      \/ file[m].byte = file[n].byte /\ file[m].n < file[n].n
    BY DEF RF!SortedAndStable
  <2>1. RF!Sorting /\ ~RF!InHand /\ RF!Top = sorted_end + 1
    BY DEF RF!Sorting, RF!InHand, RF!Top
  <2>2. /\ sorted_end \in Nat /\ record_count \in Nat
        /\ file \in Seq(RF!RecordType)
    BY <1>t DEF RF!TypeOK
  <2>3. /\ sorted_end = 0 \/ sorted_end < record_count
        /\ sorted_end + 1 >= record_count
    BY <1>t, <2>1 DEF RF!RowsInv
  <2>4. m \in Nat /\ n \in Nat /\ m > 0
    BY <2>2
  <2>5. CASE n > RF!Top
    <3>1. file[n] = original[n]
      BY <2>5, <1>t, <2>1 DEF RF!RowsInv
    <3>2. n > record_count
      BY <2>5, <2>1, <2>2, <2>3, <2>4
    <3> QED
      BY <3>1, <3>2
  <2>6. CASE ~(n > RF!Top)
    <3>1. n <= RF!Top /\ m <= RF!Top
      BY <2>6, <2>1, <2>2, <2>4
    <3>2. m \in RF!InOrder /\ n \in RF!InOrder
      BY <3>1, <2>1 DEF RF!InOrder
    <3> QED
      BY <3>2, <1>t, <2>1 DEF RF!RowsInv
  <2> QED
    BY <2>5, <2>6
<1> QED
  BY <1>t, <1>1, <1>2 DEF RF!RecordsKept

\* RecordsKept (operations.c): whatever the files and however many records,
\* sort never loses one, its result is sorted and stable, and a copy begins
\* with the records of the file.
THEOREM RecordsAlwaysKept ==
  ASSUME Files \subseteq Seq(Nat), SomeFiles \subseteq Seq(Nat),
         Bytes \subseteq Nat, MaxRecords \in Nat
  PROVE  RF!Spec => []RecordsKept
<1>1. RF!Init => RF!IInv
  BY RecInit
<1>2. RF!IInv /\ [RF!Next]_(RF!vars) => RF!IInv'
  <2> SUFFICES ASSUME RF!IInv, [RF!Next]_(RF!vars) PROVE RF!IInv'
    OBVIOUS
  <2>1. CASE RF!ReadArguments
    BY <2>1, RecArgs
  <2>2. CASE RF!OpenFiles
    BY <2>2, RecOpen
  <2>3. CASE RF!Generate
    BY <2>3, RecGenerate
  <2>4. CASE RF!Copy
    BY <2>4, RecCopy
  <2>5. CASE RF!TakeRecord
    BY <2>5, RecTake
  <2>6. CASE RF!ShiftRecord
    BY <2>6, RecShift
  <2>7. CASE RF!InsertRecord
    BY <2>7, RecInsert
  <2>8. CASE UNCHANGED RF!vars
    <3>1. /\ op' = op /\ rmode' = rmode /\ record_count' = record_count
          /\ original' = original /\ old' = old /\ rpc' = rpc /\ file' = file
          /\ file2' = file2 /\ cursor' = cursor /\ ri' = ri
          /\ sorted_end' = sorted_end /\ next_pos' = next_pos
          /\ inserted' = inserted
      BY <2>8 DEF RF!vars
    <3> QED
      BY <3>1 DEF RF!IInv, RF!TypeOK, RF!AtTheStart, RF!CopyInv, RF!RowsInv,
        RF!HandInv, RF!NothingLost, RF!Sorting, RF!InHand, RF!Top, RF!InOrder
  <2> QED
    BY <2>1, <2>2, <2>3, <2>4, <2>5, <2>6, <2>7, <2>8 DEF RF!Next
<1>3. RF!IInv => RecordsKept
  BY RecSorted DEF RecordsKept
<1> QED
  BY <1>1, <1>2, <1>3, PTL DEF RF!Spec

-----------------------------------------------------------------------------
(***************************************************************************)
(* cw01: the block tables.                                                 *)
(***************************************************************************)

\* The natural numbers are well-founded: a set of them has a least element.
LEMMA LeastNatural ==
  ASSUME NEW T \in SUBSET Nat, T # {}
  PROVE  \E x \in T : \A y \in T : x <= y
<1>1. PICK x \in T : \A y \in T : ~(<<y, x>> \in OpToRel(<, Nat))
  BY NatLessThanWellFounded, WFMin
<1>2. \A y, z \in Nat : y < z => <<y, z>> \in OpToRel(<, Nat)
  BY DEF OpToRel
<1>3. \A y \in T : ~(y < x)
  BY <1>1, <1>2, Zenon
<1>4. \A y \in T : x <= y
  BY <1>3
<1> QED
  BY <1>4

\* The loop of chfind compares the difference of the block at index with
\* itself: it ends with the block it starts with, the next one.
LEMMA ChNearest ==
  ASSUME blk_count \in Nat, NEW k \in CH!Blocks, \A b \in CH!Blocks : sums[b] \in Int
  PROVE  LET start == (k + 1) % blk_count
         IN /\ start \in CH!Blocks
            /\ CH!Nearest(k) = [index |-> start,
                                difference |-> CH!Difference(k, start)]
<1> DEFINE start == (k + 1) % blk_count
           base == [index |-> start, difference |-> CH!Difference(k, start)]
           Turn(j, s) == IF j - 1 # k /\ CH!Diff2(k, s.index, j - 1) < s.difference
                         THEN [index |-> j - 1,
                               difference |-> CH!Diff2(k, s.index, j - 1)]
                         ELSE s
           Scans(f) == f = [j \in 0 .. blk_count |->
                              IF j = 0 THEN base ELSE Turn(j, f[j - 1])]
           scan == CHOOSE f : Scans(f)
<1>0. start \in CH!Blocks
  BY DEF CH!Blocks
<1>1. CH!Nearest(k) = scan[blk_count]
  BY DEF CH!Nearest
<1>2. \A j : Turn(j, base) = base
  <2>1. \A j : CH!Diff2(k, base.index, j) = base.difference
    BY DEF CH!Diff2
  <2>2. base.difference = CH!Difference(k, start)
    OBVIOUS
  <2>3. CH!Difference(k, start) \in Int
    BY <1>0 DEF CH!Difference, CH!Abs
  <2> QED
    BY <2>1, <2>2, <2>3
<1> HIDE DEF base, Turn
<1>3. \E f : Scans(f)
  <2> DEFINE h == [j \in 0 .. blk_count |-> base]
  <2>1. \A j \in 0 .. blk_count : j # 0 => j - 1 \in 0 .. blk_count
    OBVIOUS
  <2>2. \A j \in 0 .. blk_count : (IF j = 0 THEN base ELSE Turn(j, h[j - 1])) = base
    BY <1>2, <2>1
  <2>3. Scans(h)
    BY <2>2
  <2> QED
    BY <2>3
<1>4. Scans(scan)
  BY <1>3
<1> HIDE DEF scan
<1>5. \A j \in 0 .. blk_count :
        scan[j] = IF j = 0 THEN base ELSE Turn(j, scan[j - 1])
  BY <1>4
<1>6. \A j \in 0 .. blk_count : scan[j] = base
  <2> DEFINE T == {j \in 0 .. blk_count : scan[j] # base}
  <2> SUFFICES ASSUME T # {} PROVE FALSE
    OBVIOUS
  <2>1. PICK j \in T : \A l \in T : j <= l
    <3>1. T \in SUBSET Nat
      OBVIOUS
    <3> HIDE DEF T
    <3> QED
      BY <3>1, LeastNatural
  <2>2. j # 0 /\ j \in 0 .. blk_count /\ scan[j] # base
    BY <2>1, <1>5
  <2>3. j - 1 \in 0 .. blk_count /\ ~(j <= j - 1)
    BY <2>2
  <2>4. scan[j - 1] = base
    BY <2>1, <2>3
  <2> QED
    BY <2>2, <2>4, <1>2, <1>5
<1> QED
  BY <1>0, <1>1, <1>6 DEF base

\* Cardinality means the same in the instance.
LEMMA ChCardinality == ASSUME NEW S PROVE CH!Cardinality(S) = Cardinality(S)
  BY DEF CH!Cardinality, Cardinality

\* The heap is empty at first.
LEMMA ChInit == CH!Init => CH!IInv
<1> SUFFICES ASSUME CH!Init PROVE CH!IInv
  OBVIOUS
<1>1. /\ alloc = "none" /\ st = "start" /\ blk_count = 0 /\ ~table
      /\ heap = [tables |-> 0, blocks |-> 0] /\ dropped = 0
      /\ ~found.valid
  BY DEF CH!Init, CH!NoResult
<1>2. CH!Blocks = {}
  BY <1>1 DEF CH!Blocks
<1>3. CH!TypeOK
  BY <1>1, <1>2 DEF CH!TypeOK
<1>4. CH!Started
  BY <1>1 DEF CH!Started
<1>5. CH!TableConsistent
  BY <1>1 DEF CH!TableConsistent, CH!HeapIsTheTable, CH!OnlySearchUnchecked,
              CH!AnswerExists
<1> QED
  BY <1>3, <1>4, <1>5 DEF CH!IInv

\* The blocks are finitely many, and so are the live ones.
LEMMA ChLive ==
  ASSUME blk_count \in Nat
  PROVE  /\ IsFiniteSet(CH!Live) /\ Cardinality(CH!Live) \in Nat
         /\ IsFiniteSet(CH!Blocks)
<1>1. IsFiniteSet(CH!Blocks)
  BY FS_Interval DEF CH!Blocks
<1>2. CH!Live \in SUBSET CH!Blocks
  BY DEF CH!Live
<1>3. IsFiniteSet(CH!Live)
  BY <1>1, <1>2, FS_Subset
<1> QED
  BY <1>1, <1>3, FS_CardinalityType

\* The two modes: an allocated table is not there yet, the static one is.
LEMMA ChReadMode == ASSUME MaxBlocks \in Nat, CH!IInv, CH!ReadMode PROVE CH!IInv'
<1>t. CH!TypeOK /\ CH!Started
  BY DEF CH!IInv
<1>a. /\ st = "start" /\ st' = "run" /\ table' = table /\ heap' = heap
      /\ dropped' = dropped /\ found' = found
  BY DEF CH!ReadMode
<1>b. /\ blk_count = 0 /\ dropped = 0 /\ ~table /\ heap.tables = 0
      /\ heap.blocks = 0 /\ ~found.valid
  BY <1>a, <1>t DEF CH!Started
<1>1. CASE alloc' = "DYNAMIC"
  <2>1. blk_count' = 0 /\ sums' = sums
    BY <1>1, <1>b DEF CH!ReadMode
  <2>2. CH!Blocks' = {} /\ CH!Live' = {}
    BY <2>1 DEF CH!Blocks, CH!Live
  <2>3. CH!TypeOK'
    BY <1>1, <1>a, <1>t, <2>1, <2>2 DEF CH!TypeOK
  <2>4. CH!Started'
    BY <1>1, <1>a, <2>1 DEF CH!Started
  <2>5. CH!TableConsistent'
    BY <1>a, <1>b, <2>2, FS_EmptySet, ChCardinality
    DEF CH!TableConsistent, CH!HeapIsTheTable, CH!OnlySearchUnchecked,
        CH!AnswerExists
  <2> QED
    BY <2>3, <2>4, <2>5 DEF CH!IInv
<1>2. CASE alloc' = "STATIC"
  <2>1. blk_count' = MaxBlocks /\ sums' = [b \in 0 .. MaxBlocks - 1 |-> 0]
    BY <1>2 DEF CH!ReadMode
  <2>2. \A b \in CH!Blocks' : sums'[b] \in Int
    BY <2>1 DEF CH!Blocks
  <2>3. CH!TypeOK'
    BY <1>2, <1>a, <1>t, <2>1, <2>2 DEF CH!TypeOK
  <2>4. CH!Started'
    BY <1>2, <1>a DEF CH!Started
  <2>5. CH!TableConsistent'
    BY <1>2, <1>a, <1>b
    DEF CH!TableConsistent, CH!HeapIsTheTable, CH!OnlySearchUnchecked,
        CH!AnswerExists
  <2> QED
    BY <2>3, <2>4, <2>5 DEF CH!IInv
<1> QED
  BY <1>1, <1>2 DEF CH!ReadMode

\* op_create_table: chfree gives back the blocks and the table, if the table
\* has blocks.
LEMMA ChCreate ==
  ASSUME NEW n \in Nat, CH!IInv, CH!CreateTable(n)
  PROVE  CH!IInv'
<1>t. CH!TypeOK /\ CH!Started /\ CH!HeapIsTheTable
  BY DEF CH!IInv, CH!TableConsistent
<1>a. /\ st = "run" /\ alloc = "DYNAMIC" /\ alloc' = alloc /\ st' = st
      /\ dropped' = dropped + (IF table /\ blk_count = 0 THEN 1 ELSE 0)
      /\ found' = CH!NoResult
      /\ blk_count' = IF table' THEN n ELSE 0
      /\ sums' = [b \in 0 .. blk_count' - 1 |-> -1]
  BY DEF CH!CreateTable, CH!Operation, CH!NewTable
<1>k. heap' = IF table' THEN [CH!AfterFree EXCEPT !.tables = @ + 1]
                ELSE CH!AfterFree
  BY DEF CH!CreateTable, CH!NewTable
<1>b. /\ blk_count \in Nat /\ dropped \in Nat
      /\ heap \in [tables : Int, blocks : Int]
  BY <1>t DEF CH!TypeOK
<1>c. /\ heap.blocks = Cardinality(CH!Live)
      /\ heap.tables = IF table THEN dropped + 1 ELSE dropped
      /\ ~table => blk_count = 0
  BY <1>a, <1>t, ChCardinality DEF CH!HeapIsTheTable, CH!Started
<1>d. blk_count = 0 => heap.blocks = 0
  <2>1. blk_count = 0 => CH!Live = {}
    BY DEF CH!Live, CH!Blocks
  <2> QED
    BY <2>1, <1>c, FS_EmptySet
<1>e. dropped' \in Nat
  BY <1>a, <1>b
<1>f. CH!AfterFree = [tables |-> dropped', blocks |-> 0]
  <2>0. heap = [tables |-> heap.tables, blocks |-> heap.blocks]
    BY <1>b
  <2>1. CASE ~table \/ blk_count = 0
    <3>1. heap.blocks = 0
      BY <2>1, <1>c, <1>d
    <3>2. heap.tables = dropped'
      BY <2>1, <1>a, <1>b, <1>c
    <3> QED
      BY <2>0, <2>1, <3>1, <3>2 DEF CH!AfterFree
  <2>2. CASE ~(~table \/ blk_count = 0)
    <3>1. heap.tables - 1 = dropped' /\ heap.blocks - Cardinality(CH!Live) = 0
      BY <2>2, <1>a, <1>b, <1>c
    <3> QED
      BY <2>2, <3>1, ChCardinality DEF CH!AfterFree
  <2> QED
    BY <2>1, <2>2
<1>g. heap' = [tables |-> IF table' THEN dropped' + 1 ELSE dropped', blocks |-> 0]
  <2>1. CASE table'
    <3>1. heap' = [[tables |-> dropped', blocks |-> 0] EXCEPT !.tables = @ + 1]
      BY <2>1, <1>k, <1>f
    <3> QED
      BY <3>1, <2>1
  <2>2. CASE ~table'
    <3>1. heap' = [tables |-> dropped', blocks |-> 0]
      BY <2>2, <1>k, <1>f
    <3> QED
      BY <3>1, <2>2, <1>e
  <2> QED
    BY <2>1, <2>2, <1>a
<1>h. blk_count' \in Nat /\ (~table' => blk_count' = 0)
  BY <1>a
<1>i. /\ \A b \in CH!Blocks' : sums'[b] = -1
      /\ CH!Live' = {}
  <2>1. \A b \in CH!Blocks' : sums'[b] = -1
    BY <1>a DEF CH!Blocks
  <2> QED
    BY <2>1, <1>a DEF CH!Live
<1>j. ~found'.valid
  BY <1>a DEF CH!NoResult
<1>1. CH!TypeOK'
  <2>1. heap' \in [tables : Int, blocks : Int]
    BY <1>g, <1>e, <1>h
  <2> QED
    BY <2>1, <1>a, <1>e, <1>h, <1>i, <1>j, SMTT(30) DEF CH!TypeOK
<1>2. CH!Started'
  BY <1>a, <1>h DEF CH!Started
<1>3. CH!TableConsistent'
  <2>1. heap'.blocks = Cardinality(CH!Live')
    BY <1>g, <1>i, FS_EmptySet
  <2>2. heap'.tables = IF table' THEN dropped' + 1 ELSE dropped'
    BY <1>g
  <2> QED
    BY <2>1, <2>2, <1>a, <1>j, ChCardinality
    DEF CH!TableConsistent, CH!HeapIsTheTable, CH!OnlySearchUnchecked,
        CH!AnswerExists
<1> QED
  BY <1>1, <1>2, <1>3 DEF CH!IInv

\* op_add stays in the table; every block that it replaces is freed.
LEMMA ChAdd ==
  ASSUME Sums \subseteq Int, NEW n \in Nat, CH!IInv, CH!Add(n)
  PROVE  CH!IInv'
<1>t. CH!TypeOK /\ CH!Started /\ CH!HeapIsTheTable
  BY DEF CH!IInv, CH!TableConsistent
<1> DEFINE first == 0 .. n - 1
<1>a. /\ st = "run" /\ n <= blk_count /\ alloc' = alloc
      /\ blk_count' = blk_count /\ table' = table /\ dropped' = dropped
      /\ found' = CH!NoResult
  BY DEF CH!Add, CH!Operation, CH!check_times
<1>b. /\ blk_count \in Nat /\ dropped \in Nat
      /\ heap \in [tables : Int, blocks : Int]
      /\ \A b \in CH!Blocks : sums[b] \in Int
  BY <1>t DEF CH!TypeOK
<1>c. first \subseteq CH!Blocks /\ CH!InTable(first) /\ CH!Blocks' = CH!Blocks
  BY <1>a, <1>b DEF CH!Blocks, CH!InTable
<1>d. st' = st
  BY <1>c DEF CH!Add
<1>e. alloc \in {"DYNAMIC", "STATIC"}
  BY <1>a, <1>t DEF CH!TypeOK, CH!Started
<1>f. ~found'.valid
  BY <1>a DEF CH!NoResult
<1>g. IsFiniteSet(first)
  BY FS_Interval
<1>h. /\ IsFiniteSet(CH!Live) /\ Cardinality(CH!Live) \in Nat
      /\ Cardinality(CH!Live \cap first) \in Nat
  <2>1. IsFiniteSet(CH!Live) /\ Cardinality(CH!Live) \in Nat
    BY <1>b, ChLive
  <2>2. IsFiniteSet(CH!Live \cap first)
    <3>1. CH!Live \cap first \in SUBSET CH!Live
      OBVIOUS
    <3> QED
      BY <2>1, <3>1, FS_Subset
  <2> QED
    BY <2>1, <2>2, FS_CardinalityType
<1> HIDE DEF first
<1>2. CH!Started'
  BY <1>a, <1>d, <1>t DEF CH!Started
<1>3. CASE alloc = "DYNAMIC"
  <2>1. PICK none \in SUBSET first :
          /\ sums' = [b \in CH!Blocks |-> IF b \in none THEN -1
                        ELSE IF b \in first THEN 0 ELSE sums[b]]
          /\ heap' = [heap EXCEPT !.blocks =
               @ - CH!FreedByAdd(first) + CH!Cardinality(first \ none)]
    BY <1>3, <1>c DEF CH!Add, first
  <2>2. \A b \in CH!Blocks : sums'[b] \in Int
    BY <2>1, <1>b
  <2>3. CH!Live' = (CH!Live \ first) \cup (first \ none)
    <3>1. CH!Live = {b \in CH!Blocks : sums[b] # -1}
      BY <1>3 DEF CH!Live
    <3>2. CH!Live' = {b \in CH!Blocks : sums'[b] # -1}
      BY <1>3, <1>a, <1>c DEF CH!Live
    <3> QED
      BY <3>1, <3>2, <2>1, <1>c
  <2>4. /\ IsFiniteSet(first \ none) /\ Cardinality(first \ none) \in Nat
    BY <1>g, FS_Difference, FS_CardinalityType
  <2>5. Cardinality(CH!Live') = Cardinality(CH!Live) - Cardinality(CH!Live \cap first)
                                  + Cardinality(first \ none)
    <3>1. /\ IsFiniteSet(CH!Live \ first)
          /\ Cardinality(CH!Live \ first)
               = Cardinality(CH!Live) - Cardinality(CH!Live \cap first)
      BY <1>h, FS_Difference
    <3>2. (CH!Live \ first) \cap (first \ none) = {}
      OBVIOUS
    <3>3. Cardinality((CH!Live \ first) \cup (first \ none))
            = Cardinality(CH!Live \ first) + Cardinality(first \ none)
                - Cardinality((CH!Live \ first) \cap (first \ none))
      BY <3>1, <2>4, FS_Union
    <3>4. Cardinality((CH!Live \ first) \cap (first \ none)) = 0
      BY <3>2, FS_EmptySet
    <3> QED
      BY <3>1, <3>3, <3>4, <2>3, <2>4, <1>h
  <2>6. CH!FreedByAdd(first) = Cardinality(CH!Live \cap first)
    <3>1. first \cap CH!Live = CH!Live \cap first
      OBVIOUS
    <3> QED
      BY <3>1, ChCardinality DEF CH!FreedByAdd
  <2>7. heap.blocks = Cardinality(CH!Live)
    BY <1>3, <1>t, ChCardinality DEF CH!HeapIsTheTable
  <2>8. /\ heap'.tables = heap.tables
        /\ heap'.blocks = Cardinality(CH!Live')
        /\ heap' \in [tables : Int, blocks : Int]
    <3> DEFINE x == heap.blocks - CH!FreedByAdd(first) + CH!Cardinality(first \ none)
    <3>1. x = Cardinality(CH!Live') /\ x \in Int
      BY <2>4, <2>5, <2>6, <2>7, <1>h, ChCardinality
    <3>2. heap' = [heap EXCEPT !.blocks = x]
      BY <2>1
    <3> HIDE DEF x
    <3> QED
      BY <3>1, <3>2, <1>b
  <2>9. CH!TypeOK'
    BY <2>2, <2>8, <1>a, <1>b, <1>c, <1>d, <1>e DEF CH!TypeOK
  <2>10. CH!TableConsistent'
    BY <2>8, <1>3, <1>a, <1>d, <1>f, <1>t, ChCardinality
    DEF CH!TableConsistent, CH!HeapIsTheTable, CH!OnlySearchUnchecked,
        CH!AnswerExists
  <2> QED
    BY <2>9, <2>10, <1>2 DEF CH!IInv
<1>4. CASE alloc # "DYNAMIC"
  <2>1. PICK filled \in [first -> Sums] :
          sums' = [b \in CH!Blocks |-> IF b \in first THEN filled[b] ELSE sums[b]]
    BY <1>4, <1>c DEF CH!Add, first
  <2>2. heap' = heap
    BY <1>4, <1>c DEF CH!Add, first
  <2>3. \A b \in CH!Blocks : sums'[b] \in Int
    BY <2>1, <1>b
  <2>4. CH!TypeOK'
    BY <2>2, <2>3, <1>a, <1>b, <1>c, <1>d, <1>e DEF CH!TypeOK
  <2>5. CH!TableConsistent'
    BY <1>4, <1>a, <1>d, <1>f
    DEF CH!TableConsistent, CH!HeapIsTheTable, CH!OnlySearchUnchecked,
        CH!AnswerExists
  <2> QED
    BY <2>4, <2>5, <1>2 DEF CH!IInv
<1> QED
  BY <1>3, <1>4

\* op_remove and op_remove_and_add free the blocks that are there.
LEMMA ChRemove ==
  ASSUME NEW n \in Nat, CH!IInv, CH!Remove(n)
  PROVE  CH!IInv'
<1>t. CH!TypeOK /\ CH!Started /\ CH!HeapIsTheTable
  BY DEF CH!IInv, CH!TableConsistent
<1> DEFINE first == 0 .. n - 1
<1>a. /\ st = "run" /\ n <= blk_count /\ alloc' = alloc
      /\ blk_count' = blk_count /\ table' = table /\ dropped' = dropped
      /\ found' = CH!NoResult
  BY DEF CH!Remove, CH!Operation, CH!check_times
<1>b. /\ blk_count \in Nat /\ dropped \in Nat
      /\ heap \in [tables : Int, blocks : Int]
      /\ \A b \in CH!Blocks : sums[b] \in Int
  BY <1>t DEF CH!TypeOK
<1>c. first \subseteq CH!Blocks /\ CH!InTable(first) /\ CH!Blocks' = CH!Blocks
  BY <1>a, <1>b DEF CH!Blocks, CH!InTable
<1>d. st' = st
  BY <1>c DEF CH!Remove
<1>e. alloc \in {"DYNAMIC", "STATIC"}
  BY <1>a, <1>t DEF CH!TypeOK, CH!Started
<1>f. ~found'.valid
  BY <1>a DEF CH!NoResult
<1>g. /\ sums' = [b \in CH!Blocks |-> IF b \in first
                    THEN IF alloc = "DYNAMIC" THEN -1 ELSE 0 ELSE sums[b]]
      /\ heap' = IF alloc = "STATIC" THEN heap
                 ELSE [heap EXCEPT !.blocks = @ - CH!Cardinality(first \cap CH!Live)]
  BY <1>c DEF CH!Remove, CH!Clear
<1> HIDE DEF first
<1>h. \A b \in CH!Blocks : sums'[b] \in Int
  BY <1>g, <1>b, <1>c
<1>2. CH!Started'
  BY <1>a, <1>d, <1>t DEF CH!Started
<1>3. CASE alloc = "DYNAMIC"
  <2>1. IsFiniteSet(CH!Live) /\ Cardinality(CH!Live) \in Nat
    BY <1>b, ChLive
  <2>2. CH!Live' = CH!Live \ first
    <3>1. CH!Live = {b \in CH!Blocks : sums[b] # -1}
      BY <1>3 DEF CH!Live
    <3>2. CH!Live' = {b \in CH!Blocks : sums'[b] # -1}
      BY <1>3, <1>a, <1>c DEF CH!Live
    <3>3. \A b \in CH!Blocks : sums'[b] = IF b \in first THEN -1 ELSE sums[b]
      BY <1>g, <1>3
    <3> QED
      BY <3>1, <3>2, <3>3
  <2>3. Cardinality(CH!Live') = Cardinality(CH!Live) - Cardinality(CH!Live \cap first)
    BY <2>1, <2>2, FS_Difference
  <2>4. Cardinality(CH!Live \cap first) \in Nat
    <3>1. CH!Live \cap first \in SUBSET CH!Live
      OBVIOUS
    <3>2. IsFiniteSet(CH!Live \cap first)
      BY <2>1, <3>1, FS_Subset
    <3> QED
      BY <3>2, FS_CardinalityType
  <2>5. heap.blocks = Cardinality(CH!Live)
    BY <1>3, <1>t, ChCardinality DEF CH!HeapIsTheTable
  <2>6. /\ heap'.tables = heap.tables
        /\ heap'.blocks = Cardinality(CH!Live')
        /\ heap' \in [tables : Int, blocks : Int]
    <3> DEFINE x == heap.blocks - CH!Cardinality(first \cap CH!Live)
    <3>0. first \cap CH!Live = CH!Live \cap first
      OBVIOUS
    <3>a. CH!Cardinality(first \cap CH!Live) = Cardinality(CH!Live \cap first)
      BY <3>0, ChCardinality
    <3>1. x = Cardinality(CH!Live') /\ x \in Int
      BY <3>a, <2>1, <2>3, <2>4, <2>5
    <3>2. heap' = [heap EXCEPT !.blocks = x]
      BY <1>g, <1>3
    <3> HIDE DEF x
    <3> QED
      BY <3>1, <3>2, <1>b
  <2>7. CH!TypeOK'
    BY <2>6, <1>a, <1>b, <1>c, <1>d, <1>e, <1>h DEF CH!TypeOK
  <2>8. CH!TableConsistent'
    BY <2>6, <1>3, <1>a, <1>d, <1>f, <1>t, ChCardinality
    DEF CH!TableConsistent, CH!HeapIsTheTable, CH!OnlySearchUnchecked,
        CH!AnswerExists
  <2> QED
    BY <2>7, <2>8, <1>2 DEF CH!IInv
<1>4. CASE alloc = "STATIC"
  <2>1. CH!TypeOK'
    BY <1>4, <1>a, <1>b, <1>c, <1>d, <1>e, <1>g, <1>h DEF CH!TypeOK
  <2>2. CH!TableConsistent'
    BY <1>4, <1>a, <1>d, <1>f
    DEF CH!TableConsistent, CH!HeapIsTheTable, CH!OnlySearchUnchecked,
        CH!AnswerExists
  <2> QED
    BY <2>1, <2>2, <1>2 DEF CH!IInv
<1> QED
  BY <1>3, <1>4, <1>e

\* op_search_element only changes the answer, or ends outside the table.
LEMMA ChSearch ==
  ASSUME NEW k \in Nat, CH!IInv, CH!Search(k)
  PROVE  CH!IInv'
<1>t. CH!TypeOK /\ CH!Started /\ CH!HeapIsTheTable
  BY DEF CH!IInv, CH!TableConsistent
<1>a. /\ st = "run" /\ alloc' = alloc /\ blk_count' = blk_count
      /\ table' = table /\ sums' = sums /\ heap' = heap /\ dropped' = dropped
      /\ st' \in {"run", "undefined"}
  BY DEF CH!Search, CH!Operation
<1>b. blk_count \in Nat /\ \A b \in CH!Blocks : sums[b] \in Int
  BY <1>t DEF CH!TypeOK
<1>c. CH!Blocks' = CH!Blocks /\ CH!Live' = CH!Live
  BY <1>a DEF CH!Blocks, CH!Live
<1>1. CH!TypeOK'
  BY <1>a, <1>c, <1>t DEF CH!TypeOK
<1>2. CH!Started'
  BY <1>a, <1>t DEF CH!Started
<1>3. CH!HeapIsTheTable'
  BY <1>a, <1>c, <1>t DEF CH!HeapIsTheTable
<1>4. CASE k \in CH!Blocks
  <2> DEFINE start == (k + 1) % blk_count
  <2>1. /\ start \in CH!Blocks
        /\ CH!Nearest(k) = [index |-> start, difference |-> CH!Difference(k, start)]
    BY <1>4, <1>b, ChNearest
  <2> HIDE DEF start
  <2>2. /\ st' = "run"
        /\ found' = [blk_no |-> k, index |-> CH!Find(k).index,
                     difference |-> CH!Find(k).difference, valid |-> TRUE]
    BY <1>4, <1>a DEF CH!Search
  <2>3. /\ found'.blk_no = k /\ found'.index = CH!Find(k).index
        /\ found'.difference = CH!Find(k).difference
    BY <2>2
  <2>4. CASE alloc = "DYNAMIC" /\ -1 \in {sums[k], sums[start]}
    <3>1. CH!Find(k) = [index |-> k, difference |-> 0]
      BY <2>1, <2>4 DEF CH!Find
    <3>2. found'.index = k /\ found'.difference = 0
      BY <3>1, <2>3
    <3>3. CH!Abs(sums[k] - sums[k]) = 0
      BY <1>4, <1>b DEF CH!Abs
    <3>4. CH!AnswerExists'
      BY <3>2, <3>3, <2>3, <1>a, <1>c DEF CH!AnswerExists, CH!Abs
    <3> QED
      BY <3>4, <2>2, <1>1, <1>2, <1>3
      DEF CH!IInv, CH!TableConsistent, CH!OnlySearchUnchecked
  <2>5. CASE ~(alloc = "DYNAMIC" /\ -1 \in {sums[k], sums[start]})
    <3>1. CH!Find(k) = [index |-> start, difference |-> CH!Difference(k, start)]
      BY <2>1, <2>5 DEF CH!Find
    <3>2. found'.index = start /\ found'.difference = CH!Abs(sums[k] - sums[start])
      BY <3>1, <2>3 DEF CH!Difference
    <3>3. alloc # "DYNAMIC" => alloc = "STATIC"
      BY <1>a, <1>t DEF CH!TypeOK, CH!Started
    <3>4. k \in CH!Live /\ start \in CH!Live
      BY <3>3, <2>1, <2>5, <1>4 DEF CH!Live
    <3>5. CH!AnswerExists'
      BY <3>2, <3>4, <2>3, <1>a, <1>c DEF CH!AnswerExists, CH!Abs
    <3> QED
      BY <3>5, <2>2, <1>1, <1>2, <1>3
      DEF CH!IInv, CH!TableConsistent, CH!OnlySearchUnchecked
  <2> QED
    BY <2>4, <2>5
<1>5. CASE k \notin CH!Blocks
  <2>1. found' = [CH!NoResult EXCEPT !.blk_no = k]
    BY <1>5 DEF CH!Search
  <2>2. found'.blk_no = k /\ ~found'.valid
    BY <2>1 DEF CH!NoResult
  <2> QED
    BY <2>2, <1>1, <1>2, <1>3, <1>5, <1>c
    DEF CH!IInv, CH!TableConsistent, CH!OnlySearchUnchecked, CH!AnswerExists
<1> QED
  BY <1>4, <1>5

\* An operation that is refused changes nothing.
LEMMA ChFrame ==
  ASSUME CH!IInv, alloc' = alloc, st' = st, blk_count' = blk_count,
         table' = table, sums' = sums, heap' = heap, dropped' = dropped,
         found' = found
  PROVE  CH!IInv'
<1>t. CH!TypeOK /\ CH!Started /\ CH!TableConsistent
  BY DEF CH!IInv
<1>1. CH!Blocks' = CH!Blocks /\ CH!Live' = CH!Live
  BY DEF CH!Blocks, CH!Live
<1>2. CH!TypeOK' /\ CH!Started'
  BY <1>t, <1>1 DEF CH!TypeOK, CH!Started
<1>3. CH!TableConsistent'
  BY <1>t, <1>1 DEF CH!TableConsistent, CH!HeapIsTheTable,
     CH!OnlySearchUnchecked, CH!AnswerExists, CH!Abs
<1> QED
  BY <1>2, <1>3 DEF CH!IInv

\* TableConsistent (challoc.c, main.c): for any number of blocks, any sums and
\* any sequence of operations, with allocations that fail, the table, the
\* heap and the last answer fit together.
THEOREM TableAlwaysConsistent ==
  MaxBlocks \in Nat /\ Sums \subseteq Int => (CH!Spec => []TableConsistent)
<1> SUFFICES ASSUME MaxBlocks \in Nat, Sums \subseteq Int
             PROVE  CH!Spec => []TableConsistent
  OBVIOUS
<1>1. CH!IInv /\ [CH!Next]_(CH!vars) => CH!IInv'
  <2> SUFFICES ASSUME CH!IInv, [CH!Next]_(CH!vars) PROVE CH!IInv'
    OBVIOUS
  <2>1. CASE CH!ReadMode
    BY <2>1, ChReadMode
  <2>2. ASSUME NEW n \in 0 .. MaxBlocks,
               \/ CH!CreateTable(n) \/ CH!Add(n) \/ CH!Remove(n)
               \/ CH!RemoveAndAdd(n) \/ CH!TooManyTimes(n) \/ CH!Search(n)
        PROVE  CH!IInv'
    <3>0. n \in Nat
      OBVIOUS
    <3>1. CASE CH!CreateTable(n)
      BY <3>0, <3>1, ChCreate
    <3>2. CASE CH!Add(n)
      BY <3>0, <3>2, ChAdd
    <3>3. CASE CH!Remove(n)
      BY <3>0, <3>3, ChRemove
    <3>4. CASE CH!RemoveAndAdd(n)
      BY <3>0, <3>4, ChRemove DEF CH!RemoveAndAdd
    <3>5. CASE CH!TooManyTimes(n)
      <4>1. /\ alloc' = alloc /\ st' = st /\ blk_count' = blk_count
            /\ table' = table /\ sums' = sums /\ heap' = heap
            /\ dropped' = dropped /\ found' = found
        BY <3>5 DEF CH!TooManyTimes
      <4> QED
        BY <4>1, ChFrame
    <3>6. CASE CH!Search(n)
      BY <3>0, <3>6, ChSearch
    <3> QED
      BY <2>2, <3>1, <3>2, <3>3, <3>4, <3>5, <3>6
  <2>3. CASE UNCHANGED CH!vars
    <3>1. /\ alloc' = alloc /\ st' = st /\ blk_count' = blk_count
          /\ table' = table /\ sums' = sums /\ heap' = heap
          /\ dropped' = dropped /\ found' = found
      BY <2>3 DEF CH!vars
    <3> QED
      BY <3>1, ChFrame
  <2> QED
    BY <2>1, <2>2, <2>3 DEF CH!Next
<1>2. CH!Init => CH!IInv
  BY ChInit
<1>3. CH!IInv => TableConsistent
  BY DEF CH!IInv, TableConsistent
<1> QED
  BY <1>1, <1>2, <1>3, PTL DEF CH!Spec

-----------------------------------------------------------------------------
(***************************************************************************)
(* cw08: the image filter.                                                 *)
(***************************************************************************)

\* Products are monotonic.
LEMMA Products ==
  ASSUME NEW a \in Int, NEW b \in Int, NEW c \in Nat, a <= b
  PROVE  a * c <= b * c
<1>1. (b - a) * c >= 0
  <2>1. b - a \in Nat
    OBVIOUS
  <2> QED
    BY <2>1
<1> QED
  BY <1>1

\* Division with remainder.
LEMMA Division ==
  ASSUME NEW d \in Nat, NEW c \in Nat, c > 0
  PROVE  /\ d % c \in 0 .. c - 1 /\ d \div c \in Nat
         /\ d = (d \div c) * c + (d % c)
  OBVIOUS

\* The quotient is determined.
LEMMA Quotients ==
  ASSUME NEW c \in Nat, c > 0, NEW a \in Int, NEW b \in Int,
         NEW x \in 0 .. c - 1, NEW y \in 0 .. c - 1, a * c + x = b * c + y
  PROVE  a = b /\ x = y
<1>1. ~(a < b)
  <2> SUFFICES ASSUME a < b PROVE FALSE
    OBVIOUS
  <2>1. (a + 1) * c <= b * c
    BY Products
  <2> QED
    BY <2>1
<1>2. ~(b < a)
  <2> SUFFICES ASSUME b < a PROVE FALSE
    OBVIOUS
  <2>1. (b + 1) * c <= a * c
    BY Products
  <2> QED
    BY <2>1
<1> QED
  BY <1>1, <1>2

\* A thread's next pixel has the same remainder, and there is none of that
\* remainder in between.
LEMMA NextOfShare ==
  ASSUME NEW c \in Nat, c > 0, NEW p \in Nat
  PROVE  /\ (p + c) % c = p % c
         /\ \A d \in Nat : d % c = p % c /\ d < p + c => d <= p
         /\ p < c => p % c = p
<1>1. (p + c) % c = p % c
  <2>1. p + c \in Nat
    OBVIOUS
  <2>2. p + c = ((p + c) \div c) * c + ((p + c) % c) /\ (p + c) % c \in 0 .. c - 1
        /\ (p + c) \div c \in Nat
    BY <2>1, Division
  <2>3. p = (p \div c) * c + (p % c) /\ p % c \in 0 .. c - 1 /\ p \div c \in Nat
    BY Division
  <2>4. p + c = ((p \div c) + 1) * c + (p % c)
    BY <2>3
  <2> DEFINE a == (p + c) \div c
             b == (p \div c) + 1
             x == (p + c) % c
             y == p % c
  <2>5. /\ a \in Int /\ b \in Int /\ x \in 0 .. c - 1 /\ y \in 0 .. c - 1
        /\ a * c + x = b * c + y
    BY <2>2, <2>3, <2>4
  <2> HIDE DEF a, b, x, y
  <2>6. x = y
    BY <2>5, Quotients
  <2> QED
    BY <2>6 DEF x, y
<1>2. ASSUME NEW d \in Nat, d % c = p % c, d < p + c
      PROVE  d <= p
  <2>1. p = (p \div c) * c + (p % c) /\ p % c \in 0 .. c - 1 /\ p \div c \in Nat
    BY Division
  <2>2. d = (d \div c) * c + (p % c) /\ d \div c \in Nat
    BY <1>2, Division
  <2>3. ~(d \div c >= (p \div c) + 1)
    <3> SUFFICES ASSUME d \div c >= (p \div c) + 1 PROVE FALSE
      OBVIOUS
    <3>1. ((p \div c) + 1) * c <= (d \div c) * c
      BY <2>1, <2>2, Products
    <3> QED
      BY <3>1, <2>1, <2>2, <1>2
  <2>4. (d \div c) * c <= (p \div c) * c
    BY <2>1, <2>2, <2>3, Products
  <2> QED
    BY <2>1, <2>2, <2>4
<1>3. ASSUME p < c PROVE p % c = p
  <2>1. p = (p \div c) * c + (p % c) /\ p % c \in 0 .. c - 1 /\ p \div c \in Nat
    BY Division
  <2>2. p = 0 * c + p /\ p \in 0 .. c - 1
    BY <1>3
  <2> QED
    BY <2>1, <2>2, Quotients
<1> QED
  BY <1>1, <1>2, <1>3

\* Finiteness and cardinality mean the same in the instance.
LEMMA ImFinite ==
  ASSUME NEW S
  PROVE  IM!Cardinality(S) = Cardinality(S) /\ IM!IsFiniteSet(S) = IsFiniteSet(S)
  BY DEF IM!Cardinality, Cardinality, IM!IsFiniteSet, IsFiniteSet

LEMMA ImArgs ==
  ASSUME IM!TypeOK
  PROVE  /\ fargs.threads \in Int /\ fargs.width \in Nat /\ fargs.height \in Nat
         /\ fargs.size \in Nat /\ IM!pixel_count \in Nat
         /\ \A t \in IM!Threads : /\ t \in Nat /\ t < fargs.threads
                                  /\ fargs.threads \in Nat /\ fargs.threads > 0
<1>1. fargs \in IM!ArgumentType
  BY DEF IM!TypeOK
<1>2. /\ fargs.threads \in Int /\ fargs.width \in Nat /\ fargs.height \in Nat
      /\ fargs.size \in Nat
  BY <1>1 DEF IM!ArgumentType
<1>3. IM!pixel_count \in Nat
  BY <1>2 DEF IM!pixel_count
<1>4. \A t \in IM!Threads : /\ t \in Nat /\ t < fargs.threads
                            /\ fargs.threads \in Nat /\ fargs.threads > 0
  BY <1>2 DEF IM!Threads
<1> QED
  BY <1>2, <1>3, <1>4

\* A pixel is where its column and row say, and what apply_filter reads for
\* it is in the image.
LEMMA ImIndex ==
  ASSUME IM!TypeOK, NEW d \in Nat, d < IM!pixel_count
  PROVE  /\ IM!Index(IM!X(d), IM!Y(d)) = d
         /\ IM!FilterReads(IM!X(d), IM!Y(d)) \subseteq 0 .. IM!pixel_count - 1
<1> DEFINE w == fargs.width
           h == fargs.height
<1>1. /\ w \in Nat /\ h \in Nat /\ fargs.size \in Nat /\ IM!pixel_count = w * h
  BY ImArgs DEF IM!pixel_count
<1>2. w > 0 /\ h > 0
  <2>1. w # 0
    <3> SUFFICES ASSUME w = 0 PROVE FALSE
      OBVIOUS
    <3>1. w * h = 0
      BY <1>1
    <3> QED
      BY <1>1, <3>1
  <2>2. h # 0
    <3> SUFFICES ASSUME h = 0 PROVE FALSE
      OBVIOUS
    <3>1. w * h = 0
      BY <1>1
    <3> QED
      BY <1>1, <3>1
  <2> QED
    BY <1>1, <2>1, <2>2
<1> HIDE DEF w, h
<1>3. d % w \in 0 .. w - 1 /\ d \div w \in Nat /\ d = (d \div w) * w + (d % w)
  BY <1>1, <1>2, Division
<1>4. IM!Index(IM!X(d), IM!Y(d)) = d
  BY <1>3 DEF IM!Index, IM!X, IM!Y, w
<1>5. ASSUME NEW x \in 0 .. w - 1, NEW y \in 0 .. h - 1
      PROVE  IM!Index(x, y) \in 0 .. w * h - 1
  <2>1. y * w <= (h - 1) * w
    BY <1>1, Products
  <2>2. (h - 1) * w = w * h - w /\ w * h \in Nat /\ y * w \in Nat
    BY <1>1
  <2>3. y * w + x \in 0 .. w * h - 1
    BY <1>1, <1>2, <2>1, <2>2
  <2> QED
    BY <2>3 DEF IM!Index, w
<1>6. ASSUME NEW v \in Int, NEW b \in Nat, b > 0
      PROVE  IM!Clamp(v, b) \in 0 .. b - 1
  BY <1>6 DEF IM!Clamp
<1>7. IM!X(d) \in Int /\ IM!Y(d) \in Int /\ fargs.size \div 2 \in Int
  BY <1>1, <1>3 DEF IM!X, IM!Y, w
<1>8. ASSUME NEW p \in 0 .. fargs.size - 1, NEW q \in 0 .. fargs.size - 1
      PROVE  IM!Index(IM!Clamp(IM!X(d) - fargs.size \div 2 + p, fargs.width),
                      IM!Clamp(IM!Y(d) - fargs.size \div 2 + q, fargs.height))
               \in 0 .. w * h - 1
  <2>1. /\ IM!X(d) - fargs.size \div 2 + p \in Int
        /\ IM!Y(d) - fargs.size \div 2 + q \in Int
    BY <1>1, <1>7
  <2>2. /\ IM!Clamp(IM!X(d) - fargs.size \div 2 + p, w) \in 0 .. w - 1
        /\ IM!Clamp(IM!Y(d) - fargs.size \div 2 + q, h) \in 0 .. h - 1
    BY <2>1, <1>1, <1>2, <1>6
  <2> QED
    BY <2>2, <1>5 DEF w, h
<1>9. IM!FilterReads(IM!X(d), IM!Y(d)) \subseteq 0 .. IM!pixel_count - 1
  BY <1>1, <1>8 DEF IM!FilterReads
<1> QED
  BY <1>4, <1>9

\* The numbered pixels of the threads.
LEMMA ImPairs ==
  ASSUME NEW S, NEW f, NEW x
  PROVE  x \in UNION {{t} \X (1 .. f[t]) : t \in S}
           <=> \E t \in S : \E m \in 1 .. f[t] : x = <<t, m>>
<1>1. x \in UNION {{t} \X (1 .. f[t]) : t \in S}
        <=> \E t \in S : x \in {t} \X (1 .. f[t])
  OBVIOUS
<1>2. \A t : x \in {t} \X (1 .. f[t]) <=> \E m \in 1 .. f[t] : x = <<t, m>>
  OBVIOUS
<1> QED
  BY <1>1, <1>2

\* One pixel more of a thread.
LEMMA ImOneMore ==
  ASSUME NEW S, NEW f \in [S -> Nat], NEW t \in S, NEW g,
         g = [f EXCEPT ![t] = @ + 1],
         NEW A, A = UNION {{u} \X (1 .. f[u]) : u \in S},
         NEW B, B = UNION {{u} \X (1 .. g[u]) : u \in S}
  PROVE  B = A \cup {<<t, f[t] + 1>>} /\ <<t, f[t] + 1>> \notin A
<1>1. \A x : x \in A <=> \E u \in S : \E m \in 1 .. f[u] : x = <<u, m>>
  BY ImPairs
<1>2. \A x : x \in B <=> \E u \in S : \E m \in 1 .. g[u] : x = <<u, m>>
  BY ImPairs
<1>3. f[t] \in Nat /\ g[t] = f[t] + 1 /\ \A u \in S : u # t => g[u] = f[u]
  OBVIOUS
<1>4. 1 .. g[t] = (1 .. f[t]) \cup {f[t] + 1} /\ f[t] + 1 \notin 1 .. f[t]
  BY <1>3
<1>5. <<t, f[t] + 1>> \notin A
  BY <1>1, <1>4
<1>6. ASSUME NEW x PROVE x \in B <=> x \in A \cup {<<t, f[t] + 1>>}
  <2>1. ASSUME x \in B PROVE x \in A \cup {<<t, f[t] + 1>>}
    <3>0. PICK u \in S : \E m \in 1 .. g[u] : x = <<u, m>>
      BY <2>1, <1>2
    <3>1. PICK m \in 1 .. g[u] : x = <<u, m>>
      BY <3>0
    <3>2. CASE u = t
      BY <3>1, <3>2, <1>1, <1>4
    <3>3. CASE u # t
      BY <3>1, <3>3, <1>1, <1>3
    <3> QED
      BY <3>2, <3>3
  <2>2. ASSUME x \in A PROVE x \in B
    <3>0. PICK u \in S : \E m \in 1 .. f[u] : x = <<u, m>>
      BY <2>2, <1>1
    <3>1. PICK m \in 1 .. f[u] : x = <<u, m>>
      BY <3>0
    <3>2. m \in 1 .. g[u]
      <4>1. CASE u = t
        BY <3>1, <4>1, <1>4
      <4>2. CASE u # t
        BY <3>1, <4>2, <1>3
      <4> QED
        BY <4>1, <4>2
    <3> QED
      BY <3>1, <3>2, <1>2
  <2>3. <<t, f[t] + 1>> \in B
    BY <1>2, <1>4
  <2> QED
    BY <2>1, <2>2, <2>3
<1>7. B = A \cup {<<t, f[t] + 1>>}
  BY <1>6
<1> QED
  BY <1>5, <1>7

\* The pixels of a thread are reported.
LEMMA ImNoneLeft ==
  ASSUME NEW S, NEW f \in [S -> Nat], NEW t \in S, NEW g,
         g = [f EXCEPT ![t] = 0],
         NEW A, A = UNION {{u} \X (1 .. f[u]) : u \in S},
         NEW B, B = UNION {{u} \X (1 .. g[u]) : u \in S}
  PROVE  /\ B = A \ ({t} \X (1 .. f[t]))
         /\ ({t} \X (1 .. f[t])) \subseteq A
<1>0. PICK T : T = {t} \X (1 .. f[t])
  OBVIOUS
<1>1. \A x : x \in A <=> \E u \in S : \E m \in 1 .. f[u] : x = <<u, m>>
  BY ImPairs
<1>2. \A x : x \in B <=> \E u \in S : \E m \in 1 .. g[u] : x = <<u, m>>
  BY ImPairs
<1>3. f[t] \in Nat /\ g[t] = 0 /\ \A u \in S : u # t => g[u] = f[u]
  OBVIOUS
<1>4. 1 .. g[t] = {}
  BY <1>3
<1>5. \A x : x \in T <=> \E m \in 1 .. f[t] : x = <<t, m>>
  BY <1>0
<1>6. T \subseteq A
  BY <1>1, <1>5
<1>7. ASSUME NEW x PROVE x \in B <=> x \in A \ T
  <2>1. ASSUME x \in B PROVE x \in A \ T
    <3>0. PICK u \in S : \E m \in 1 .. g[u] : x = <<u, m>>
      BY <2>1, <1>2
    <3>1. PICK m \in 1 .. g[u] : x = <<u, m>>
      BY <3>0
    <3>2. u # t
      BY <3>1, <1>4
    <3>3. x \in A
      BY <3>1, <3>2, <1>1, <1>3
    <3>4. x \notin T
      BY <3>1, <3>2, <1>5
    <3> QED
      BY <3>3, <3>4
  <2>2. ASSUME x \in A, x \notin T PROVE x \in B
    <3>0. PICK u \in S : \E m \in 1 .. f[u] : x = <<u, m>>
      BY <2>2, <1>1
    <3>1. PICK m \in 1 .. f[u] : x = <<u, m>>
      BY <3>0
    <3>2. u # t
      BY <3>1, <2>2, <1>5
    <3> QED
      BY <3>1, <3>2, <1>2, <1>3
  <2> QED
    BY <2>1, <2>2
<1>8. B = A \ T
  BY <1>7
<1> QED
  BY <1>0, <1>6, <1>8

\* They are as many as it has counted.
LEMMA ImShare ==
  ASSUME NEW t, NEW n \in Nat
  PROVE  /\ IsFiniteSet({t} \X (1 .. n))
         /\ Cardinality({t} \X (1 .. n)) = n
<1>1. IsFiniteSet({t}) /\ Cardinality({t}) = 1
  BY FS_Singleton
<1>2. IsFiniteSet(1 .. n) /\ Cardinality(1 .. n) = n
  BY FS_Interval
<1>3. /\ IsFiniteSet({t} \X (1 .. n))
      /\ Cardinality({t} \X (1 .. n)) = Cardinality({t}) * Cardinality(1 .. n)
  BY <1>1, <1>2, FS_Product
<1> QED
  BY <1>1, <1>2, <1>3

\* There are no threads and no pixels at first.
LEMMA ImInit == IM!Init => IM!IInv
<1> SUFFICES ASSUME IM!Init PROVE IM!IInv
  OBVIOUS
<1>1. /\ fargs = [threads |-> 0, width |-> 0, height |-> 0, size |-> 0]
      /\ main = "start" /\ fi = 0 /\ th = <<>> /\ pixel = <<>>
      /\ processed = <<>> /\ seen = <<>> /\ pixels_processed = 0 /\ pp_sem = 1
      /\ out_image = <<>>
  BY DEF IM!Init, IM!NoArguments
<1>2. IM!Threads = {} /\ 0 .. IM!pixel_count - 1 = {} /\ DOMAIN out_image = {}
  BY <1>1 DEF IM!Threads, IM!pixel_count
<1>3. \A S : <<>> \in [{} -> S]
  OBVIOUS
<1>4. IM!TypeOK
  <2>1. fargs \in IM!ArgumentType
    BY <1>1 DEF IM!ArgumentType
  <2> QED
    BY <1>1, <1>2, <1>3, <2>1 DEF IM!TypeOK
<1>5. IM!MainInv /\ IM!SharesInv /\ IM!ImageInv /\ IM!SemInv
  BY <1>1, <1>2 DEF IM!MainInv, IM!SharesInv, IM!ImageInv, IM!SemInv
<1>6. IM!Unreported = {} /\ IM!Written = {}
  BY <1>2 DEF IM!Unreported, IM!Written
<1>7. IM!IsFiniteSet(IM!Unreported) /\ IM!ProgressExact
  BY <1>1, <1>6, ImFinite, FS_EmptySet DEF IM!ProgressExact
<1> QED
  BY <1>4, <1>5, <1>7 DEF IM!IInv

\* main reads the image; no thread has started.
LEMMA ImLoad ==
  ASSUME Arguments \subseteq IM!ArgumentType, IM!IInv,
         NEW a \in Arguments, IM!Load(a)
  PROVE  IM!IInv'
<1>t. IM!TypeOK /\ IM!MainInv
  BY DEF IM!IInv
<1>a. /\ main = "start" /\ fargs' = a /\ main' \in {"create", "failed"}
      /\ main' = "create" => ~(a.threads <= 0)
      /\ fi' = fi /\ pixels_processed' = pixels_processed /\ pp_sem' = pp_sem
  BY DEF IM!Load
<1>b. /\ out_image' = [d \in 0 .. a.width * a.height - 1 |-> 0]
      /\ th' = [t \in 0 .. a.threads - 1 |-> "none"]
      /\ pixel' = [t \in 0 .. a.threads - 1 |-> 0]
      /\ processed' = pixel' /\ seen' = pixel'
  BY DEF IM!Load
<1>c. /\ IM!Threads' = 0 .. a.threads - 1
      /\ IM!pixel_count' = a.width * a.height
  BY <1>a DEF IM!Threads, IM!pixel_count
<1>d. fi = 0 /\ pixels_processed = 0 /\ pp_sem = 1
  BY <1>a, <1>t DEF IM!MainInv
<1>e. a \in IM!ArgumentType /\ a.threads \in Int
  BY DEF IM!ArgumentType
<1> HIDE DEF IM!ArgumentType
<1>1. IM!TypeOK'
  <2>1. /\ th' \in [IM!Threads' -> {"none", "filter", "try", "read", "add",
                                    "post", "done"}]
        /\ pixel' \in [IM!Threads' -> Nat]
        /\ out_image' \in [0 .. IM!pixel_count' - 1 -> Nat]
    BY <1>b, <1>c
  <2> QED
    BY <2>1, <1>a, <1>b, <1>d, <1>e DEF IM!TypeOK
<1>2. \A t \in IM!Threads' : th'[t] = "none" /\ pixel'[t] = 0
  BY <1>b, <1>c
<1>3. DOMAIN out_image' = 0 .. a.width * a.height - 1
      /\ \A d \in DOMAIN out_image' : out_image'[d] = 0 /\ d \in Nat
  <2>1. a.width \in Nat /\ a.height \in Nat
    BY <1>e DEF IM!ArgumentType
  <2>2. a.width * a.height \in Nat
    BY <2>1
  <2> QED
    BY <2>2, <1>b
<1>4. IM!MainInv'
  BY <1>2, <1>a, <1>d, <1>e DEF IM!MainInv
<1>5. IM!SharesInv' /\ IM!SemInv'
  BY <1>2 DEF IM!SharesInv, IM!SemInv, IM!Reports
<1>6. IM!ImageInv'
  <2>1. ASSUME NEW d \in DOMAIN out_image', NEW t \in IM!Threads'
        PROVE  ~IM!Passed(t, d)'
    BY <1>2, <1>3 DEF IM!Passed
  <2>2. ASSUME NEW d \in DOMAIN out_image'
        PROVE  ~(\E t \in IM!Threads' : d % fargs'.threads = t /\ IM!Passed(t, d)')
    BY <2>1
  <2> QED
    BY <1>3, <2>2 DEF IM!ImageInv
<1>7. IM!Unreported' = {} /\ IM!Written' = {}
  <2>1. \A t \in IM!Threads' : processed'[t] = 0 /\ 1 .. processed'[t] = {}
    <3>1. processed' = pixel' /\ 1 .. 0 = {}
      BY <1>b
    <3>2. \A t \in IM!Threads' : processed'[t] = 0
      BY <3>1, <1>2
    <3> QED
      BY <3>1, <3>2
  <2>2. \A t \in IM!Threads' : {t} \X (1 .. processed'[t]) = {}
    BY <2>1
  <2>3. IM!Unreported' = UNION {{t} \X (1 .. processed'[t]) : t \in IM!Threads'}
    BY DEF IM!Unreported
  <2>4. IM!Unreported' = {}
    BY <2>2, <2>3
  <2> QED
    BY <2>4, <1>3 DEF IM!Written
<1>8. IM!IsFiniteSet(IM!Unreported') /\ IM!ProgressExact'
  BY <1>7, <1>a, <1>d, ImFinite, FS_EmptySet DEF IM!ProgressExact
<1> QED
  BY <1>1, <1>4, <1>5, <1>6, <1>8 DEF IM!IInv

\* A step that neither writes a pixel nor counts one.
LEMMA ImCounts ==
  ASSUME IM!IInv, fargs' = fargs, processed' = processed,
         pixels_processed' = pixels_processed, out_image' = out_image
  PROVE  IM!IsFiniteSet(IM!Unreported)' /\ IM!ProgressExact'
<1>1. IM!Unreported' = IM!Unreported /\ IM!Written' = IM!Written
  BY DEF IM!Unreported, IM!Threads, IM!Written
<1> QED
  BY <1>1, ImFinite DEF IM!IInv, IM!ProgressExact

\* main creates thread i: none of its pixels come before pixel i.
LEMMA ImCreate == ASSUME IM!IInv, IM!Create PROVE IM!IInv'
<1>t. IM!TypeOK /\ IM!MainInv /\ IM!SharesInv /\ IM!ImageInv /\ IM!SemInv
  BY DEF IM!IInv
<1>a. /\ main = "create" /\ th' = [th EXCEPT ![fi] = "filter"]
      /\ pixel' = [pixel EXCEPT ![fi] = fi]
      /\ \/ fi + 1 = fargs.threads /\ main' = "join" /\ fi' = 0
         \/ fi + 1 # fargs.threads /\ main' = "create" /\ fi' = fi + 1
      /\ fargs' = fargs /\ processed' = processed /\ seen' = seen
      /\ pixels_processed' = pixels_processed /\ pp_sem' = pp_sem
      /\ out_image' = out_image
  BY DEF IM!Create, IM!FirstPixel
<1>b. /\ fi \in Nat /\ fargs.threads \in Int /\ fargs.threads > 0
      /\ fi < fargs.threads
      /\ \A t \in IM!Threads : t >= fi => th[t] = "none"
  BY <1>a, <1>t, ImArgs DEF IM!MainInv, IM!TypeOK
<1>c. IM!Threads' = IM!Threads /\ IM!pixel_count' = IM!pixel_count
  BY <1>a DEF IM!Threads, IM!pixel_count
<1>d. fi \in IM!Threads /\ th[fi] = "none"
  BY <1>b DEF IM!Threads
<1>e. /\ th'[fi] = "filter" /\ pixel'[fi] = fi /\ pixel[fi] = 0
      /\ \A t \in IM!Threads : t # fi => th'[t] = th[t] /\ pixel'[t] = pixel[t]
  BY <1>a, <1>d, <1>t DEF IM!TypeOK, IM!SharesInv
<1>1. IM!TypeOK'
  <2>1. /\ th' \in [IM!Threads -> {"none", "filter", "try", "read", "add",
                                   "post", "done"}]
        /\ pixel' \in [IM!Threads -> Nat] /\ fi' \in Nat
    BY <1>a, <1>b, <1>d, <1>t DEF IM!TypeOK
  <2> QED
    BY <2>1, <1>a, <1>c, <1>t DEF IM!TypeOK
<1>2. IM!MainInv'
  <2>0. \A t \in IM!Threads : t \in Nat
    BY <1>b DEF IM!Threads
  <2>1. CASE main' = "join"
    <3>1. fi' = 0 /\ \A t \in IM!Threads : ~(t < fi')
      BY <2>0, <2>1, <1>a
    <3> QED
      BY <3>1, <2>1, <1>a, <1>b, <1>c DEF IM!MainInv
  <2>2. CASE main' = "create"
    <3>1. /\ fi' = fi + 1 /\ fi' < fargs.threads
          /\ \A t \in IM!Threads : t >= fi' => t >= fi /\ t # fi
      BY <2>0, <2>2, <1>a, <1>b
    <3>2. \A t \in IM!Threads : t >= fi' => th'[t] = "none"
      BY <3>1, <1>b, <1>e
    <3> QED
      BY <3>1, <3>2, <2>2, <1>a, <1>b, <1>c DEF IM!MainInv
  <2> QED
    BY <2>1, <2>2, <1>a
<1>3. IM!SharesInv'
  <2>1. fi % fargs.threads = fi
    <3>1. fargs.threads \in Nat
      BY <1>b
    <3> QED
      BY <3>1, <1>b, NextOfShare
  <2>2. ASSUME NEW t \in IM!Threads'
        PROVE  /\ IF th'[t] = "none" THEN pixel'[t] = 0
                  ELSE pixel'[t] % fargs'.threads = t
               /\ th'[t] = "done" => pixel'[t] >= IM!pixel_count'
    <3>1. CASE t = fi
      BY <3>1, <2>1, <1>e, <1>a
    <3>2. CASE t # fi
      <4>1. /\ IF th[t] = "none" THEN pixel[t] = 0
               ELSE pixel[t] % fargs.threads = t
            /\ th[t] = "done" => pixel[t] >= IM!pixel_count
        BY <1>t, <1>c DEF IM!SharesInv
      <4> QED
        BY <4>1, <3>2, <1>e, <1>a, <1>c
    <3> QED
      BY <3>1, <3>2
  <2> QED
    BY <2>2 DEF IM!SharesInv
<1>4. IM!ImageInv'
  <2>1. ASSUME NEW d \in DOMAIN out_image, NEW t \in IM!Threads,
               d % fargs.threads = t
        PROVE  IM!Passed(t, d)' <=> IM!Passed(t, d)
    <3>0. d \in Nat
      BY <1>t, ImArgs DEF IM!TypeOK
    <3>1. CASE t = fi
      <4>1. ~(d < fi)
        <5> SUFFICES ASSUME d < fi PROVE FALSE
          OBVIOUS
        <5>1. d < fargs.threads /\ fargs.threads \in Nat
          BY <3>0, <1>b
        <5>2. d % fargs.threads = d
          BY <5>1, <3>0, <1>b, NextOfShare
        <5> QED
          BY <5>2, <2>1, <3>0, <3>1, <1>b
      <4>2. ~(d < 0)
        BY <3>0
      <4> QED
        BY <4>1, <4>2, <3>1, <1>d, <1>e DEF IM!Passed
    <3>2. CASE t # fi
      BY <3>2, <1>e DEF IM!Passed
    <3> QED
      BY <3>1, <3>2
  <2> QED
    BY <2>1, <1>a, <1>c, <1>t DEF IM!ImageInv
<1>5. IM!SemInv'
  <2>1. \A t \in IM!Threads : IM!Reports(t)' => IM!Reports(t) /\ t # fi
    BY <1>e DEF IM!Reports
  <2>2. \A t \in IM!Threads : th'[t] = "add" => th[t] = "add"
    BY <1>e
  <2> QED
    BY <2>1, <2>2, <1>a, <1>c, <1>t DEF IM!SemInv
<1>6. IM!IsFiniteSet(IM!Unreported)' /\ IM!ProgressExact'
  BY <1>a, ImCounts
<1> QED
  BY <1>1, <1>2, <1>3, <1>4, <1>5, <1>6 DEF IM!IInv

\* main joins the threads and saves.
LEMMA ImMain == ASSUME IM!IInv, IM!Join \/ IM!Save PROVE IM!IInv'
<1>t. IM!TypeOK /\ IM!MainInv /\ IM!SharesInv /\ IM!ImageInv /\ IM!SemInv
  BY DEF IM!IInv
<1>a. /\ fargs' = fargs /\ processed' = processed /\ seen' = seen
      /\ pixels_processed' = pixels_processed /\ pp_sem' = pp_sem
      /\ out_image' = out_image /\ th' = th /\ pixel' = pixel
  BY DEF IM!Join, IM!Save, IM!locals
<1>b. fi \in Nat /\ fargs.threads \in Int /\ \A t \in IM!Threads : t \in Nat
  BY <1>t, ImArgs DEF IM!TypeOK
<1>c. IM!Threads' = IM!Threads /\ IM!pixel_count' = IM!pixel_count
  BY <1>a DEF IM!Threads, IM!pixel_count
<1>1. fi' \in Nat /\ main' \in {"join", "save", "saved", "failed"} /\ IM!MainInv'
  <2>1. CASE IM!Join
    <3>1. /\ main = "join" /\ th[fi] = "done" /\ fargs.threads > 0
          /\ fi < fargs.threads
          /\ \A t \in IM!Threads : t < fi => th[t] = "done"
      BY <2>1, <1>t DEF IM!Join, IM!MainInv
    <3>2. \A t \in IM!Threads : t < fi + 1 => th[t] = "done"
      <4>1. \A t \in IM!Threads : t < fi + 1 => t < fi \/ t = fi
        BY <1>b
      <4> QED
        BY <4>1, <3>1
    <3>3. CASE fi + 1 = fargs.threads
      <4>1. main' = "save" /\ fi' = fi
        BY <2>1, <3>3 DEF IM!Join
      <4>2. \A t \in IM!Threads : t < fi + 1
        BY <3>3, <1>b DEF IM!Threads
      <4> QED
        BY <4>1, <4>2, <3>1, <3>2, <1>a, <1>b, <1>c DEF IM!MainInv
    <3>4. CASE fi + 1 # fargs.threads
      <4>1. main' = "join" /\ fi' = fi + 1 /\ fi + 1 < fargs.threads
        BY <2>1, <3>1, <3>4, <1>b DEF IM!Join
      <4> QED
        BY <4>1, <3>1, <3>2, <1>a, <1>b, <1>c DEF IM!MainInv
    <3> QED
      BY <3>3, <3>4
  <2>2. CASE IM!Save
    <3>1. main' \in {"saved", "failed"} /\ fi' = fi
      BY <2>2 DEF IM!Save
    <3> QED
      BY <3>1, <1>b DEF IM!MainInv
  <2> QED
    BY <2>1, <2>2
<1>2. IM!TypeOK'
  BY <1>1, <1>a, <1>c, <1>t DEF IM!TypeOK
<1>3. IM!SharesInv' /\ IM!ImageInv' /\ IM!SemInv'
  BY <1>a, <1>c, <1>t DEF IM!SharesInv, IM!ImageInv, IM!SemInv, IM!Passed,
                          IM!Reports
<1>4. IM!IsFiniteSet(IM!Unreported)' /\ IM!ProgressExact'
  BY <1>a, ImCounts
<1> QED
  BY <1>1, <1>2, <1>3, <1>4 DEF IM!IInv

\* What a step of thread t may rely on, and what it leaves to main.
LEMMA ImThread ==
  ASSUME IM!IInv, NEW t \in IM!Threads, th[t] \notin {"none", "done"},
         NEW s \in {"filter", "try", "read", "add", "post", "done"},
         th' = [th EXCEPT ![t] = s], fargs' = fargs, main' = main, fi' = fi
  PROVE  /\ IM!MainInv'
         /\ IM!Threads' = IM!Threads /\ IM!pixel_count' = IM!pixel_count
         /\ th' \in [IM!Threads -> {"none", "filter", "try", "read", "add",
                                    "post", "done"}]
         /\ th'[t] = s /\ \A u \in IM!Threads : u # t => th'[u] = th[u]
         /\ fargs.threads \in Nat /\ fargs.threads > 0 /\ t \in Nat
         /\ t < fargs.threads
         /\ pixel \in [IM!Threads -> Nat] /\ processed \in [IM!Threads -> Nat]
         /\ seen \in [IM!Threads -> Nat] /\ pixel[t] \in Nat
         /\ pixels_processed \in Nat /\ pp_sem \in {0, 1}
         /\ DOMAIN out_image = 0 .. IM!pixel_count - 1 /\ IM!pixel_count \in Nat
         /\ out_image \in [0 .. IM!pixel_count - 1 -> Nat]
<1>t. IM!TypeOK /\ IM!MainInv
  BY DEF IM!IInv
<1>1. IM!Threads' = IM!Threads /\ IM!pixel_count' = IM!pixel_count
  BY DEF IM!Threads, IM!pixel_count
<1>2. /\ pixel \in [IM!Threads -> Nat] /\ processed \in [IM!Threads -> Nat]
      /\ seen \in [IM!Threads -> Nat] /\ pixels_processed \in Nat
      /\ pp_sem \in {0, 1} /\ DOMAIN out_image = 0 .. IM!pixel_count - 1
      /\ out_image \in [0 .. IM!pixel_count - 1 -> Nat] /\ fi \in Nat
      /\ th \in [IM!Threads -> {"none", "filter", "try", "read", "add", "post",
                                "done"}]
  BY <1>t DEF IM!TypeOK
<1>3. /\ th' \in [IM!Threads -> {"none", "filter", "try", "read", "add", "post",
                                 "done"}]
      /\ th'[t] = s /\ \A u \in IM!Threads : u # t => th'[u] = th[u]
  BY <1>2
<1>4. /\ fargs.threads \in Nat /\ fargs.threads > 0 /\ t \in Nat
      /\ t < fargs.threads /\ IM!pixel_count \in Nat
      /\ \A u \in IM!Threads : u \in Nat
  BY <1>t, ImArgs
<1>5. IM!MainInv'
  <2>1. main # "start" /\ main # "save"
    BY <1>t, <1>4 DEF IM!MainInv
  <2>2. main = "create" => \A u \in IM!Threads : u >= fi => th'[u] = "none"
    <3> SUFFICES ASSUME main = "create", NEW u \in IM!Threads, u >= fi
                 PROVE  th'[u] = "none"
      OBVIOUS
    <3>1. th[u] = "none"
      BY <1>t DEF IM!MainInv
    <3> QED
      BY <3>1, <1>3
  <2>3. main = "join" => \A u \in IM!Threads : u < fi => th'[u] = "done"
    <3> SUFFICES ASSUME main = "join", NEW u \in IM!Threads, u < fi
                 PROVE  th'[u] = "done"
      OBVIOUS
    <3>1. th[u] = "done"
      BY <1>t DEF IM!MainInv
    <3> QED
      BY <3>1, <1>3
  <2> QED
    BY <2>1, <2>2, <2>3, <1>1, <1>t DEF IM!MainInv
<1> QED
  BY <1>1, <1>2, <1>3, <1>4, <1>5

\* The shares when thread t writes no pixel: it stays at its pixel, or it
\* goes on to the next from one that it has written.
LEMMA ImMoves ==
  ASSUME IM!IInv, NEW t \in IM!Threads, th[t] \notin {"none", "done"},
         NEW s \in {"filter", "try", "read", "add", "post", "done"},
         th' = [th EXCEPT ![t] = s], fargs' = fargs, main' = main, fi' = fi,
         out_image' = out_image,
         \/ /\ pixel' = pixel
            /\ s \in {"try", "read", "add", "post"}
                 <=> th[t] \in {"try", "read", "add", "post"}
            /\ s = "done" => pixel[t] >= IM!pixel_count
         \/ /\ pixel' = [pixel EXCEPT ![t] = @ + fargs.threads]
            /\ s = "filter" /\ th[t] \in {"try", "read", "add", "post"}
  PROVE  IM!SharesInv' /\ IM!ImageInv' /\ pixel' \in [IM!Threads -> Nat]
<1>t. IM!TypeOK /\ IM!SharesInv /\ IM!ImageInv
  BY DEF IM!IInv
<1>k. /\ IM!Threads' = IM!Threads /\ IM!pixel_count' = IM!pixel_count
      /\ th'[t] = s /\ \A u \in IM!Threads : u # t => th'[u] = th[u]
      /\ fargs.threads \in Nat /\ fargs.threads > 0 /\ t \in Nat
      /\ pixel \in [IM!Threads -> Nat] /\ pixel[t] \in Nat
      /\ DOMAIN out_image = 0 .. IM!pixel_count - 1 /\ IM!pixel_count \in Nat
  BY ImThread
<1>p. pixel[t] % fargs.threads = t
  BY <1>t DEF IM!SharesInv
<1>q. /\ (pixel[t] + fargs.threads) % fargs.threads = t
      /\ \A d \in Nat : d % fargs.threads = t /\ d < pixel[t] + fargs.threads =>
           d <= pixel[t]
  BY <1>k, <1>p, NextOfShare
<1>1. /\ pixel' \in [IM!Threads -> Nat]
      /\ \A u \in IM!Threads : u # t => pixel'[u] = pixel[u]
      /\ pixel'[t] % fargs.threads = t /\ pixel'[t] \in Nat
      /\ s = "done" => pixel'[t] >= IM!pixel_count
  <2>1. CASE pixel' = pixel
    BY <2>1, <1>k, <1>p
  <2>2. CASE pixel' # pixel
    <3>1. pixel' = [pixel EXCEPT ![t] = @ + fargs.threads] /\ s = "filter"
      BY <2>2
    <3>2. /\ pixel'[t] = pixel[t] + fargs.threads
          /\ \A u \in IM!Threads : u # t => pixel'[u] = pixel[u]
          /\ pixel' \in [IM!Threads -> Nat]
      BY <3>1, <1>k
    <3>3. pixel'[t] % fargs.threads = t
      BY <3>2, <1>q
    <3> QED
      BY <3>1, <3>2, <3>3
  <2> QED
    BY <2>1, <2>2
<1>2. IM!SharesInv'
  <2>1. ASSUME NEW u \in IM!Threads
        PROVE  /\ IF th'[u] = "none" THEN pixel'[u] = 0
                  ELSE pixel'[u] % fargs.threads = u
               /\ th'[u] = "done" => pixel'[u] >= IM!pixel_count
    <3>1. CASE u = t
      BY <3>1, <1>1, <1>k
    <3>2. CASE u # t
      <4>1. /\ IF th[u] = "none" THEN pixel[u] = 0
               ELSE pixel[u] % fargs.threads = u
            /\ th[u] = "done" => pixel[u] >= IM!pixel_count
        BY <1>t DEF IM!SharesInv
      <4> QED
        BY <4>1, <3>2, <1>1, <1>k
    <3> QED
      BY <3>1, <3>2
  <2> QED
    BY <2>1, <1>k DEF IM!SharesInv
<1>3. ASSUME NEW d \in DOMAIN out_image, NEW u \in IM!Threads,
             d % fargs.threads = u
      PROVE  IM!Passed(u, d)' <=> IM!Passed(u, d)
  <2>0. d \in Nat
    BY <1>k
  <2>1. CASE u = t
    <3>1. CASE pixel' = pixel
      <4>1. s \in {"try", "read", "add", "post"}
              <=> th[t] \in {"try", "read", "add", "post"}
        <5>1. pixel # [pixel EXCEPT ![t] = @ + fargs.threads]
          BY <1>k
        <5> QED
          BY <3>1, <5>1
      <4> QED
        BY <2>1, <3>1, <4>1, <1>k DEF IM!Passed
    <3>2. CASE pixel' # pixel
      <4>1. /\ s = "filter" /\ th[t] \in {"try", "read", "add", "post"}
            /\ pixel'[t] = pixel[t] + fargs.threads
        BY <3>2, <1>k
      <4>2. d < pixel[t] + fargs.threads <=> d < pixel[t] \/ d = pixel[t]
        BY <1>q, <1>3, <2>0, <2>1, <1>k
      <4> QED
        BY <2>1, <4>1, <4>2, <1>k DEF IM!Passed
    <3> QED
      BY <3>1, <3>2
  <2>2. CASE u # t
    BY <2>2, <1>1, <1>k DEF IM!Passed
  <2> QED
    BY <2>1, <2>2
<1>4. IM!ImageInv'
  BY <1>3, <1>k, <1>t DEF IM!ImageInv
<1> QED
  BY <1>1, <1>2, <1>4

\* sem_trywait: the semaphore is free when nobody reports.
LEMMA ImTry ==
  ASSUME IM!IInv, NEW t \in IM!Threads, IM!Try(t)
  PROVE  IM!IInv'
<1>t. IM!TypeOK /\ IM!SemInv
  BY DEF IM!IInv
<1>a. /\ th[t] = "try" /\ fargs' = fargs /\ main' = main /\ fi' = fi
      /\ processed' = processed /\ seen' = seen
      /\ pixels_processed' = pixels_processed /\ out_image' = out_image
  BY DEF IM!Try
<1>b. pp_sem \in {0, 1}
  BY <1>t DEF IM!TypeOK
<1>1. CASE pp_sem > 0
  <2>1. pp_sem' = 0 /\ th' = [th EXCEPT ![t] = "read"] /\ pixel' = pixel
    BY <1>1, <1>b DEF IM!Try, IM!sem_trywait
  <2>2. /\ IM!MainInv' /\ IM!Threads' = IM!Threads
        /\ IM!pixel_count' = IM!pixel_count
        /\ th' \in [IM!Threads -> {"none", "filter", "try", "read", "add",
                                   "post", "done"}]
        /\ th'[t] = "read" /\ \A u \in IM!Threads : u # t => th'[u] = th[u]
    BY <2>1, <1>a, ImThread
  <2>3. IM!SharesInv' /\ IM!ImageInv'
    BY <2>1, <1>a, ImMoves
  <2>4. IM!TypeOK'
    BY <2>1, <2>2, <1>a, <1>t DEF IM!TypeOK
  <2>5. IM!SemInv'
    <3>1. \A u \in IM!Threads : ~IM!Reports(u)
      BY <1>1, <1>b, <1>t DEF IM!SemInv
    <3>2. \A u \in IM!Threads : IM!Reports(u)' => u = t
      BY <3>1, <2>2 DEF IM!Reports
    <3>3. \A u \in IM!Threads : th'[u] # "add"
      BY <3>1, <2>2 DEF IM!Reports
    <3> QED
      BY <3>2, <3>3, <2>1, <2>2 DEF IM!SemInv
  <2>6. IM!IsFiniteSet(IM!Unreported)' /\ IM!ProgressExact'
    BY <1>a, ImCounts
  <2> QED
    BY <2>2, <2>3, <2>4, <2>5, <2>6 DEF IM!IInv
<1>2. CASE ~(pp_sem > 0)
  <2>1. /\ pp_sem' = pp_sem /\ th' = [th EXCEPT ![t] = "filter"]
        /\ pixel' = [pixel EXCEPT ![t] = @ + fargs.threads]
    BY <1>2 DEF IM!Try, IM!sem_trywait
  <2>2. /\ IM!MainInv' /\ IM!Threads' = IM!Threads
        /\ IM!pixel_count' = IM!pixel_count
        /\ th' \in [IM!Threads -> {"none", "filter", "try", "read", "add",
                                   "post", "done"}]
        /\ th'[t] = "filter" /\ \A u \in IM!Threads : u # t => th'[u] = th[u]
    BY <2>1, <1>a, ImThread
  <2>3. IM!SharesInv' /\ IM!ImageInv' /\ pixel' \in [IM!Threads -> Nat]
    BY <2>1, <1>a, ImMoves
  <2>4. IM!TypeOK'
    BY <2>1, <2>2, <2>3, <1>a, <1>t DEF IM!TypeOK
  <2>5. IM!SemInv'
    <3>1. \A u \in IM!Threads : IM!Reports(u)' => IM!Reports(u)
      BY <2>2 DEF IM!Reports
    <3>2. \A u \in IM!Threads : th'[u] = "add" => th[u] = "add"
      BY <2>2
    <3> QED
      BY <3>1, <3>2, <2>1, <2>2, <1>a, <1>t DEF IM!SemInv
  <2>6. IM!IsFiniteSet(IM!Unreported)' /\ IM!ProgressExact'
    BY <1>a, ImCounts
  <2> QED
    BY <2>2, <2>3, <2>4, <2>5, <2>6 DEF IM!IInv
<1> QED
  BY <1>1, <1>2

\* The progress is read.
LEMMA ImRead ==
  ASSUME IM!IInv, NEW t \in IM!Threads, IM!ReadProcessed(t)
  PROVE  IM!IInv'
<1>t. IM!TypeOK /\ IM!SemInv
  BY DEF IM!IInv
<1>a. /\ th[t] = "read" /\ fargs' = fargs /\ main' = main /\ fi' = fi
      /\ processed' = processed /\ seen' = [seen EXCEPT ![t] = pixels_processed]
      /\ pixels_processed' = pixels_processed /\ out_image' = out_image
      /\ pp_sem' = pp_sem /\ th' = [th EXCEPT ![t] = "add"] /\ pixel' = pixel
  BY DEF IM!ReadProcessed
<1>1. /\ IM!MainInv' /\ IM!Threads' = IM!Threads
      /\ IM!pixel_count' = IM!pixel_count
      /\ th' \in [IM!Threads -> {"none", "filter", "try", "read", "add",
                                 "post", "done"}]
      /\ th'[t] = "add" /\ \A u \in IM!Threads : u # t => th'[u] = th[u]
      /\ seen \in [IM!Threads -> Nat] /\ pixels_processed \in Nat
  BY <1>a, ImThread
<1>2. IM!SharesInv' /\ IM!ImageInv'
  BY <1>a, ImMoves
<1>3. seen' \in [IM!Threads -> Nat] /\ seen'[t] = pixels_processed
      /\ \A u \in IM!Threads : u # t => seen'[u] = seen[u]
  BY <1>a, <1>1
<1>4. IM!TypeOK'
  BY <1>1, <1>3, <1>a, <1>t DEF IM!TypeOK
<1>5. IM!SemInv'
  <2>1. \A u \in IM!Threads : IM!Reports(u)' <=> IM!Reports(u)
    BY <1>1, <1>a DEF IM!Reports
  <2>2. \A u \in IM!Threads : th'[u] = "add" => seen'[u] = pixels_processed'
    <3> SUFFICES ASSUME NEW u \in IM!Threads, th'[u] = "add"
                 PROVE  seen'[u] = pixels_processed
      BY <1>a
    <3>1. CASE u = t
      BY <3>1, <1>3
    <3>2. CASE u # t
      BY <3>2, <1>1, <1>3, <1>t DEF IM!SemInv
    <3> QED
      BY <3>1, <3>2
  <2> QED
    BY <2>1, <2>2, <1>1, <1>a, <1>t DEF IM!SemInv
<1>6. IM!IsFiniteSet(IM!Unreported)' /\ IM!ProgressExact'
  BY <1>a, ImCounts
<1> QED
  BY <1>1, <1>2, <1>4, <1>5, <1>6 DEF IM!IInv

\* The semaphore is given back and the thread goes on.
LEMMA ImPost ==
  ASSUME IM!IInv, NEW t \in IM!Threads, IM!Post(t)
  PROVE  IM!IInv'
<1>t. IM!TypeOK /\ IM!SemInv
  BY DEF IM!IInv
<1>a. /\ th[t] = "post" /\ fargs' = fargs /\ main' = main /\ fi' = fi
      /\ processed' = processed /\ seen' = [seen EXCEPT ![t] = 0]
      /\ pixels_processed' = pixels_processed /\ out_image' = out_image
      /\ pp_sem' = pp_sem + 1 /\ th' = [th EXCEPT ![t] = "filter"]
      /\ pixel' = [pixel EXCEPT ![t] = @ + fargs.threads]
  BY DEF IM!Post
<1>1. /\ IM!MainInv' /\ IM!Threads' = IM!Threads
      /\ IM!pixel_count' = IM!pixel_count
      /\ th' \in [IM!Threads -> {"none", "filter", "try", "read", "add",
                                 "post", "done"}]
      /\ th'[t] = "filter" /\ \A u \in IM!Threads : u # t => th'[u] = th[u]
      /\ seen \in [IM!Threads -> Nat]
  BY <1>a, ImThread
<1>2. IM!SharesInv' /\ IM!ImageInv' /\ pixel' \in [IM!Threads -> Nat]
  BY <1>a, ImMoves
<1>3. IM!Reports(t) /\ pp_sem = 0
  BY <1>a, <1>t DEF IM!Reports, IM!SemInv
<1>4. seen' \in [IM!Threads -> Nat]
      /\ \A u \in IM!Threads : u # t => seen'[u] = seen[u]
  BY <1>a, <1>1
<1>5. IM!TypeOK'
  <2>1. pp_sem' \in {0, 1}
    BY <1>a, <1>3
  <2> QED
    BY <2>1, <1>1, <1>2, <1>4, <1>a, <1>t DEF IM!TypeOK
<1>6. IM!SemInv'
  <2>1. \A u \in IM!Threads : ~IM!Reports(u)'
    <3> SUFFICES ASSUME NEW u \in IM!Threads, IM!Reports(u)' PROVE FALSE
      OBVIOUS
    <3>1. u # t /\ IM!Reports(u)
      BY <1>1 DEF IM!Reports
    <3> QED
      BY <3>1, <1>3, <1>t DEF IM!SemInv
  <2>2. \A u \in IM!Threads : th'[u] # "add"
    BY <2>1 DEF IM!Reports
  <2> QED
    BY <2>1, <2>2, <1>1 DEF IM!SemInv
<1>7. IM!IsFiniteSet(IM!Unreported)' /\ IM!ProgressExact'
  BY <1>a, ImCounts
<1> QED
  BY <1>1, <1>2, <1>5, <1>6, <1>7 DEF IM!IInv

\* A thread ends behind its last pixel.
LEMMA ImReturn ==
  ASSUME IM!IInv, NEW t \in IM!Threads, IM!Return(t)
  PROVE  IM!IInv'
<1>t. IM!TypeOK /\ IM!SemInv
  BY DEF IM!IInv
<1>a. /\ th[t] = "filter" /\ fargs' = fargs /\ main' = main /\ fi' = fi
      /\ processed' = processed /\ seen' = seen
      /\ pixels_processed' = pixels_processed /\ out_image' = out_image
      /\ pp_sem' = pp_sem /\ th' = [th EXCEPT ![t] = "done"] /\ pixel' = pixel
      /\ pixel[t] >= IM!pixel_count
  BY DEF IM!Return
<1>1. /\ IM!MainInv' /\ IM!Threads' = IM!Threads
      /\ IM!pixel_count' = IM!pixel_count
      /\ th' \in [IM!Threads -> {"none", "filter", "try", "read", "add",
                                 "post", "done"}]
      /\ th'[t] = "done" /\ \A u \in IM!Threads : u # t => th'[u] = th[u]
  BY <1>a, ImThread
<1>2. IM!SharesInv' /\ IM!ImageInv'
  BY <1>a, ImMoves
<1>3. IM!TypeOK'
  BY <1>1, <1>a, <1>t DEF IM!TypeOK
<1>4. IM!SemInv'
  <2>1. \A u \in IM!Threads : IM!Reports(u)' => IM!Reports(u)
    BY <1>1 DEF IM!Reports
  <2>2. \A u \in IM!Threads : th'[u] = "add" => th[u] = "add"
    BY <1>1
  <2> QED
    BY <2>1, <2>2, <1>1, <1>a, <1>t DEF IM!SemInv
<1>5. IM!IsFiniteSet(IM!Unreported)' /\ IM!ProgressExact'
  BY <1>a, ImCounts
<1> QED
  BY <1>1, <1>2, <1>3, <1>4, <1>5 DEF IM!IInv

\* The progress that was read is still the progress: the thread's pixels are
\* added to it.
LEMMA ImAdd ==
  ASSUME IM!IInv, NEW t \in IM!Threads, IM!AddProcessed(t)
  PROVE  IM!IInv'
<1>t. /\ IM!TypeOK /\ IM!SemInv /\ IM!IsFiniteSet(IM!Unreported)
      /\ IM!ProgressExact
  BY DEF IM!IInv
<1>a. /\ th[t] = "add" /\ fargs' = fargs /\ main' = main /\ fi' = fi
      /\ processed' = [processed EXCEPT ![t] = 0] /\ seen' = seen
      /\ pixels_processed' = seen[t] + processed[t] /\ out_image' = out_image
      /\ pp_sem' = pp_sem /\ th' = [th EXCEPT ![t] = "post"] /\ pixel' = pixel
  BY DEF IM!AddProcessed
<1>1. /\ IM!MainInv' /\ IM!Threads' = IM!Threads
      /\ IM!pixel_count' = IM!pixel_count
      /\ th' \in [IM!Threads -> {"none", "filter", "try", "read", "add",
                                 "post", "done"}]
      /\ th'[t] = "post" /\ \A u \in IM!Threads : u # t => th'[u] = th[u]
      /\ processed \in [IM!Threads -> Nat] /\ pixels_processed \in Nat
  BY <1>a, ImThread
<1>2. IM!SharesInv' /\ IM!ImageInv'
  BY <1>a, ImMoves
<1>3. /\ pixels_processed' = pixels_processed + processed[t]
      /\ processed[t] \in Nat /\ pixels_processed' \in Nat
      /\ processed' \in [IM!Threads -> Nat]
  <2>1. seen[t] = pixels_processed
    BY <1>a, <1>t DEF IM!SemInv
  <2> QED
    BY <2>1, <1>a, <1>1
<1>4. IM!TypeOK'
  BY <1>1, <1>3, <1>a, <1>t DEF IM!TypeOK
<1>5. IM!SemInv'
  <2>1. \A u \in IM!Threads : IM!Reports(u)' <=> IM!Reports(u)
    BY <1>1, <1>a DEF IM!Reports
  <2>2. \A u \in IM!Threads : th'[u] # "add"
    <3> SUFFICES ASSUME NEW u \in IM!Threads, th'[u] = "add" PROVE FALSE
      OBVIOUS
    <3>1. u # t /\ th[u] = "add"
      BY <1>1
    <3>2. IM!Reports(u) /\ IM!Reports(t)
      BY <3>1, <1>a DEF IM!Reports
    <3> QED
      BY <3>1, <3>2, <1>t DEF IM!SemInv
  <2> QED
    BY <2>1, <2>2, <1>1, <1>a, <1>t DEF IM!SemInv
<1>6. IM!IsFiniteSet(IM!Unreported)' /\ IM!ProgressExact'
  <2> DEFINE A == IM!Unreported
             B == IM!Unreported'
  <2>1. /\ A = UNION {{u} \X (1 .. processed[u]) : u \in IM!Threads}
        /\ B = UNION {{u} \X (1 .. processed'[u]) : u \in IM!Threads}
    BY <1>1 DEF IM!Unreported
  <2>3. IM!Written' = IM!Written
    BY <1>a DEF IM!Written
  <2>4. IsFiniteSet(A) /\ pixels_processed + Cardinality(A) = Cardinality(IM!Written)
    BY <1>t, ImFinite DEF IM!ProgressExact
  <2> HIDE DEF A, B
  <2>5. PICK T : T = {t} \X (1 .. processed[t])
    OBVIOUS
  <2>a. B = A \ T /\ T \subseteq A
    <3>1. /\ B = A \ ({t} \X (1 .. processed[t]))
          /\ ({t} \X (1 .. processed[t])) \subseteq A
      BY <2>1, <1>1, <1>a, ImNoneLeft
    <3> QED
      BY <3>1, <2>5
  <2>b. IsFiniteSet(T) /\ Cardinality(T) = processed[t]
    BY <2>5, <1>3, ImShare
  <2>6. A \cap T = T
    BY <2>a
  <2>7. IsFiniteSet(B) /\ Cardinality(B) = Cardinality(A) - processed[t]
    <3>1. IsFiniteSet(A \ T) /\ Cardinality(A \ T) = Cardinality(A) - Cardinality(A \cap T)
      BY <2>4, FS_Difference
    <3> QED
      BY <3>1, <2>a, <2>b, <2>6
  <2>8. Cardinality(A) \in Nat
    BY <2>4, FS_CardinalityType
  <2>9. pixels_processed' + Cardinality(B) = Cardinality(IM!Written')
    BY <2>3, <2>4, <2>7, <2>8, <1>1, <1>3
  <2> QED
    BY <2>7, <2>9, ImFinite DEF IM!ProgressExact, B
<1> QED
  BY <1>1, <1>2, <1>4, <1>5, <1>6 DEF IM!IInv

\* thread_run writes the pixel at which it is, which nobody has written.
LEMMA ImFilter ==
  ASSUME IM!IInv, NEW t \in IM!Threads, IM!FilterPixel(t)
  PROVE  IM!IInv'
<1>t. /\ IM!TypeOK /\ IM!SharesInv /\ IM!ImageInv /\ IM!SemInv
      /\ IM!IsFiniteSet(IM!Unreported) /\ IM!ProgressExact
  BY DEF IM!IInv
<1>p. PICK p, c : p = pixel[t] /\ c = fargs.threads
  OBVIOUS
<1>a. /\ th[t] = "filter" /\ p < IM!pixel_count /\ fargs' = fargs
      /\ main' = main /\ fi' = fi
      /\ processed' = [processed EXCEPT ![t] = @ + 1] /\ seen' = seen
      /\ pixels_processed' = pixels_processed /\ pp_sem' = pp_sem
      /\ out_image' = [out_image EXCEPT ![IM!Index(IM!X(p), IM!Y(p))] = @ + 1]
      /\ \/ th' = [th EXCEPT ![t] = "try"] /\ pixel' = pixel
         \/ th' = th /\ pixel' = [pixel EXCEPT ![t] = @ + c]
  BY <1>p DEF IM!FilterPixel
<1>b. th \in [IM!Threads -> {"none", "filter", "try", "read", "add", "post",
                             "done"}]
  BY <1>t DEF IM!TypeOK
<1>c. PICK s \in {"filter", "try"} :
        /\ th' = [th EXCEPT ![t] = s]
        /\ s = "try" => pixel' = pixel
        /\ s = "filter" => pixel' = [pixel EXCEPT ![t] = @ + c]
  <2>1. [th EXCEPT ![t] = "filter"] = th
    BY <1>a, <1>b
  <2> QED
    BY <2>1, <1>a
<1>1. /\ IM!MainInv' /\ IM!Threads' = IM!Threads
      /\ IM!pixel_count' = IM!pixel_count
      /\ th' \in [IM!Threads -> {"none", "filter", "try", "read", "add",
                                 "post", "done"}]
      /\ th'[t] = s /\ \A u \in IM!Threads : u # t => th'[u] = th[u]
      /\ c \in Nat /\ c > 0 /\ t \in Nat
      /\ pixel \in [IM!Threads -> Nat] /\ processed \in [IM!Threads -> Nat]
      /\ p \in Nat /\ pixels_processed \in Nat
      /\ DOMAIN out_image = 0 .. IM!pixel_count - 1 /\ IM!pixel_count \in Nat
      /\ out_image \in [0 .. IM!pixel_count - 1 -> Nat]
  BY <1>p, <1>a, <1>c, ImThread
<1>2. p % c = t
  BY <1>p, <1>a, <1>t DEF IM!SharesInv
<1>3. /\ (p + c) % c = t
      /\ \A d \in Nat : d % c = t /\ d < p + c => d <= p
  BY <1>1, <1>2, NextOfShare
<1>4. /\ pixel' \in [IM!Threads -> Nat]
      /\ \A u \in IM!Threads : u # t => pixel'[u] = pixel[u]
      /\ pixel'[t] = IF s = "try" THEN p ELSE p + c
  BY <1>p, <1>c, <1>1
<1>5. IM!Index(IM!X(p), IM!Y(p)) = p
  BY <1>a, <1>1, <1>t, ImIndex
<1>6. /\ p \in DOMAIN out_image /\ DOMAIN out_image' = DOMAIN out_image
      /\ out_image'[p] = out_image[p] + 1
      /\ \A d \in DOMAIN out_image : d # p => out_image'[d] = out_image[d]
      /\ out_image' \in [0 .. IM!pixel_count - 1 -> Nat]
  <2>1. out_image' = [out_image EXCEPT ![p] = @ + 1]
    BY <1>a, <1>5
  <2>2. p \in 0 .. IM!pixel_count - 1
    BY <1>a, <1>1
  <2> QED
    BY <2>1, <2>2, <1>1
<1>7. IM!TypeOK'
  <2>1. processed' \in [IM!Threads -> Nat]
    BY <1>a, <1>1
  <2> QED
    BY <2>1, <1>1, <1>4, <1>6, <1>a, <1>t, SMTT(30) DEF IM!TypeOK
<1>8. IM!SharesInv'
  <2>1. ASSUME NEW u \in IM!Threads
        PROVE  /\ IF th'[u] = "none" THEN pixel'[u] = 0
                  ELSE pixel'[u] % c = u
               /\ th'[u] = "done" => pixel'[u] >= IM!pixel_count
    <3>1. CASE u = t
      BY <3>1, <1>1, <1>2, <1>3, <1>4
    <3>2. CASE u # t
      <4>1. /\ IF th[u] = "none" THEN pixel[u] = 0
               ELSE pixel[u] % c = u
            /\ th[u] = "done" => pixel[u] >= IM!pixel_count
        BY <1>p, <1>t DEF IM!SharesInv
      <4> QED
        BY <4>1, <3>2, <1>1, <1>4
    <3> QED
      BY <3>1, <3>2
  <2> QED
    BY <1>p, <2>1, <1>1, <1>a DEF IM!SharesInv
<1>9. out_image[p] = 0
  <2>1. ASSUME NEW u \in IM!Threads, p % c = u PROVE ~IM!Passed(u, p)
    <3>1. u = t
      BY <2>1, <1>2
    <3> QED
      BY <1>p, <3>1, <1>1, <1>a DEF IM!Passed
  <2>2. ~(\E u \in IM!Threads : p % c = u /\ IM!Passed(u, p))
    BY <2>1
  <2> QED
    BY <1>p, <2>2, <1>6, <1>t DEF IM!ImageInv
<1>10. IM!ImageInv'
  <2>1. ASSUME NEW d \in DOMAIN out_image, d # p
        PROVE  out_image'[d] = IF \E u \in IM!Threads :
                                    d % c = u /\ IM!Passed(u, d)'
                               THEN 1 ELSE 0
    <3>0. d \in Nat
      BY <1>1
    <3>1. ASSUME NEW u \in IM!Threads, d % c = u
          PROVE  IM!Passed(u, d)' <=> IM!Passed(u, d)
      <4>1. CASE u # t
        BY <4>1, <1>1, <1>4 DEF IM!Passed
      <4>2. CASE u = t
        <5>1. IM!Passed(u, d) <=> d < p
          BY <1>p, <4>2, <2>1, <1>a DEF IM!Passed
        <5>2. IM!Passed(u, d)' <=> d < pixel'[t] \/ (d = pixel'[t] /\ s = "try")
          BY <4>2, <1>1 DEF IM!Passed
        <5>3. CASE s = "try"
          BY <5>1, <5>2, <5>3, <1>4, <2>1
        <5>4. CASE s # "try"
          <6>1. pixel'[t] = p + c
            BY <5>4, <1>4
          <6>2. d < p + c => d <= p
            BY <1>3, <3>0, <3>1, <4>2
          <6> QED
            BY <6>1, <6>2, <5>1, <5>2, <5>4, <3>0, <2>1, <1>1
        <5> QED
          BY <5>3, <5>4
      <4> QED
        BY <4>1, <4>2
    <3>2. out_image[d] = IF \E u \in IM!Threads : d % c = u /\ IM!Passed(u, d)
                         THEN 1 ELSE 0
      BY <1>p, <1>t DEF IM!ImageInv
    <3> QED
      BY <3>1, <3>2, <1>6, <2>1
  <2>2. out_image'[p] = 1 /\ p % c = t /\ IM!Passed(t, p)'
    <3>1. IM!Passed(t, p)'
      <4>1. CASE s = "try"
        BY <4>1, <1>1, <1>4 DEF IM!Passed
      <4>2. CASE s # "try"
        <5>1. pixel'[t] = p + c /\ p < p + c
          BY <4>2, <1>1, <1>4
        <5> QED
          BY <5>1 DEF IM!Passed
      <4> QED
        BY <4>1, <4>2
    <3> QED
      BY <3>1, <1>2, <1>6, <1>9
  <2>3. ASSUME NEW d \in DOMAIN out_image'
        PROVE  out_image'[d] = IF \E u \in IM!Threads' :
                                    d % fargs'.threads = u /\ IM!Passed(u, d)'
                               THEN 1 ELSE 0
    <3>0. IM!Threads' = IM!Threads /\ fargs'.threads = c /\ d \in DOMAIN out_image
      BY <1>p, <1>1, <1>6, <1>a
    <3>1. CASE d = p
      BY <3>0, <3>1, <2>2
    <3>2. CASE d # p
      BY <3>0, <3>2, <2>1
    <3> QED
      BY <3>1, <3>2
  <2> QED
    BY <2>3 DEF IM!ImageInv
<1>11. IM!SemInv'
  <2>1. \A u \in IM!Threads : IM!Reports(u)' => IM!Reports(u)
    BY <1>1, <1>a DEF IM!Reports
  <2>2. \A u \in IM!Threads : th'[u] = "add" => th[u] = "add"
    BY <1>1, <1>a
  <2> QED
    BY <2>1, <2>2, <1>1, <1>a, <1>t DEF IM!SemInv
<1>12. IM!IsFiniteSet(IM!Unreported)' /\ IM!ProgressExact'
  <2> DEFINE A == IM!Unreported
             B == IM!Unreported'
             e == <<t, processed[t] + 1>>
             W == IM!Written
  <2>1. /\ A = UNION {{u} \X (1 .. processed[u]) : u \in IM!Threads}
        /\ B = UNION {{u} \X (1 .. processed'[u]) : u \in IM!Threads}
    BY <1>1 DEF IM!Unreported
  <2>2. IM!Written' = W \cup {p} /\ p \notin W
    <3>1. p \notin W
      BY <1>9 DEF IM!Written
    <3>2. ASSUME NEW d \in DOMAIN out_image
          PROVE  out_image'[d] > 0 <=> (out_image[d] > 0 \/ d = p)
      <4>1. CASE d = p
        BY <4>1, <1>6, <1>9
      <4>2. CASE d # p
        BY <4>2, <1>6
      <4> QED
        BY <4>1, <4>2
    <3> QED
      BY <3>1, <3>2, <1>6 DEF IM!Written
  <2>3. IsFiniteSet(W)
    <3>1. IsFiniteSet(DOMAIN out_image)
      BY <1>1, FS_Interval
    <3>2. W \in SUBSET DOMAIN out_image
      BY DEF IM!Written
    <3> QED
      BY <3>1, <3>2, FS_Subset
  <2>4. IsFiniteSet(A) /\ pixels_processed + Cardinality(A) = Cardinality(W)
    BY <1>t, ImFinite DEF IM!ProgressExact
  <2>5. Cardinality(A) \in Nat /\ Cardinality(W) \in Nat
    BY <2>3, <2>4, FS_CardinalityType
  <2>6. B = A \cup {<<t, processed[t] + 1>>} /\ <<t, processed[t] + 1>> \notin A
    <3> HIDE DEF A, B, e, W
    <3> QED
      BY <2>1, <1>1, <1>a, ImOneMore
  <2>7. IsFiniteSet(B) /\ Cardinality(B) = Cardinality(A) + 1
    <3>1. B = A \cup {e} /\ e \notin A
      BY <2>6
    <3> HIDE DEF A, B, e, W
    <3> QED
      BY <3>1, <2>4, FS_AddElement
  <2>8. Cardinality(IM!Written') = Cardinality(W) + 1
    BY <2>2, <2>3, FS_AddElement
  <2>9. pixels_processed' + Cardinality(B) = Cardinality(IM!Written')
    <3> HIDE DEF A, B, e, W
    <3> QED
      BY <2>4, <2>5, <2>7, <2>8, <1>1, <1>a
  <2> QED
    BY <2>7, <2>9, ImFinite DEF IM!ProgressExact
<1> QED
  BY <1>1, <1>7, <1>8, <1>10, <1>11, <1>12 DEF IM!IInv

\* The pixels are all written when the threads are joined.
LEMMA ImComplete == IM!IInv => IM!ImageComplete
<1> SUFFICES ASSUME IM!IInv PROVE IM!ImageComplete
  OBVIOUS
<1>t. /\ IM!TypeOK /\ IM!MainInv /\ IM!SharesInv /\ IM!ImageInv
      /\ IM!ProgressExact
  BY DEF IM!IInv
<1>1. DOMAIN out_image = 0 .. IM!pixel_count - 1 /\ IM!pixel_count \in Nat
  BY <1>t, ImArgs DEF IM!TypeOK
<1>2. IM!EveryPixelOnce
  <2>1. \A d \in DOMAIN out_image : out_image[d] \in {0, 1}
    BY <1>t DEF IM!ImageInv
  <2>2. ASSUME main = "save", NEW d \in DOMAIN out_image PROVE out_image[d] = 1
    <3>1. fargs.threads \in Nat /\ fargs.threads > 0 /\ d \in Nat
          /\ d < IM!pixel_count
      BY <2>2, <1>1, <1>t, ImArgs DEF IM!MainInv
    <3>2. d % fargs.threads \in 0 .. fargs.threads - 1
      BY <3>1, Division
    <3>3. PICK t \in IM!Threads : d % fargs.threads = t
      BY <3>2 DEF IM!Threads
    <3>4. th[t] = "done" /\ pixel[t] >= IM!pixel_count
      BY <2>2, <1>t DEF IM!MainInv, IM!SharesInv
    <3>5. pixel[t] \in Nat
      BY <1>t DEF IM!TypeOK
    <3>6. IM!Passed(t, d)
      BY <3>1, <3>4, <3>5, <1>1 DEF IM!Passed
    <3> QED
      BY <3>3, <3>6, <1>t DEF IM!ImageInv
  <2> QED
    BY <2>1, <2>2 DEF IM!EveryPixelOnce
<1>3. IM!ReadsInsideImage
  <2>1. \A t \in IM!Threads : pixel[t] \in Nat
    BY <1>t DEF IM!TypeOK
  <2> QED
    BY <2>1, <1>1, <1>t, ImIndex DEF IM!ReadsInsideImage
<1> QED
  BY <1>2, <1>3, <1>t DEF IM!ImageComplete

\* ImageComplete (main.c, filter.c): for every image, filter and number of
\* threads, no pixel is written twice, all are when the image is saved, only
\* pixels of the image are read, and the progress is exact.
THEOREM ImageAlwaysComplete ==
  Arguments \subseteq IM!ArgumentType => (IM!Spec => []ImageComplete)
<1> SUFFICES ASSUME Arguments \subseteq IM!ArgumentType
             PROVE  IM!Spec => []ImageComplete
  OBVIOUS
<1>1. IM!IInv /\ [IM!Next]_(IM!vars) => IM!IInv'
  <2> SUFFICES ASSUME IM!IInv, [IM!Next]_(IM!vars) PROVE IM!IInv'
    OBVIOUS
  <2>1. CASE IM!Create
    BY <2>1, ImCreate
  <2>2. CASE IM!Join \/ IM!Save
    BY <2>2, ImMain
  <2>3. ASSUME NEW a \in Arguments, IM!Load(a) PROVE IM!IInv'
    BY <2>3, ImLoad
  <2>4. ASSUME NEW t \in IM!Threads,
               \/ IM!FilterPixel(t) \/ IM!Try(t) \/ IM!ReadProcessed(t)
               \/ IM!AddProcessed(t) \/ IM!Post(t) \/ IM!Return(t)
        PROVE  IM!IInv'
    BY <2>4, ImFilter, ImTry, ImRead, ImAdd, ImPost, ImReturn
  <2>5. CASE UNCHANGED IM!vars
    <3>1. /\ fargs' = fargs /\ main' = main /\ fi' = fi /\ th' = th
          /\ pixel' = pixel /\ processed' = processed /\ seen' = seen
          /\ pixels_processed' = pixels_processed /\ pp_sem' = pp_sem
          /\ out_image' = out_image
      BY <2>5 DEF IM!vars
    <3>2. IM!Threads' = IM!Threads /\ IM!pixel_count' = IM!pixel_count
      BY <3>1 DEF IM!Threads, IM!pixel_count
    <3>3. IM!IsFiniteSet(IM!Unreported)' /\ IM!ProgressExact'
      BY <3>1, ImCounts
    <3>4. /\ IM!TypeOK' /\ IM!MainInv' /\ IM!SharesInv' /\ IM!ImageInv'
          /\ IM!SemInv'
      BY <3>1, <3>2 DEF IM!IInv, IM!TypeOK, IM!MainInv, IM!SharesInv,
           IM!ImageInv,
                        IM!SemInv, IM!Passed, IM!Reports
    <3> QED
      BY <3>3, <3>4 DEF IM!IInv
  <2> QED
    BY <2>1, <2>2, <2>3, <2>4, <2>5 DEF IM!Next
<1>2. IM!Init => IM!IInv
  BY ImInit
<1>3. IM!IInv => ImageComplete
  BY ImComplete DEF ImageComplete
<1> QED
  BY <1>1, <1>2, <1>3, PTL DEF IM!Spec

-----------------------------------------------------------------------------
(***************************************************************************)
(* cw03: the batch interpreter.  interpret_line splits the line in place.  *)
(* What makes the invariant inductive is that the part of the buffer from  *)
(* pos on is still what fgets has put there, that the words found so far   *)
(* end before pos, and that these words and those Words finds in the rest  *)
(* of the line are the words of the line.  Words is a recursive function;  *)
(* that it is defined is shown first, from its last argument down.         *)
(***************************************************************************)

\* The characters of a line, of the buffer, and what Words makes of a line.
TextChars == {"a", "q", "s"}
Chars == {"a", "q", "s", "n", "0"}
WordSeq == Seq(Seq(Chars) \cup {"error"})

\* A line fits into the buffer with its newline and the end of the string.
Fits(t) == t \in Seq(TextChars) /\ Len(t) + 2 <= BUFFER_SIZE

\* Words again, its parts by name: the position at which a word ends, one
\* equation of the recursion, and the function it defines.
StopOf(t, from, chars) ==
  BI!Min({k \in from .. Len(t) : t[k] \in chars} \cup {Len(t) + 1})
WordEnd(t, k) == IF t[k] = "q" THEN StopOf(t, k + 1, {"q"})
                 ELSE StopOf(t, k, {"s"})
WordsAt(t, f, k) ==
  IF k > Len(t) THEN <<>>
  ELSE IF t[k] = "s" THEN f[k + 1]
  ELSE LET end == WordEnd(t, k)
       IN IF t[k] = "a" THEN <<SubSeq(t, k, end - 1)>> \o f[end]
          ELSE IF end > Len(t) \/ (end < Len(t) /\ t[end + 1] # "s")
          THEN <<"error">>
          ELSE <<SubSeq(t, k + 1, end - 1)>> \o f[end + 1]
IsWords(t, f) == f = [k \in 1 .. Len(t) + 1 |-> WordsAt(t, f, k)]
WordsFrom(t) == CHOOSE f : IsWords(t, f)

\* The words of the line from position p of the buffer on.
Rest(p) == IF p < Len(text) THEN WordsFrom(text)[p + 1] ELSE <<>>

\* The word that begins at p in a buffer.
WordAt(b, p) ==
  [m \in 1 .. BI!Min({e \in DOMAIN b : e >= p /\ b[e] \in BI!Eol}) - p
     |-> b[p + m - 1]]

\* The buffer always ends a string, whatever was read into it: no scan leaves it.
BufferOK ==
  /\ buf \in [0 .. BUFFER_SIZE - 1 -> Chars]
  /\ buf[BUFFER_SIZE - 2] \in BI!Eol
  /\ buf[BUFFER_SIZE - 1] = "0"

\* The types of the interpreter's variables.
BatchTypeOK ==
  /\ bst \in {"start", "read", "split", "run", "refused", "failed", "ended"}
  /\ bst # "start" => BufferOK
  /\ pos \in 0 .. BUFFER_SIZE - 1
  /\ bargs \in Seq(0 .. BUFFER_SIZE - 1)
  /\ Fits(text)
  /\ nl \in BOOLEAN
  /\ results \in Seq(BI!Results)

\* What interpret_line has not reached yet is as fgets has put it there.
Unread ==
  /\ \A k \in pos .. Len(text) - 1 : buf[k] = text[k + 1]
  /\ pos <= Len(text) => buf[Len(text)] = IF nl THEN "n" ELSE "0"
  /\ nl => pos <= Len(text) + 1 /\ buf[Len(text) + 1] = "0"

\* The words found so far end before pos.
ArgsEnded == \A h \in DOMAIN bargs : \E e \in bargs[h] .. pos - 1 : buf[e] = "0"

\* The words found so far and those of the rest are the words of the line.
SplitSoFar == IF nl \/ pos <= Len(text) THEN BI!Argv \o Rest(pos) = BI!Words(text)
              ELSE BI!IsPrefix(BI!Words(text), BI!Argv)

\* What holds while a line is split.
Splitting == bst = "split" => Unread /\ ArgsEnded /\ SplitSoFar

\* The inductive invariant.
BatchInv == /\ BatchTypeOK /\ Splitting /\ BI!WordsOfTheLine /\ BI!FailureStops
            /\ bst = "start" => results = <<>>

\* Min of a set of naturals is its least element.
LEMMA BtMin ==
  ASSUME NEW T \in SUBSET Nat, NEW x \in T
  PROVE  /\ BI!Min(T) \in T
         /\ \A y \in T : BI!Min(T) <= y
<1>1. \E z \in T : \A y \in T : z <= y
  BY LeastNatural
<1> QED
  BY <1>1 DEF BI!Min

\* ... and the only one.
LEMMA BtMinIs ==
  ASSUME NEW T \in SUBSET Nat, NEW x \in T, \A y \in T : x <= y
  PROVE  BI!Min(T) = x
<1>1. /\ BI!Min(T) \in T
      /\ \A y \in T : BI!Min(T) <= y
  BY BtMin
<1>2. BI!Min(T) \in Nat /\ x \in Nat /\ BI!Min(T) <= x /\ x <= BI!Min(T)
  BY <1>1
<1> QED
  BY <1>2

\* A word ends behind its beginning and within the line.
LEMMA BtStop ==
  ASSUME NEW t \in Seq(TextChars), NEW k \in 1 .. Len(t) + 1, NEW chars
  PROVE  /\ StopOf(t, k, chars) \in k .. Len(t) + 1
         /\ StopOf(t, k, chars) <= Len(t) => t[StopOf(t, k, chars)] \in chars
         /\ \A j \in k .. StopOf(t, k, chars) - 1 : t[j] \notin chars
<1> DEFINE T == {j \in k .. Len(t) : t[j] \in chars} \cup {Len(t) + 1}
<1>0. Len(t) \in Nat
  OBVIOUS
<1>1. T \in SUBSET Nat /\ Len(t) + 1 \in T
  BY <1>0
<1>2. StopOf(t, k, chars) = BI!Min(T)
  BY DEF StopOf
<1>3. BI!Min(T) \in T /\ \A y \in T : BI!Min(T) <= y
  <2> HIDE DEF T
  <2> QED
    BY <1>1, BtMin
<1>4. /\ BI!Min(T) \in k .. Len(t) + 1
      /\ BI!Min(T) <= Len(t) => t[BI!Min(T)] \in chars
  BY <1>0, <1>3
<1>5. ASSUME NEW j \in k .. BI!Min(T) - 1 PROVE t[j] \notin chars
  <2>1. j \in k .. Len(t) /\ ~(BI!Min(T) <= j)
    BY <1>0, <1>4
  <2> QED
    BY <1>3, <2>1
<1> QED
  BY <1>2, <1>4, <1>5

\* Likewise with its quotation marks.
LEMMA BtWordEnd ==
  ASSUME NEW t \in Seq(TextChars), NEW k \in 1 .. Len(t), t[k] # "s"
  PROVE  WordEnd(t, k) \in k + 1 .. Len(t) + 1
<1>0. Len(t) \in Nat /\ k + 1 \in 1 .. Len(t) + 1 /\ k \in 1 .. Len(t) + 1
  OBVIOUS
<1>1. CASE t[k] = "q"
  BY <1>0, <1>1, BtStop DEF WordEnd
<1>2. CASE t[k] # "q"
  <2>1. /\ StopOf(t, k, {"s"}) \in k .. Len(t) + 1
        /\ StopOf(t, k, {"s"}) <= Len(t) => t[StopOf(t, k, {"s"})] \in {"s"}
    BY <1>0, BtStop
  <2>2. StopOf(t, k, {"s"}) # k
    BY <1>0, <2>1
  <2> QED
    BY <1>0, <1>2, <2>1, <2>2 DEF WordEnd
<1> QED
  BY <1>1, <1>2

\* The equation at k only looks at the function behind k.
LEMMA BtWordsAtLater ==
  ASSUME NEW t \in Seq(TextChars), NEW k \in 1 .. Len(t) + 1, NEW f, NEW g,
         \A j \in k + 1 .. Len(t) + 1 : f[j] = g[j]
  PROVE  WordsAt(t, f, k) = WordsAt(t, g, k)
<1>0. Len(t) \in Nat
  OBVIOUS
<1>1. CASE k > Len(t)
  BY <1>1 DEF WordsAt
<1>2. CASE k <= Len(t) /\ t[k] = "s"
  <2>1. k + 1 \in k + 1 .. Len(t) + 1
    BY <1>0, <1>2
  <2> QED
    BY <1>0, <1>2, <2>1 DEF WordsAt
<1>3. CASE k <= Len(t) /\ t[k] # "s"
  <2> DEFINE end == WordEnd(t, k)
  <2>1. end \in k + 1 .. Len(t) + 1
    BY <1>0, <1>3, BtWordEnd
  <2>2. ~(end > Len(t)) => end + 1 \in k + 1 .. Len(t) + 1
    BY <1>0, <2>1
  <2> HIDE DEF end
  <2>3. f[end] = g[end] /\ (~(end > Len(t)) => f[end + 1] = g[end + 1])
    BY <2>1, <2>2
  <2>4. WordsAt(t, f, k) =
          IF t[k] = "a" THEN <<SubSeq(t, k, end - 1)>> \o f[end]
          ELSE IF end > Len(t) \/ (end < Len(t) /\ t[end + 1] # "s") THEN <<"error">>
          ELSE <<SubSeq(t, k + 1, end - 1)>> \o f[end + 1]
    BY <1>0, <1>3 DEF WordsAt, end
  <2>5. WordsAt(t, g, k) =
          IF t[k] = "a" THEN <<SubSeq(t, k, end - 1)>> \o g[end]
          ELSE IF end > Len(t) \/ (end < Len(t) /\ t[end + 1] # "s") THEN <<"error">>
          ELSE <<SubSeq(t, k + 1, end - 1)>> \o g[end + 1]
    BY <1>0, <1>3 DEF WordsAt, end
  <2> QED
    BY <2>3, <2>4, <2>5
<1> QED
  BY <1>0, <1>1, <1>2, <1>3

\* So there is such a function: begin at the end of the line, and go back by
\* one position as long as need be.
LEMMA BtWordsExist ==
  ASSUME NEW t \in Seq(TextChars)
  PROVE  IsWords(t, WordsFrom(t))
<1> DEFINE D(n) == Len(t) + 1 - n .. Len(t) + 1
           Part(n, f) == f = [k \in D(n) |-> WordsAt(t, f, k)]
           T == {n \in 0 .. Len(t) : ~\E f : Part(n, f)}
<1>0. Len(t) \in Nat
  OBVIOUS
<1>1. T = {}
  <2> SUFFICES ASSUME T # {} PROVE FALSE
    OBVIOUS
  <2>1. PICK n \in T : \A m \in T : n <= m
    <3>1. T \in SUBSET Nat
      BY <1>0
    <3> HIDE DEF T
    <3> QED
      BY <3>1, LeastNatural
  <2>2. n \in 0 .. Len(t) /\ ~\E f : Part(n, f)
    BY <2>1
  <2>3. CASE n = 0
    <3> DEFINE f == [k \in D(0) |-> <<>>]
    <3>1. \A k \in D(0) : WordsAt(t, f, k) = <<>>
      BY <1>0 DEF WordsAt
    <3>2. Part(0, f)
      <4> HIDE DEF D
      <4> QED
        BY <3>1
    <3> QED
      BY <2>2, <2>3, <3>2
  <2>4. CASE n # 0
    <3>1. n - 1 \in 0 .. Len(t) /\ ~(n <= n - 1)
      BY <1>0, <2>2, <2>4
    <3>2. PICK f : Part(n - 1, f)
      BY <2>1, <3>1
    <3> DEFINE m == Len(t) + 1 - n
               g == [k \in D(n) |-> IF k = m THEN WordsAt(t, f, m) ELSE f[k]]
    <3>3. /\ m \in 1 .. Len(t) + 1 /\ m \in D(n) /\ D(n - 1) = D(n) \ {m}
          /\ \A k \in D(n) : k \in 1 .. Len(t) + 1
          /\ \A k \in D(n) : \A j \in k + 1 .. Len(t) + 1 : j \in D(n) /\ j # m
      BY <1>0, <2>2, <2>4
    <3> HIDE DEF D, m
    <3>4. \A j \in D(n) \ {m} : g[j] = f[j]
      BY <3>3
    <3>5. ASSUME NEW k \in D(n)
          PROVE  WordsAt(t, g, k) = WordsAt(t, f, k)
      <4>1. \A j \in k + 1 .. Len(t) + 1 : g[j] = f[j]
        BY <3>3, <3>4
      <4> HIDE DEF g
      <4> QED
        BY <3>3, <4>1, BtWordsAtLater
    <3>6. ASSUME NEW k \in D(n)
          PROVE  g[k] = WordsAt(t, g, k)
      <4>1. CASE k = m
        BY <3>3, <3>5, <4>1
      <4>2. CASE k # m
        <5>1. f[k] = WordsAt(t, f, k)
          BY <3>2, <3>3, <4>2
        <5> QED
          BY <3>4, <3>5, <4>2, <5>1
      <4> QED
        BY <4>1, <4>2
    <3>7. Part(n, g)
      BY <3>6
    <3> HIDE DEF g
    <3> QED
      BY <2>2, <3>7
  <2> QED
    BY <2>3, <2>4
<1>2. PICK f : Part(Len(t), f)
  BY <1>0, <1>1
<1>3. D(Len(t)) = 1 .. Len(t) + 1
  BY <1>0
<1>4. IsWords(t, f)
  BY <1>2, <1>3 DEF IsWords
<1> QED
  BY <1>4 DEF WordsFrom

\* The recursion's equations, for lines.
LEMMA BtWordsRule ==
  ASSUME NEW t \in Seq(TextChars)
  PROVE  /\ BI!Words(t) = WordsFrom(t)[1]
         /\ \A k \in 1 .. Len(t) + 1 : WordsFrom(t)[k] = WordsAt(t, WordsFrom(t), k)
<1>1. BI!Words(t) = WordsFrom(t)[1]
  BY DEF BI!Words, WordsFrom, IsWords, WordsAt, WordEnd, StopOf
<1>2. IsWords(t, WordsFrom(t))
  BY BtWordsExist
<1>3. \A k \in 1 .. Len(t) + 1 : WordsFrom(t)[k] = WordsAt(t, WordsFrom(t), k)
  <2> DEFINE W == WordsFrom(t)
  <2>1. W = [k \in 1 .. Len(t) + 1 |-> WordsAt(t, W, k)]
    BY <1>2 DEF IsWords
  <2> HIDE DEF W
  <2>2. \A k \in 1 .. Len(t) + 1 : W[k] = WordsAt(t, W, k)
    BY <2>1
  <2> QED
    BY <2>2 DEF W
<1> QED
  BY <1>1, <1>3

\* The words of a line are a sequence, from every position on.
LEMMA BtWordsType ==
  ASSUME NEW t \in Seq(TextChars)
  PROVE  \A k \in 1 .. Len(t) + 1 : WordsFrom(t)[k] \in WordSeq
<1> DEFINE W == WordsFrom(t)
           T == {n \in 0 .. Len(t) : W[Len(t) + 1 - n] \notin WordSeq}
<1>0. Len(t) \in Nat
  OBVIOUS
<1>1. \A k \in 1 .. Len(t) + 1 : W[k] = WordsAt(t, W, k)
  BY BtWordsRule
<1> HIDE DEF W
<1>2. ASSUME T # {} PROVE FALSE
  <2>1. PICK n \in T : \A m \in T : n <= m
    <3>1. T \in SUBSET Nat
      BY <1>0
    <3> HIDE DEF T
    <3> QED
      BY <1>2, <3>1, LeastNatural
  <2> DEFINE k == Len(t) + 1 - n
  <2>2. /\ n \in 0 .. Len(t) /\ k \in 1 .. Len(t) + 1 /\ W[k] \notin WordSeq
    BY <1>0, <2>1
  <2>3. ASSUME NEW j \in k + 1 .. Len(t) + 1 PROVE W[j] \in WordSeq
    <3>1. /\ Len(t) + 1 - j \in 0 .. Len(t) /\ ~(n <= Len(t) + 1 - j)
          /\ Len(t) + 1 - (Len(t) + 1 - j) = j
      BY <1>0, <2>2
    <3>2. Len(t) + 1 - j \notin T
      BY <2>1, <3>1
    <3> QED
      BY <3>1, <3>2
  <2> HIDE DEF k, T
  <2>4. W[k] = WordsAt(t, W, k)
    BY <1>1, <2>2
  <2>5. <<>> \in WordSeq /\ <<"error">> \in WordSeq
    BY DEF WordSeq
  <2>6. ASSUME NEW x \in Seq(Chars), NEW s \in WordSeq
        PROVE  <<x>> \o s \in WordSeq
    BY DEF WordSeq
  <2>7. CASE k > Len(t)
    BY <2>2, <2>4, <2>5, <2>7 DEF WordsAt
  <2>8. CASE k <= Len(t) /\ t[k] = "s"
    <3>1. k + 1 \in k + 1 .. Len(t) + 1
      BY <1>0, <2>2, <2>8
    <3> QED
      BY <1>0, <2>2, <2>3, <2>4, <2>8, <3>1 DEF WordsAt
  <2>9. CASE k <= Len(t) /\ t[k] # "s"
    <3> DEFINE end == WordEnd(t, k)
    <3>1. end \in k + 1 .. Len(t) + 1
      BY <1>0, <2>2, <2>9, BtWordEnd
    <3> HIDE DEF end
    <3>2. W[k] =
            IF t[k] = "a" THEN <<SubSeq(t, k, end - 1)>> \o W[end]
            ELSE IF end > Len(t) \/ (end < Len(t) /\ t[end + 1] # "s") THEN <<"error">>
            ELSE <<SubSeq(t, k + 1, end - 1)>> \o W[end + 1]
      BY <1>0, <2>2, <2>4, <2>9 DEF WordsAt, end
    <3>0. t \in Seq(Chars)
      BY DEF TextChars, Chars
    <3>3. SubSeq(t, k, end - 1) \in Seq(Chars)
      BY <1>0, <2>2, <3>0, <3>1
    <3>4. SubSeq(t, k + 1, end - 1) \in Seq(Chars)
      BY <1>0, <2>2, <3>0, <3>1
    <3>5. W[end] \in WordSeq
      BY <2>3, <3>1
    <3>6. ~(end > Len(t)) => W[end + 1] \in WordSeq
      <4>1. ~(end > Len(t)) => end + 1 \in k + 1 .. Len(t) + 1
        BY <1>0, <2>2, <3>1
      <4> QED
        BY <2>3, <4>1
    <3>7. <<SubSeq(t, k, end - 1)>> \o W[end] \in WordSeq
      BY <2>6, <3>3, <3>5
    <3>8. ~(end > Len(t)) => <<SubSeq(t, k + 1, end - 1)>> \o W[end + 1] \in WordSeq
      BY <2>6, <3>4, <3>6
    <3> QED
      BY <2>2, <2>5, <3>2, <3>7, <3>8
  <2> QED
    BY <1>0, <2>2, <2>7, <2>8, <2>9
<1>3. ASSUME NEW k \in 1 .. Len(t) + 1 PROVE W[k] \in WordSeq
  <2>1. Len(t) + 1 - k \in 0 .. Len(t) /\ Len(t) + 1 - (Len(t) + 1 - k) = k
    BY <1>0
  <2> QED
    BY <1>2, <2>1
<1> QED
  BY <1>3 DEF W

\* Blanks before a word change nothing.
LEMMA BtSkip ==
  ASSUME NEW t \in Seq(TextChars), NEW h \in 1 .. Len(t) + 1,
         NEW j \in h .. Len(t) + 1, \A k \in h .. j - 1 : t[k] = "s"
  PROVE  WordsFrom(t)[h] = WordsFrom(t)[j]
<1> DEFINE W == WordsFrom(t)
           T == {n \in 0 .. j - h : W[j - n] # W[j]}
<1>0. Len(t) \in Nat /\ h \in Nat /\ j \in Nat
  OBVIOUS
<1>1. \A k \in 1 .. Len(t) : t[k] = "s" => W[k] = W[k + 1]
  <2>1. \A k \in 1 .. Len(t) : WordsFrom(t)[k] = WordsAt(t, WordsFrom(t), k)
    BY <1>0, BtWordsRule
  <2> HIDE DEF W, T
  <2>2. ASSUME NEW k \in 1 .. Len(t), t[k] = "s" PROVE W[k] = W[k + 1]
    <3>1. W[k] = WordsAt(t, W, k)
      BY <2>1 DEF W
    <3>2. ~(k > Len(t))
      BY <1>0
    <3> QED
      BY <2>2, <3>1, <3>2 DEF WordsAt
  <2> QED
    BY <2>2
<1> HIDE DEF W
<1>2. ASSUME T # {} PROVE FALSE
  <2>1. PICK n \in T : \A m \in T : n <= m
    <3>1. T \in SUBSET Nat
      BY <1>0
    <3> HIDE DEF T
    <3> QED
      BY <1>2, <3>1, LeastNatural
  <2>2. n \in 0 .. j - h /\ W[j - n] # W[j] /\ n # 0
    BY <1>0, <2>1
  <2>3. n - 1 \in 0 .. j - h /\ ~(n <= n - 1) /\ j - n + 1 = j - (n - 1)
    BY <1>0, <2>2
  <2>4. W[j - (n - 1)] = W[j]
    BY <2>1, <2>3
  <2>5. j - n \in h .. j - 1 /\ j - n \in 1 .. Len(t)
    BY <1>0, <2>2
  <2>6. W[j - n] = W[j - n + 1]
    BY <1>1, <2>5
  <2> QED
    BY <2>2, <2>3, <2>4, <2>6
<1>3. j - h \in 0 .. j - h /\ j - (j - h) = h
  BY <1>0
<1>4. W[j - (j - h)] = W[j]
  BY <1>2, <1>3
<1> QED
  BY <1>3, <1>4 DEF W

-----------------------------------------------------------------------------
\* A scan of the buffer for characters that include the end of the string
\* finds one, as the last one is.
LEMMA BtFirst ==
  ASSUME BUFFER_SIZE \in Nat \ {0, 1}, BufferOK,
         NEW from \in 0 .. BUFFER_SIZE - 1, NEW chars, "0" \in chars
  PROVE  /\ BI!First(from, chars) \in from .. BUFFER_SIZE - 1
         /\ buf[BI!First(from, chars)] \in chars
         /\ \A k \in from .. BI!First(from, chars) - 1 : buf[k] \notin chars
         /\ \A k \in from .. BUFFER_SIZE - 1 :
              buf[k] \in chars => BI!First(from, chars) <= k
<1> DEFINE T == {k \in DOMAIN buf : k >= from /\ buf[k] \in chars}
<1>0. DOMAIN buf = 0 .. BUFFER_SIZE - 1 /\ buf[BUFFER_SIZE - 1] = "0"
  BY DEF BufferOK
<1>1. T \in SUBSET Nat /\ BUFFER_SIZE - 1 \in T
  BY <1>0
<1>2. BI!First(from, chars) = BI!Min(T)
  BY DEF BI!First
<1>3. BI!Min(T) \in T /\ \A y \in T : BI!Min(T) <= y
  <2> HIDE DEF T
  <2> QED
    BY <1>1, BtMin
<1>4. BI!Min(T) \in from .. BUFFER_SIZE - 1 /\ buf[BI!Min(T)] \in chars
  BY <1>0, <1>3
<1>5. \A k \in from .. BUFFER_SIZE - 1 : buf[k] \in chars => BI!Min(T) <= k
  BY <1>0, <1>3
<1>6. \A k \in from .. BI!Min(T) - 1 : buf[k] \notin chars
  BY <1>4, <1>5
<1> HIDE DEF T
<1> QED
  BY <1>2, <1>4, <1>5, <1>6

\* A word reaches to the first end of string.
LEMMA BtWordAt ==
  ASSUME NEW b \in [0 .. BUFFER_SIZE - 1 -> Chars], BUFFER_SIZE \in Nat,
         NEW p \in 0 .. BUFFER_SIZE - 1, NEW e \in p .. BUFFER_SIZE - 1,
         b[e] \in BI!Eol, \A k \in p .. e - 1 : b[k] \notin BI!Eol
  PROVE  WordAt(b, p) = [m \in 1 .. e - p |-> b[p + m - 1]]
<1> DEFINE T == {k \in DOMAIN b : k >= p /\ b[k] \in BI!Eol}
<1>1. T \in SUBSET Nat /\ e \in T
  OBVIOUS
<1>2. \A y \in T : e <= y
  OBVIOUS
<1>3. BI!Min(T) = e
  <2> HIDE DEF T
  <2> QED
    BY <1>1, <1>2, BtMinIs
<1> QED
  BY <1>3 DEF WordAt

\* Terminating a later word leaves one that has ended as it is.
LEMMA BtWordKept ==
  ASSUME NEW b \in [0 .. BUFFER_SIZE - 1 -> Chars], BUFFER_SIZE \in Nat,
         NEW p \in 0 .. BUFFER_SIZE - 1, NEW e \in p .. BUFFER_SIZE - 1,
         b[e] \in BI!Eol, NEW c \in e + 1 .. BUFFER_SIZE - 1
  PROVE  WordAt([b EXCEPT ![c] = "0"], p) = WordAt(b, p)
<1> DEFINE T == {k \in p .. e : b[k] \in BI!Eol}
           d == [b EXCEPT ![c] = "0"]
<1>1. T \in SUBSET Nat /\ e \in T
  OBVIOUS
<1>2. PICK f \in T : \A y \in T : f <= y
  <2> HIDE DEF T
  <2> QED
    BY <1>1, LeastNatural
<1>3. /\ f \in p .. e /\ f \in p .. BUFFER_SIZE - 1 /\ b[f] \in BI!Eol
      /\ \A k \in p .. f - 1 : b[k] \notin BI!Eol
  BY <1>2
<1>4. d \in [0 .. BUFFER_SIZE - 1 -> Chars] /\ \A k \in p .. f : d[k] = b[k]
  BY <1>3 DEF Chars
<1>5. d[f] \in BI!Eol /\ \A k \in p .. f - 1 : d[k] \notin BI!Eol
  BY <1>3, <1>4
<1> HIDE DEF d
<1>6. /\ WordAt(b, p) = [m \in 1 .. f - p |-> b[p + m - 1]]
      /\ WordAt(d, p) = [m \in 1 .. f - p |-> d[p + m - 1]]
  BY <1>3, <1>4, <1>5, BtWordAt
<1>7. \A m \in 1 .. f - p : d[p + m - 1] = b[p + m - 1]
  <2>1. \A m \in 1 .. f - p : p + m - 1 \in p .. f
    BY <1>3
  <2> QED
    BY <1>4, <2>1
<1> QED
  BY <1>6, <1>7 DEF d

\* Every word of the buffer is a sequence of characters.
LEMMA BtArgv ==
  ASSUME BUFFER_SIZE \in Nat \ {0, 1}, BufferOK, bargs \in Seq(0 .. BUFFER_SIZE - 1)
  PROVE  /\ BI!Argv = [h \in 1 .. Len(bargs) |-> WordAt(buf, bargs[h])]
         /\ BI!Argv \in Seq(Seq(Chars)) /\ Len(BI!Argv) = Len(bargs)
<1>0. Len(bargs) \in Nat /\ DOMAIN bargs = 1 .. Len(bargs)
  OBVIOUS
<1>1. BI!Argv = [h \in 1 .. Len(bargs) |-> WordAt(buf, bargs[h])]
  BY <1>0 DEF BI!Argv, WordAt
<1>2. ASSUME NEW h \in 1 .. Len(bargs) PROVE WordAt(buf, bargs[h]) \in Seq(Chars)
  <2> DEFINE p == bargs[h]
             T == {e \in DOMAIN buf : e >= p /\ buf[e] \in BI!Eol}
  <2>1. p \in 0 .. BUFFER_SIZE - 1
    OBVIOUS
  <2> HIDE DEF p
  <2>2. T \in SUBSET Nat /\ BUFFER_SIZE - 1 \in T
    BY <2>1 DEF BufferOK, BI!Eol
  <2>3. BI!Min(T) \in T
    <3> HIDE DEF T
    <3> QED
      BY <2>2, BtMin
  <2>4. BI!Min(T) \in p .. BUFFER_SIZE - 1
    BY <2>1, <2>3 DEF BufferOK
  <2> HIDE DEF T
  <2>5. \A m \in 1 .. BI!Min(T) - p : buf[p + m - 1] \in Chars
    BY <2>1, <2>4 DEF BufferOK
  <2>6. BI!Min(T) - p \in Nat
    BY <2>1, <2>4
  <2>7. [m \in 1 .. BI!Min(T) - p |-> buf[p + m - 1]] \in Seq(Chars)
    <3> DEFINE n == BI!Min(T) - p
    <3>1. n \in Nat /\ \A m \in 1 .. n : buf[p + m - 1] \in Chars
      BY <2>5, <2>6
    <3> HIDE DEF n
    <3>2. [m \in 1 .. n |-> buf[p + m - 1]] \in Seq(Chars)
      BY <3>1
    <3> QED
      BY <3>2 DEF n
  <2> QED
    BY <2>7 DEF WordAt, T, p
<1>3. [h \in 1 .. Len(bargs) |-> WordAt(buf, bargs[h])] \in Seq(Seq(Chars))
  BY <1>0, <1>2
<1> QED
  BY <1>0, <1>1, <1>3

\* A new word is the last of argv, and the earlier ones stay.
LEMMA BtArgvGrows ==
  ASSUME BUFFER_SIZE \in Nat \ {0, 1}, BatchTypeOK, BufferOK, BufferOK', ArgsEnded,
         NEW p \in pos .. BUFFER_SIZE - 1, NEW c \in p .. BUFFER_SIZE - 1,
         \A k \in p .. c - 1 : buf[k] \notin BI!Eol,
         bargs' = Append(bargs, p), buf' = [buf EXCEPT ![c] = "0"]
  PROVE  /\ bargs' \in Seq(0 .. BUFFER_SIZE - 1)
         /\ BI!Argv' = Append(BI!Argv, [m \in 1 .. c - p |-> buf[p + m - 1]])
<1> DEFINE w == [m \in 1 .. c - p |-> buf[p + m - 1]]
<1>0. /\ bargs \in Seq(0 .. BUFFER_SIZE - 1) /\ Len(bargs) \in Nat
      /\ pos \in 0 .. BUFFER_SIZE - 1 /\ p \in 0 .. BUFFER_SIZE - 1
      /\ buf \in [0 .. BUFFER_SIZE - 1 -> Chars]
      /\ c \in 0 .. BUFFER_SIZE - 1
  BY DEF BatchTypeOK, BufferOK
<1>1. /\ bargs' \in Seq(0 .. BUFFER_SIZE - 1) /\ Len(bargs') = Len(bargs) + 1
      /\ bargs'[Len(bargs) + 1] = p /\ \A h \in 1 .. Len(bargs) : bargs'[h] = bargs[h]
  BY <1>0
<1>2. /\ BI!Argv = [h \in 1 .. Len(bargs) |-> WordAt(buf, bargs[h])]
      /\ BI!Argv \in Seq(Seq(Chars)) /\ Len(BI!Argv) = Len(bargs)
  BY <1>0, BtArgv
<1>3. BI!Argv' = [h \in 1 .. Len(bargs') |-> WordAt(buf', bargs'[h])]
  <2>1. DOMAIN bargs' = 1 .. Len(bargs')
    BY <1>1
  <2> QED
    BY <2>1 DEF BI!Argv, WordAt, BI!Eol
<1>4. ASSUME NEW h \in 1 .. Len(bargs)
      PROVE  WordAt(buf', bargs'[h]) = WordAt(buf, bargs[h])
  <2>1. PICK e \in bargs[h] .. pos - 1 : buf[e] = "0"
    BY <1>0 DEF ArgsEnded
  <2>2. bargs[h] \in 0 .. BUFFER_SIZE - 1
    BY <1>0
  <2>3. /\ e \in bargs[h] .. BUFFER_SIZE - 1 /\ buf[e] \in BI!Eol
        /\ c \in e + 1 .. BUFFER_SIZE - 1
    BY <1>0, <2>1, <2>2 DEF BI!Eol
  <2>4. WordAt([buf EXCEPT ![c] = "0"], bargs[h]) = WordAt(buf, bargs[h])
    BY <1>0, <2>2, <2>3, BtWordKept
  <2> QED
    BY <1>1, <2>4
<1>5. WordAt(buf', p) = w
  <2>1. /\ buf' \in [0 .. BUFFER_SIZE - 1 -> Chars] /\ buf'[c] \in BI!Eol
        /\ \A k \in p .. c - 1 : buf'[k] = buf[k]
    BY <1>0 DEF Chars, BI!Eol
  <2>2. WordAt(buf', p) = [m \in 1 .. c - p |-> buf'[p + m - 1]]
    <3> DEFINE b == buf'
    <3>1. /\ b \in [0 .. BUFFER_SIZE - 1 -> Chars] /\ b[c] \in BI!Eol
          /\ \A k \in p .. c - 1 : b[k] \notin BI!Eol
      BY <2>1
    <3> HIDE DEF b
    <3>2. WordAt(b, p) = [m \in 1 .. c - p |-> b[p + m - 1]]
      BY <1>0, <3>1, BtWordAt
    <3> QED
      BY <3>2 DEF b
  <2>3. \A m \in 1 .. c - p : p + m - 1 \in p .. c - 1
    BY <1>0
  <2> QED
    BY <2>1, <2>2, <2>3
<1> HIDE DEF w
<1>6. \A h \in 1 .. Len(bargs) + 1 :
        WordAt(buf', bargs'[h]) = IF h = Len(bargs) + 1 THEN w ELSE BI!Argv[h]
  <2> SUFFICES ASSUME NEW h \in 1 .. Len(bargs) + 1
               PROVE  WordAt(buf', bargs'[h]) =
                        IF h = Len(bargs) + 1 THEN w ELSE BI!Argv[h]
    OBVIOUS
  <2>1. CASE h = Len(bargs) + 1
    BY <1>1, <1>5, <2>1
  <2>2. CASE h # Len(bargs) + 1
    <3>1. h \in 1 .. Len(bargs)
      BY <1>0, <2>2
    <3>2. BI!Argv[h] = WordAt(buf, bargs[h])
      BY <1>2, <3>1
    <3> QED
      BY <1>4, <2>2, <3>1, <3>2
  <2> QED
    BY <2>1, <2>2
<1>7. Append(BI!Argv, w) =
        [h \in 1 .. Len(bargs) + 1 |->
           IF h = Len(bargs) + 1 THEN w ELSE BI!Argv[h]]
  BY <1>0, <1>2
<1> QED
  BY <1>1, <1>3, <1>6, <1>7 DEF w

\* Writing an end of string keeps the buffer's last two characters.
LEMMA BtTerminate ==
  ASSUME BUFFER_SIZE \in Nat \ {0, 1}, BufferOK, NEW c \in 0 .. BUFFER_SIZE - 1,
         buf' = [buf EXCEPT ![c] = "0"]
  PROVE  BufferOK'
  BY DEF BufferOK, Chars, BI!Eol

\* The rest of the line is given by the recursion, at its end too.
LEMMA BtRest ==
  ASSUME text \in Seq(TextChars), NEW p \in 0 .. Len(text)
  PROVE  Rest(p) = WordsFrom(text)[p + 1] /\ Rest(p) \in WordSeq
<1>0. Len(text) \in Nat /\ p + 1 \in 1 .. Len(text) + 1
  OBVIOUS
<1>1. WordsFrom(text)[p + 1] \in WordSeq
  BY <1>0, BtWordsType
<1>2. CASE p < Len(text)
  BY <1>1, <1>2 DEF Rest
<1>3. CASE ~(p < Len(text))
  <2>1. p + 1 > Len(text)
    BY <1>0, <1>3
  <2>2. WordsFrom(text)[p + 1] = WordsAt(text, WordsFrom(text), p + 1)
    BY <1>0, BtWordsRule
  <2>3. WordsFrom(text)[p + 1] = <<>>
    BY <2>1, <2>2 DEF WordsAt
  <2> QED
    BY <1>1, <1>3, <2>3 DEF Rest
<1> QED
  BY <1>2, <1>3

\* interpret_line is at a character of the line, unless the line has no newline
\* and it has gone past its end.
LEMMA BtAtText ==
  ASSUME BUFFER_SIZE \in Nat \ {0, 1}, BatchTypeOK, Unread, buf[pos] \notin BI!Eol
  PROVE  \/ pos < Len(text) /\ buf[pos] = text[pos + 1]
         \/ ~nl /\ pos > Len(text)
<1>0. Len(text) \in Nat /\ pos \in Nat /\ nl \in BOOLEAN
  BY DEF BatchTypeOK, Fits
<1>1. CASE pos < Len(text)
  BY <1>0, <1>1 DEF Unread
<1>2. pos # Len(text)
  BY <1>0 DEF Unread, BI!Eol
<1>3. CASE pos > Len(text)
  <2>1. nl => pos = Len(text) + 1
    BY <1>0, <1>3 DEF Unread
  <2> QED
    BY <1>0, <1>3, <2>1 DEF Unread, BI!Eol
<1> QED
  BY <1>0, <1>1, <1>2, <1>3

\* Inside the line a scan ends at its end at the latest.
LEMMA BtScan ==
  ASSUME BUFFER_SIZE \in Nat \ {0, 1}, BatchTypeOK, BufferOK, Unread,
         NEW from \in pos .. Len(text), NEW chars, BI!Eol \subseteq chars
  PROVE  /\ BI!First(from, chars) \in from .. Len(text)
         /\ buf[BI!First(from, chars)] \in chars
         /\ \A k \in from .. BI!First(from, chars) - 1 :
              text[k + 1] \notin chars /\ buf[k] \notin chars
         /\ BI!First(from, chars) < Len(text) =>
              text[BI!First(from, chars) + 1] \in chars
<1>0. /\ Len(text) \in Nat /\ pos \in 0 .. BUFFER_SIZE - 1
      /\ Len(text) + 2 <= BUFFER_SIZE
  BY DEF BatchTypeOK, Fits
<1>1. /\ from \in 0 .. BUFFER_SIZE - 1 /\ "0" \in chars
      /\ Len(text) \in from .. BUFFER_SIZE - 1
  BY <1>0 DEF BI!Eol
<1>2. buf[Len(text)] \in chars
  BY <1>0 DEF Unread, BI!Eol
<1> DEFINE f == BI!First(from, chars)
<1>3. /\ f \in from .. BUFFER_SIZE - 1
      /\ buf[f] \in chars
      /\ \A k \in from .. f - 1 : buf[k] \notin chars
      /\ f <= Len(text)
  BY <1>1, <1>2, BtFirst
<1> HIDE DEF f
<1>4. f \in from .. Len(text)
  BY <1>0, <1>3
<1>5. \A k \in from .. Len(text) - 1 : buf[k] = text[k + 1]
  BY <1>0 DEF Unread
<1>6. ASSUME NEW k \in from .. f - 1
      PROVE  text[k + 1] \notin chars /\ buf[k] \notin chars
  <2>1. k \in from .. Len(text) - 1
    BY <1>0, <1>4
  <2> QED
    BY <1>3, <1>5, <2>1
<1>7. f < Len(text) => text[f + 1] \in chars
  <2>1. f < Len(text) => f \in from .. Len(text) - 1
    BY <1>0, <1>4
  <2> QED
    BY <1>3, <1>5, <2>1
<1> QED
  BY <1>3, <1>4, <1>6, <1>7 DEF f

\* Skipping blanks inside the line leaves its remaining words the same.
LEMMA BtSkipTo ==
  ASSUME BUFFER_SIZE \in Nat \ {0, 1}, BatchTypeOK, BufferOK, Unread,
         NEW from \in pos .. Len(text)
  PROVE  /\ BI!First(from, BI!NotSpace) \in from .. Len(text)
         /\ Rest(BI!First(from, BI!NotSpace)) = Rest(from)
<1>0. /\ Len(text) \in Nat /\ pos \in Nat /\ text \in Seq(TextChars)
      /\ BI!Eol \subseteq BI!NotSpace
  BY DEF BatchTypeOK, Fits, BI!Eol, BI!NotSpace
<1> DEFINE f == BI!First(from, BI!NotSpace)
<1>1. /\ f \in from .. Len(text)
      /\ \A k \in from .. f - 1 : text[k + 1] \notin BI!NotSpace
  BY <1>0, BtScan
<1> HIDE DEF f
<1>2. ASSUME NEW k \in from + 1 .. (f + 1) - 1 PROVE text[k] = "s"
  <2>1. k - 1 \in from .. f - 1 /\ (k - 1) + 1 = k /\ k \in 1 .. Len(text)
    BY <1>0, <1>1
  <2>2. text[k] \notin BI!NotSpace
    BY <1>1, <2>1
  <2>3. text[k] \in TextChars
    BY <1>0, <2>1
  <2> QED
    BY <2>2, <2>3 DEF TextChars, BI!NotSpace
<1>3. from + 1 \in 1 .. Len(text) + 1 /\ f + 1 \in from + 1 .. Len(text) + 1
  BY <1>0, <1>1
<1>4. WordsFrom(text)[from + 1] = WordsFrom(text)[f + 1]
  BY <1>0, <1>2, <1>3, BtSkip
<1>5. from \in 0 .. Len(text) /\ f \in 0 .. Len(text)
  BY <1>0, <1>1
<1> QED
  BY <1>0, <1>1, <1>4, <1>5, BtRest DEF f

\* Sequences: a word in the middle belongs to either side, and a prefix stays
\* one when a word is added.
LEMMA BtMiddle ==
  ASSUME NEW S, NEW a \in Seq(S), NEW w \in S, NEW r \in Seq(S)
  PROVE  Append(a, w) \o r = a \o (<<w>> \o r)
  OBVIOUS

\* A prefix stays one when a word is added.
LEMMA BtPrefixKept ==
  ASSUME NEW S, NEW s \in Seq(S), NEW a \in Seq(S), NEW w \in S, BI!IsPrefix(s, a)
  PROVE  BI!IsPrefix(s, Append(a, w))
<1>0. /\ Len(s) \in Nat /\ Len(a) \in Nat /\ Len(s) <= Len(a)
      /\ Len(Append(a, w)) = Len(a) + 1
  BY DEF BI!IsPrefix
<1>1. SubSeq(a, 1, Len(s)) = SubSeq(Append(a, w), 1, Len(s))
  BY <1>0
<1> QED
  BY <1>0, <1>1 DEF BI!IsPrefix

\* A sequence is its own prefix.
LEMMA BtPrefixSelf ==
  ASSUME NEW S, NEW s \in Seq(S)
  PROVE  BI!IsPrefix(s, s)
  BY DEF BI!IsPrefix

\* The invariant on the line and the buffer, behind one more word.
LEMMA BtUnreadKept ==
  ASSUME BUFFER_SIZE \in Nat \ {0, 1}, BatchTypeOK, BufferOK, Unread,
         UNCHANGED <<text, nl>>,
         NEW c \in 0 .. BUFFER_SIZE - 1,
         buf' = buf \/ buf' = [buf EXCEPT ![c] = "0"],
         pos' \in c + 1 .. BUFFER_SIZE - 1, pos <= pos',
         nl => pos' <= Len(text) + 1
  PROVE  Unread'
<1>0. /\ Len(text) \in Nat /\ pos \in 0 .. BUFFER_SIZE - 1
      /\ Len(text) + 2 <= BUFFER_SIZE /\ DOMAIN buf = 0 .. BUFFER_SIZE - 1
  BY DEF BatchTypeOK, Fits, BufferOK
<1>1. \A k \in pos' .. BUFFER_SIZE - 1 : buf'[k] = buf[k]
  BY <1>0
<1>2. nl => buf'[Len(text) + 1] = "0"
  BY <1>0 DEF Unread
<1>3. pos' <= Len(text) => buf'[Len(text)] = buf[Len(text)] /\ pos <= Len(text)
  BY <1>0, <1>1
<1>4. \A k \in pos' .. Len(text) - 1 : buf'[k] = text[k + 1]
  <2> SUFFICES ASSUME NEW k \in pos' .. Len(text) - 1 PROVE buf'[k] = text[k + 1]
    OBVIOUS
  <2>1. k \in pos .. Len(text) - 1 /\ k \in pos' .. BUFFER_SIZE - 1
    BY <1>0
  <2> QED
    BY <1>1, <2>1 DEF Unread
<1> QED
  BY <1>2, <1>3, <1>4 DEF Unread

\* Where a word ends is known by what is before and at the end.
LEMMA BtStopIs ==
  ASSUME NEW t \in Seq(TextChars), NEW k \in Nat, NEW chars,
         NEW e \in k .. Len(t) + 1, \A j \in k .. e - 1 : t[j] \notin chars,
         e <= Len(t) => t[e] \in chars
  PROVE  StopOf(t, k, chars) = e
<1> DEFINE T == {j \in k .. Len(t) : t[j] \in chars} \cup {Len(t) + 1}
<1>0. Len(t) \in Nat
  OBVIOUS
<1>1. T \in SUBSET Nat /\ e \in T
  BY <1>0
<1>2. \A y \in T : e <= y
  BY <1>0
<1>3. BI!Min(T) = e
  <2> HIDE DEF T
  <2> QED
    BY <1>1, <1>2, BtMinIs
<1> QED
  BY <1>3 DEF StopOf

\* One blank.
LEMMA BtBlank ==
  ASSUME text \in Seq(TextChars), NEW p \in 0 .. Len(text) - 1, text[p + 1] = "s"
  PROVE  Rest(p) = Rest(p + 1)
<1>0. /\ Len(text) \in Nat /\ p \in 0 .. Len(text) /\ p + 1 \in 0 .. Len(text)
      /\ p + 1 \in 1 .. Len(text) + 1 /\ p + 2 \in p + 1 .. Len(text) + 1
      /\ \A k \in p + 1 .. (p + 2) - 1 : k = p + 1
      /\ (p + 1) + 1 = p + 2
  OBVIOUS
<1>1. \A k \in p + 1 .. (p + 2) - 1 : text[k] = "s"
  BY <1>0
<1>2. WordsFrom(text)[p + 1] = WordsFrom(text)[p + 2]
  BY <1>0, <1>1, BtSkip
<1>3. /\ Rest(p) = WordsFrom(text)[p + 1]
      /\ Rest(p + 1) = WordsFrom(text)[(p + 1) + 1]
  BY <1>0, BtRest
<1> QED
  BY <1>0, <1>2, <1>3

\* The words found so far still end before pos.
LEMMA BtArgsEnded ==
  ASSUME BUFFER_SIZE \in Nat \ {0, 1}, BatchTypeOK, BufferOK, ArgsEnded,
         NEW p \in pos .. BUFFER_SIZE - 1, NEW c \in p .. BUFFER_SIZE - 1,
         bargs' = Append(bargs, p), buf' = [buf EXCEPT ![c] = "0"],
         pos' \in c + 1 .. BUFFER_SIZE - 1
  PROVE  ArgsEnded'
<1>0. /\ bargs \in Seq(0 .. BUFFER_SIZE - 1) /\ Len(bargs) \in Nat
      /\ pos \in 0 .. BUFFER_SIZE - 1 /\ c \in 0 .. BUFFER_SIZE - 1
      /\ DOMAIN buf = 0 .. BUFFER_SIZE - 1 /\ p \in Nat
  BY DEF BatchTypeOK, BufferOK
<1>1. ASSUME NEW h \in DOMAIN bargs'
      PROVE  \E e \in bargs'[h] .. pos' - 1 : buf'[e] = "0"
  <2>1. CASE h = Len(bargs) + 1
    <3>1. bargs'[Len(bargs) + 1] = p
      BY <1>0
    <3>2. c \in p .. pos' - 1
      <4> DEFINE z == pos'
      <4>1. z \in Int /\ c \in Int /\ p \in Int /\ c + 1 <= z /\ p <= c
        BY <1>0
      <4> HIDE DEF z
      <4>2. c \in p .. z - 1
        BY <4>1
      <4> QED
        BY <4>2 DEF z
    <3>3. buf'[c] = "0"
      BY <1>0
    <3> QED
      BY <2>1, <3>1, <3>2, <3>3
  <2>2. CASE h # Len(bargs) + 1
    <3>1. h \in DOMAIN bargs /\ bargs'[h] = bargs[h] /\ bargs[h] \in Nat
      BY <1>0, <2>2
    <3>2. PICK e \in bargs[h] .. pos - 1 : buf[e] = "0"
      BY <3>1 DEF ArgsEnded
    <3>3. e \in bargs[h] .. pos' - 1 /\ e \in DOMAIN buf /\ e # c
      <4> DEFINE z == pos'
      <4>1. /\ z \in Int /\ c \in Int /\ p \in Int /\ c + 1 <= z /\ p <= c
            /\ pos <= p
        BY <1>0
      <4>2. e \in Int /\ bargs[h] <= e /\ e <= pos - 1
        BY <1>0, <3>1, <3>2
      <4> HIDE DEF z
      <4>3. e \in bargs[h] .. z - 1 /\ e # c
        BY <1>0, <3>1, <4>1, <4>2
      <4>4. e \in DOMAIN buf
        BY <1>0, <3>1, <4>2
      <4> QED
        BY <4>3, <4>4 DEF z
    <3> QED
      BY <3>1, <3>2, <3>3
  <2> QED
    BY <2>1, <2>2
<1> QED
  BY <1>1 DEF ArgsEnded

\* A word is taken from the rest of the line to argv, or is behind the line.
LEMMA BtNewWord ==
  ASSUME BUFFER_SIZE \in Nat \ {0, 1}, BatchTypeOK, BufferOK, SplitSoFar,
         NEW w \in Seq(Chars), BI!Argv' = Append(BI!Argv, w), UNCHANGED <<text, nl>>,
         NEW q \in Nat,
         \/ /\ pos <= Len(text)
            /\ Rest(pos) = <<w>> \o Rest(q)
         \/ ~nl /\ pos > Len(text) /\ q > Len(text)
  PROVE  /\ nl \/ q <= Len(text) => BI!Argv' \o Rest(q) = BI!Words(text)
         /\ q >= Len(text) => BI!IsPrefix(BI!Words(text), BI!Argv')
         /\ nl /\ q >= Len(text) => BI!Argv' = BI!Words(text)
<1> DEFINE S == Seq(Chars) \cup {"error"}
<1>0. /\ Len(text) \in Nat /\ pos \in Nat /\ text \in Seq(TextChars)
      /\ nl \in BOOLEAN
      /\ bargs \in Seq(0 .. BUFFER_SIZE - 1)
  BY DEF BatchTypeOK, Fits
<1>1. BI!Argv \in Seq(S)
  <2>1. BI!Argv \in Seq(Seq(Chars))
    BY <1>0, BtArgv
  <2> QED
    BY <2>1
<1>2. w \in S
  OBVIOUS
<1>3. Rest(q) \in Seq(S)
  <2>1. CASE q <= Len(text)
    BY <1>0, <2>1, BtRest DEF WordSeq
  <2>2. CASE q > Len(text)
    <3>1. Rest(q) = <<>>
      BY <1>0, <2>2 DEF Rest
    <3> HIDE DEF S
    <3> QED
      BY <3>1
  <2> QED
    BY <1>0, <2>1, <2>2
<1>4. BI!Words(text) \in Seq(S)
  <2>1. 1 \in 1 .. Len(text) + 1
    BY <1>0
  <2> QED
    BY <1>0, <2>1, BtWordsRule, BtWordsType DEF WordSeq
<1> HIDE DEF S
<1>5. q >= Len(text) => Rest(q) = <<>>
  BY <1>0 DEF Rest
<1>6. /\ Append(BI!Argv, w) \in Seq(S)
      /\ Append(BI!Argv, w) \o <<>> = Append(BI!Argv, w)
  BY <1>1, <1>2
<1>7. CASE pos <= Len(text) /\ Rest(pos) = <<w>> \o Rest(q)
  <2>1. BI!Argv \o (<<w>> \o Rest(q)) = BI!Words(text)
    BY <1>7 DEF SplitSoFar
  <2>2. BI!Argv' \o Rest(q) = BI!Words(text)
    <3>1. Append(BI!Argv, w) \o Rest(q) = BI!Argv \o (<<w>> \o Rest(q))
      BY <1>1, <1>2, <1>3, BtMiddle
    <3> QED
      BY <2>1, <3>1
  <2>3. q >= Len(text) => BI!Argv' = BI!Words(text)
    BY <1>5, <1>6, <2>2
  <2> QED
    BY <1>4, <2>2, <2>3, BtPrefixSelf
<1>8. CASE ~nl /\ pos > Len(text) /\ q > Len(text)
  <2>1. BI!IsPrefix(BI!Words(text), BI!Argv)
    BY <1>0, <1>8 DEF SplitSoFar
  <2>2. BI!IsPrefix(BI!Words(text), Append(BI!Argv, w))
    BY <1>1, <1>2, <1>4, <2>1, BtPrefixKept
  <2> QED
    BY <1>0, <1>8, <2>2
<1> QED
  BY <1>7, <1>8

\* A word that is not quoted (interpreter.c:49-61), and the blanks behind it.
LEMMA BtBareWord ==
  ASSUME BUFFER_SIZE \in Nat \ {0, 1}, BatchInv, BI!BareWord
  PROVE  BatchInv'
<1> DEFINE last == BI!First(pos + 1, BI!Eol \cup {"s"})
           w == [m \in 1 .. last - pos |-> buf[pos + m - 1]]
           L == Len(text)
<1>0. /\ BatchTypeOK /\ BufferOK /\ Unread /\ ArgsEnded /\ SplitSoFar
      /\ BI!FailureStops
      /\ bst = "split" /\ buf[pos] = "a"
      /\ bargs' = Append(bargs, pos) /\ buf' = [buf EXCEPT ![last] = "0"]
      /\ pos' = BI!First(last + 1, BI!NotSpace)
      /\ UNCHANGED <<bst, text, nl, bline, results>>
  BY DEF BatchInv, BatchTypeOK, Splitting, BI!BareWord
<1>t. /\ L \in Nat /\ pos \in 0 .. BUFFER_SIZE - 1 /\ text \in Seq(TextChars)
      /\ L + 2 <= BUFFER_SIZE /\ nl \in BOOLEAN
  BY <1>0 DEF BatchTypeOK, Fits
<1>1. pos \in 0 .. BUFFER_SIZE - 3 /\ pos + 1 \in 0 .. BUFFER_SIZE - 1
  BY <1>0, <1>t DEF BufferOK, BI!Eol
<1>2. /\ last \in pos + 1 .. BUFFER_SIZE - 2
      /\ \A k \in pos .. last - 1 : buf[k] \notin BI!Eol
  <2>1. /\ BUFFER_SIZE - 2 \in pos + 1 .. BUFFER_SIZE - 1
        /\ buf[BUFFER_SIZE - 2] \in BI!Eol
    BY <1>0, <1>1 DEF BufferOK
  <2>2. /\ last \in pos + 1 .. BUFFER_SIZE - 1
        /\ \A k \in pos + 1 .. last - 1 : buf[k] \notin BI!Eol \cup {"s"}
        /\ last <= BUFFER_SIZE - 2
    BY <1>0, <1>1, <2>1, BtFirst DEF BI!Eol
  <2> HIDE DEF last
  <2>3. ASSUME NEW k \in pos .. last - 1 PROVE buf[k] \notin BI!Eol
    <3>1. k = pos \/ k \in pos + 1 .. last - 1
      BY <1>t, <2>2
    <3> QED
      BY <1>0, <2>2, <3>1 DEF BI!Eol
  <2> QED
    BY <2>2, <2>3
<1>w. ASSUME pos < L
      PROVE  /\ last \in pos + 1 .. L /\ Rest(pos) = <<w>> \o Rest(last)
             /\ last < L => text[last + 1] = "s"
  <2>1. pos + 1 \in pos .. L /\ text[pos + 1] = "a" /\ pos + 1 \in 1 .. L + 1
    BY <1>0, <1>t, <1>w DEF Unread
  <2>2. /\ last \in pos + 1 .. L
        /\ \A k \in pos + 1 .. last - 1 : text[k + 1] \notin BI!Eol \cup {"s"}
        /\ last < L => text[last + 1] \in BI!Eol \cup {"s"}
    BY <1>0, <2>1, BtScan
  <2> HIDE DEF last
  <2>3. last < L => text[last + 1] = "s"
    <3>1. last < L => text[last + 1] \in TextChars
      BY <1>t, <2>2
    <3> QED
      BY <2>2, <3>1 DEF TextChars, BI!Eol
  <2>4. WordEnd(text, pos + 1) = last + 1
    <3>1. ASSUME NEW j \in pos + 1 .. (last + 1) - 1 PROVE text[j] \notin {"s"}
      <4>1. j = pos + 1 \/ (j - 1 \in pos + 1 .. last - 1 /\ (j - 1) + 1 = j)
        BY <1>t, <2>2
      <4> QED
        BY <2>1, <2>2, <4>1
    <3>2. /\ pos + 1 \in Nat /\ last + 1 \in pos + 1 .. L + 1 
          /\ last + 1 <= L => last < L
      BY <1>t, <2>2
    <3>3. StopOf(text, pos + 1, {"s"}) = last + 1
      BY <1>t, <2>3, <3>1, <3>2, BtStopIs
    <3> QED
      BY <2>1, <3>3 DEF WordEnd
  <2>5. WordsFrom(text)[pos + 1] =
          <<SubSeq(text, pos + 1, last)>> \o WordsFrom(text)[last + 1]
    <3>1. WordsFrom(text)[pos + 1] = WordsAt(text, WordsFrom(text), pos + 1)
      BY <1>t, <2>1, BtWordsRule
    <3>2. ~(pos + 1 > Len(text)) /\ (last + 1) - 1 = last
      BY <1>t, <1>w, <2>2
    <3> QED
      BY <2>1, <2>4, <3>1, <3>2 DEF WordsAt
  <2>6. SubSeq(text, pos + 1, last) = w
    <3>1. /\ SubSeq(text, pos + 1, last) = [m \in 1 .. last - pos |-> text[pos + m]]
      BY <1>t, <2>2
    <3>2. ASSUME NEW m \in 1 .. last - pos PROVE text[pos + m] = buf[pos + m - 1]
      <4>1. pos + m - 1 \in pos .. L - 1 /\ (pos + m - 1) + 1 = pos + m
        BY <1>t, <2>2
      <4> QED
        BY <1>0, <4>1 DEF Unread
    <3> QED
      BY <3>1, <3>2
  <2>7. /\ Rest(pos) = WordsFrom(text)[pos + 1]
        /\ Rest(last) = WordsFrom(text)[last + 1]
    <3>1. pos \in 0 .. L /\ last \in 0 .. L
      BY <1>t, <1>w, <2>2
    <3> QED
      BY <1>t, <3>1, BtRest
  <2> HIDE DEF w
  <2> QED
    BY <2>2, <2>3, <2>5, <2>6, <2>7
<1>n. last + 1 \in 0 .. BUFFER_SIZE - 1 /\ "0" \in BI!NotSpace
  BY <1>t, <1>2 DEF BI!NotSpace
<1>3. pos' \in last + 1 .. BUFFER_SIZE - 1 /\ pos' \in Nat /\ last \in Nat
  <2> HIDE DEF last
  <2>1. pos' \in last + 1 .. BUFFER_SIZE - 1
    BY <1>0, <1>n, BtFirst
  <2> QED
    BY <1>2, <1>t, <2>1
<1>4. BufferOK'
  <2>1. last \in 0 .. BUFFER_SIZE - 1
    BY <1>2, <1>t
  <2> QED
    BY <1>0, <2>1, BtTerminate
<1>5. /\ pos \in pos .. BUFFER_SIZE - 1 /\ last \in pos .. BUFFER_SIZE - 1
      /\ last \in 0 .. BUFFER_SIZE - 1
  BY <1>2, <1>t
<1>6. bargs' \in Seq(0 .. BUFFER_SIZE - 1) /\ BI!Argv' = Append(BI!Argv, w)
  <2> HIDE DEF last
  <2> QED
    BY <1>0, <1>2, <1>4, <1>5, BtArgvGrows
<1>7. ArgsEnded'
  <2> HIDE DEF last
  <2> QED
    BY <1>0, <1>3, <1>5, BtArgsEnded
<1>8. ASSUME pos < L
      PROVE  Rest(pos) = <<w>> \o Rest(pos') /\ (nl => pos' <= L + 1)
  <2>0. /\ last \in pos + 1 .. L /\ Rest(pos) = <<w>> \o Rest(last)
        /\ last < L => text[last + 1] = "s"
    BY <1>8, <1>w
  <2>1. CASE last < L
    <3>1. last + 1 \in pos .. L /\ last \in 0 .. L - 1
      BY <1>2, <1>t, <2>1
    <3>2. pos' \in last + 1 .. L /\ Rest(pos') = Rest(last + 1)
      BY <1>0, <3>1, BtSkipTo
    <3>3. Rest(last) = Rest(last + 1)
      BY <1>t, <2>0, <2>1, <3>1, BtBlank
    <3>5. pos' <= L + 1
      BY <1>t, <3>2
    <3> HIDE DEF last, w
    <3> QED
      BY <2>0, <3>2, <3>3, <3>5
  <2>2. CASE last = L
    <3>1. Rest(last) = <<>> /\ Rest(pos') = <<>>
      BY <1>3, <1>t, <2>2 DEF Rest
    <3>2. nl => pos' <= L + 1
      <4>1. nl => buf[L + 1] \in BI!NotSpace
        BY <1>0 DEF Unread, BI!NotSpace
      <4>2. L + 1 \in last + 1 .. BUFFER_SIZE - 1
        BY <1>t, <2>2
      <4> QED
        BY <1>0, <1>n, <4>1, <4>2, BtFirst
    <3> HIDE DEF last, w
    <3> QED
      BY <2>0, <3>1, <3>2
  <2>3. last < L \/ last = L
    BY <2>0, <1>t
  <2> QED
    BY <2>1, <2>2, <2>3
<1>9. \/ pos < L
      \/ ~nl /\ pos > L
  <2>1. buf[pos] \notin BI!Eol
    BY <1>0 DEF BI!Eol
  <2> QED
    BY <1>0, <2>1, BtAtText
<1>10. w \in Seq(Chars)
  <2> HIDE DEF last
  <2>1. last - pos \in Nat /\ \A m \in 1 .. last - pos : buf[pos + m - 1] \in Chars
    <3>1. \A k \in 0 .. BUFFER_SIZE - 1 : buf[k] \in Chars
      BY <1>0 DEF BufferOK
    <3>2. /\ last - pos \in Nat
          /\ \A m \in 1 .. last - pos : pos + m - 1 \in 0 .. BUFFER_SIZE - 1
      BY <1>2, <1>t
    <3> QED
      BY <3>1, <3>2
  <2> QED
    BY <2>1
<1> HIDE DEF last, w
<1>11. SplitSoFar'
  <2>1. \/ pos <= Len(text) /\ Rest(pos) = <<w>> \o Rest(pos')
        \/ ~nl /\ pos > Len(text) /\ pos' > Len(text)
    BY <1>3, <1>2, <1>8, <1>9, <1>t
  <2>2. /\ nl \/ pos' <= Len(text) => BI!Argv' \o Rest(pos') = BI!Words(text)
        /\ pos' >= Len(text) => BI!IsPrefix(BI!Words(text), BI!Argv')
    BY <1>0, <1>3, <1>6, <1>10, <2>1, BtNewWord
  <2>3. Rest(pos)' = Rest(pos') /\ BI!Words(text)' = BI!Words(text)
    BY <1>0 DEF Rest
  <2>4. ~(pos' <= Len(text)) => pos' >= Len(text)
    BY <1>3, <1>t
  <2> QED
    BY <1>0, <2>2, <2>3, <2>4 DEF SplitSoFar
<1>12. Unread'
  <2>1. nl => pos' <= Len(text) + 1
    BY <1>8, <1>9
  <2>2. pos <= pos'
    BY <1>2, <1>3, <1>t
  <2> QED
    BY <1>0, <1>3, <1>5, <2>1, <2>2, BtUnreadKept
<1>13. BatchTypeOK'
  <2>1. pos' \in 0 .. BUFFER_SIZE - 1
    BY <1>3, <1>t
  <2> QED
    BY <1>0, <1>4, <1>6, <2>1 DEF BatchTypeOK, Fits
<1>14. BI!WordsOfTheLine' /\ BI!FailureStops' /\ (bst = "start" => results = <<>>)'
  BY <1>0 DEF BI!WordsOfTheLine, BI!FailureStops
<1> QED
  BY <1>7, <1>11, <1>12, <1>13, <1>14 DEF BatchInv, Splitting

\* A quoted word (interpreter.c:25-46): it ends at the closing mark, which must
\* be there and be followed by a blank or the end of the line.
LEMMA BtQuotedWord ==
  ASSUME BUFFER_SIZE \in Nat \ {0, 1}, BatchInv, BI!QuotedWord
  PROVE  BatchInv'
<1> DEFINE close == BI!First(pos + 1, BI!Eol \cup {"q"})
           w == [m \in 1 .. close - (pos + 1) |-> buf[(pos + 1) + m - 1]]
           L == Len(text)
<1>0. /\ BatchTypeOK /\ BufferOK /\ Unread /\ ArgsEnded /\ SplitSoFar
      /\ BI!FailureStops
      /\ bst = "split" /\ buf[pos] = "q"
      /\ UNCHANGED <<text, nl, bline, results>>
      /\ IF buf[close] \in BI!Eol \/ buf[close + 1] \notin BI!Eol \cup {"s"}
         THEN bst' = "refused" /\ UNCHANGED <<buf, bargs, pos>>
         ELSE /\ bargs' = Append(bargs, pos + 1)
              /\ buf' = [buf EXCEPT ![close] = "0"]
              /\ IF buf[close + 1] \in BI!Eol THEN bst' = "run" /\ UNCHANGED pos
                 ELSE pos' = BI!First(close + 2, BI!NotSpace) /\ UNCHANGED bst
  BY DEF BatchInv, BatchTypeOK, Splitting, BI!QuotedWord, BI!Terminate
<1>t. /\ L \in Nat /\ pos \in 0 .. BUFFER_SIZE - 1 /\ text \in Seq(TextChars)
      /\ L + 2 <= BUFFER_SIZE /\ nl \in BOOLEAN
      /\ \A k \in 0 .. BUFFER_SIZE - 1 : buf[k] \in Chars
  BY <1>0 DEF BatchTypeOK, Fits, BufferOK
<1>1. pos \in 0 .. BUFFER_SIZE - 3 /\ pos + 1 \in 0 .. BUFFER_SIZE - 1
  BY <1>0, <1>t DEF BufferOK, BI!Eol
<1>2. /\ close \in pos + 1 .. BUFFER_SIZE - 2
      /\ \A k \in pos + 1 .. close - 1 : buf[k] \notin BI!Eol
      /\ buf[close] \in BI!Eol \cup {"q"}
  <2>1. /\ BUFFER_SIZE - 2 \in pos + 1 .. BUFFER_SIZE - 1
        /\ buf[BUFFER_SIZE - 2] \in BI!Eol
    BY <1>0, <1>1 DEF BufferOK
  <2>2. /\ close \in pos + 1 .. BUFFER_SIZE - 1
        /\ \A k \in pos + 1 .. close - 1 : buf[k] \notin BI!Eol \cup {"q"}
        /\ buf[close] \in BI!Eol \cup {"q"}
        /\ close <= BUFFER_SIZE - 2
    BY <1>0, <1>1, <2>1, BtFirst DEF BI!Eol
  <2> HIDE DEF close
  <2> QED
    BY <1>1, <2>2
<1>9. \/ pos < L
      \/ ~nl /\ pos > L
  <2>1. buf[pos] \notin BI!Eol
    BY <1>0 DEF BI!Eol
  <2> QED
    BY <1>0, <2>1, BtAtText
<1>e. ASSUME pos < L
      PROVE  /\ close \in pos + 1 .. L /\ WordEnd(text, pos + 1) = close + 1
             /\ WordsFrom(text)[pos + 1] = WordsAt(text, WordsFrom(text), pos + 1)
             /\ text[pos + 1] = "q" /\ pos + 1 \in 1 .. L
             /\ buf[close] \notin BI!Eol => close < L
             /\ buf[close] \in BI!Eol => close = L
             /\ close + 1 < L => buf[close + 1] = text[close + 2]
  <2>1. /\ pos + 1 \in pos .. L /\ text[pos + 1] = "q" /\ pos + 1 \in 1 .. L
        /\ pos + 1 \in 1 .. L + 1
    BY <1>0, <1>e, <1>t DEF Unread
  <2>2. /\ close \in pos + 1 .. L
        /\ \A k \in pos + 1 .. close - 1 : text[k + 1] \notin BI!Eol \cup {"q"}
        /\ close < L => text[close + 1] \in BI!Eol \cup {"q"}
    BY <1>0, <2>1, BtScan
  <2> HIDE DEF close
  <2>3. close < L => text[close + 1] = "q" /\ buf[close] = "q"
    <3>1. close < L => text[close + 1] \in TextChars /\ close \in pos .. L - 1
      BY <1>t, <2>2
    <3> QED
      BY <1>0, <2>2, <3>1 DEF TextChars, BI!Eol, Unread
  <2>4. close = L => buf[close] \in BI!Eol
    BY <1>0, <1>e, <1>t DEF Unread, BI!Eol
  <2>5. WordEnd(text, pos + 1) = close + 1
    <3>1. ASSUME NEW j \in (pos + 1) + 1 .. (close + 1) - 1
          PROVE  text[j] \notin {"q"}
      <4>1. j - 1 \in pos + 1 .. close - 1 /\ (j - 1) + 1 = j
        BY <1>t, <2>2
      <4> QED
        BY <2>2, <4>1
    <3>2. /\ (pos + 1) + 1 \in Nat /\ close + 1 \in (pos + 1) + 1 .. L + 1
          /\ (close + 1 <= L => close < L)
      BY <1>t, <2>2
    <3>3. StopOf(text, (pos + 1) + 1, {"q"}) = close + 1
      BY <1>t, <2>3, <3>1, <3>2, BtStopIs
    <3> QED
      BY <2>1, <3>3 DEF WordEnd
  <2>6. WordsFrom(text)[pos + 1] = WordsAt(text, WordsFrom(text), pos + 1)
    BY <1>t, <2>1, BtWordsRule
  <2>7. close + 1 < L => buf[close + 1] = text[close + 2]
    <3>1. close + 1 < L => close + 1 \in pos .. L - 1 /\ (close + 1) + 1 = close + 2
      BY <1>t, <2>2
    <3> QED
      BY <1>0, <3>1 DEF Unread
  <2>8. close < L \/ close = L
    BY <1>t, <2>2
  <2>9. "q" \notin BI!Eol
    BY DEF BI!Eol
  <2> QED
    BY <2>1, <2>2, <2>3, <2>4, <2>5, <2>6, <2>7, <2>8, <2>9
<1> HIDE DEF close
<1>3. CASE buf[close] \in BI!Eol \/ buf[close + 1] \notin BI!Eol \cup {"s"}
  <2>0. bst' = "refused" /\ UNCHANGED <<buf, bargs, pos>>
    BY <1>0, <1>3
  <2>1. BatchTypeOK' /\ BI!FailureStops'
    BY <1>0, <2>0 DEF BatchTypeOK, Fits, BufferOK, BI!FailureStops
  <2>2. ASSUME nl PROVE "error" \in BI!Range(BI!Words(text))
    <3>1. pos < L
      BY <1>9, <2>2
    <3>2. WordsFrom(text)[pos + 1] = <<"error">>
      <4> DEFINE end == WordEnd(text, pos + 1)
      <4>1. end = close + 1
        BY <1>e, <3>1
      <4>2. end > L \/ (end < L /\ text[end + 1] # "s")
        <5>1. CASE buf[close] \in BI!Eol
          BY <1>e, <1>t, <3>1, <4>1, <5>1
        <5>2. CASE buf[close] \notin BI!Eol
          <6>1. /\ close + 1 <= L /\ buf[close + 1] \notin BI!Eol
                /\ buf[close + 1] # "s"
            BY <1>3, <1>e, <1>t, <3>1, <5>2
          <6>2. close + 1 # L
            <7>1. buf[L] \in BI!Eol
              BY <1>0, <1>t, <3>1 DEF Unread, BI!Eol
            <7> QED
              BY <6>1, <7>1
          <6>3. close + 1 < L /\ (close + 1) + 1 = close + 2
            BY <1>2, <1>t, <6>1, <6>2
          <6> QED
            BY <1>e, <3>1, <4>1, <6>1, <6>3
        <5> QED
          BY <5>1, <5>2
      <4> HIDE DEF end
      <4>3. ~(pos + 1 > Len(text))
        BY <1>e, <1>t, <3>1
      <4>4. /\ WordsFrom(text)[pos + 1] = WordsAt(text, WordsFrom(text), pos + 1)
            /\ text[pos + 1] = "q"
        BY <1>e, <3>1
      <4> QED
        BY <4>2, <4>3, <4>4 DEF WordsAt, end
    <3>3. BI!Argv \o <<"error">> = BI!Words(text)
      <4>1. Rest(pos) = <<"error">>
        BY <3>1, <3>2 DEF Rest
      <4> QED
        BY <1>0, <2>2, <4>1 DEF SplitSoFar
    <3>4. BI!Argv \in Seq(Seq(Chars))
      BY <1>0, BtArgv DEF BatchTypeOK
    <3>5. /\ Len(BI!Argv) + 1 \in DOMAIN (BI!Argv \o <<"error">>)
          /\ (BI!Argv \o <<"error">>)[Len(BI!Argv) + 1] = "error"
      BY <3>4
    <3> QED
      BY <3>3, <3>5 DEF BI!Range
  <2>3. BI!WordsOfTheLine'
    BY <1>0, <2>0, <2>2 DEF BI!WordsOfTheLine
  <2> QED
    BY <2>0, <2>1, <2>3 DEF BatchInv, Splitting
<1>4. CASE ~(buf[close] \in BI!Eol \/ buf[close + 1] \notin BI!Eol \cup {"s"})
  <2>0. /\ bargs' = Append(bargs, pos + 1) /\ buf' = [buf EXCEPT ![close] = "0"]
        /\ buf[close + 1] \in BI!Eol => bst' = "run" /\ pos' = pos
        /\ buf[close + 1] \notin BI!Eol =>
             pos' = BI!First(close + 2, BI!NotSpace) /\ bst' = bst
    BY <1>0, <1>4
  <2>1. /\ close \in pos + 1 .. BUFFER_SIZE - 3 /\ close \in 0 .. BUFFER_SIZE - 1
        /\ pos + 1 \in pos .. BUFFER_SIZE - 1 /\ close \in pos + 1 .. BUFFER_SIZE - 1
    <3>1. close # BUFFER_SIZE - 2
      BY <1>0, <1>4 DEF BufferOK
    <3> QED
      BY <1>1, <1>2, <3>1
  <2>2. BufferOK'
    BY <1>0, <2>0, <2>1, BtTerminate
  <2>3. bargs' \in Seq(0 .. BUFFER_SIZE - 1) /\ BI!Argv' = Append(BI!Argv, w)
    BY <1>0, <1>2, <2>0, <2>1, <2>2, BtArgvGrows
  <2>4. w \in Seq(Chars)
    <3>1. /\ close - (pos + 1) \in Nat
          /\ \A m \in 1 .. close - (pos + 1) :
               (pos + 1) + m - 1 \in 0 .. BUFFER_SIZE - 1
      BY <1>1, <2>1
    <3>2. \A m \in 1 .. close - (pos + 1) : buf[(pos + 1) + m - 1] \in Chars
      BY <1>t, <3>1
    <3> QED
      BY <3>1, <3>2
  <2>5. ASSUME pos < L
        PROVE  close + 1 \in pos .. L /\ Rest(pos) = <<w>> \o Rest(close + 1)
    <3>1. close + 1 \in pos .. L /\ close + 1 \in 0 .. L
      BY <1>1, <1>4, <1>e, <1>t, <2>1, <2>5
    <3>2. SubSeq(text, (pos + 1) + 1, close) = w
      <4>1. SubSeq(text, (pos + 1) + 1, close) =
              [m \in 1 .. close - (pos + 1) |-> text[(pos + 1) + m]]
        BY <1>1, <1>t, <2>1, <3>1
      <4>2. ASSUME NEW m \in 1 .. close - (pos + 1)
            PROVE  text[(pos + 1) + m] = buf[(pos + 1) + m - 1]
        <5>1. /\ (pos + 1) + m - 1 \in pos .. L - 1
              /\ ((pos + 1) + m - 1) + 1 = (pos + 1) + m
          BY <1>1, <1>t, <2>1, <3>1
        <5> QED
          BY <1>0, <5>1 DEF Unread
      <4> QED
        BY <4>1, <4>2
    <3>3. /\ ~(close + 1 > Len(text))
          /\ ~(close + 1 < Len(text) /\ text[(close + 1) + 1] # "s")
      <4>1. (close + 1) + 1 = close + 2 /\ ~(close + 1 > Len(text))
        BY <1>t, <2>1, <3>1
      <4>2. close + 1 < L => buf[close + 1] \in TextChars
        <5>1. close + 1 < L => close + 2 \in 1 .. L
          BY <1>1, <1>t, <2>1
        <5> QED
          BY <1>e, <1>t, <2>5, <5>1
      <4>3. close + 1 < L => text[close + 2] = "s"
        BY <1>4, <1>e, <2>5, <4>2 DEF TextChars, BI!Eol
      <4> QED
        BY <4>1, <4>3
    <3>4. WordsFrom(text)[pos + 1] =
            <<SubSeq(text, (pos + 1) + 1, close)>> \o WordsFrom(text)[(close + 1) + 1]
      <4>1. /\ WordsFrom(text)[pos + 1] = WordsAt(text, WordsFrom(text), pos + 1)
            /\ text[pos + 1] = "q" /\ WordEnd(text, pos + 1) = close + 1
            /\ ~(pos + 1 > Len(text)) /\ (close + 1) - 1 = close
        BY <1>e, <1>t, <2>1, <2>5
      <4> HIDE DEF w
      <4> QED
        BY <3>3, <4>1 DEF WordsAt
    <3>5. /\ Rest(pos) = WordsFrom(text)[pos + 1]
          /\ Rest(close + 1) = WordsFrom(text)[(close + 1) + 1]
      <4>1. pos \in 0 .. L
        BY <1>t, <2>5
      <4> QED
        BY <1>t, <3>1, <4>1, BtRest
    <3> HIDE DEF w
    <3> QED
      BY <3>1, <3>2, <3>4, <3>5
  <2> HIDE DEF w
  <2>6. CASE buf[close + 1] \in BI!Eol
    <3>0. bst' = "run" /\ pos' = pos
      BY <2>0, <2>6
    <3>1. pos < L => close + 1 = L
      <4>1. close + 1 < L => close + 1 \in pos .. L - 1
        BY <1>1, <1>t, <2>1
      <4>2. close + 1 < L => buf[close + 1] \in TextChars
        <5>1. close + 1 < L => (close + 1) + 1 \in 1 .. L
          BY <1>t, <2>1
        <5> QED
          BY <1>0, <1>t, <4>1, <5>1 DEF Unread
      <4> QED
        BY <1>t, <2>1, <2>5, <2>6, <4>2 DEF TextChars, BI!Eol
    <3>2. \/ pos <= Len(text) /\ Rest(pos) = <<w>> \o Rest(close + 1)
          \/ ~nl /\ pos > Len(text) /\ close + 1 > Len(text)
      BY <1>9, <1>t, <2>1, <2>5
    <3>3. close + 1 >= Len(text) /\ close + 1 \in Nat
      BY <1>9, <1>t, <2>1, <3>1
    <3>4. /\ BI!IsPrefix(BI!Words(text), BI!Argv')
          /\ nl => BI!Argv' = BI!Words(text)
      BY <1>0, <2>3, <2>4, <3>2, <3>3, BtNewWord
    <3>5. BI!WordsOfTheLine'
      BY <1>0, <3>0, <3>4 DEF BI!WordsOfTheLine
    <3>6. BatchTypeOK' /\ BI!FailureStops'
      BY <1>0, <2>2, <2>3, <3>0 DEF BatchTypeOK, Fits, BI!FailureStops
    <3> QED
      BY <3>0, <3>5, <3>6 DEF BatchInv, Splitting
  <2>7. CASE buf[close + 1] \notin BI!Eol
    <3>0. pos' = BI!First(close + 2, BI!NotSpace) /\ bst' = bst
      BY <2>0, <2>7
    <3>1. close + 2 \in 0 .. BUFFER_SIZE - 1 /\ "0" \in BI!NotSpace
      BY <1>t, <2>1 DEF BI!NotSpace
    <3>2. pos' \in close + 2 .. BUFFER_SIZE - 1
      BY <1>0, <3>0, <3>1, BtFirst
    <3>3. /\ pos' \in Nat /\ pos' \in close + 1 .. BUFFER_SIZE - 1
          /\ pos <= pos' /\ pos' \in 0 .. BUFFER_SIZE - 1
      BY <1>t, <2>1, <3>2
    <3>4. ASSUME pos < L
          PROVE  Rest(pos) = <<w>> \o Rest(pos') /\ pos' <= L
      <4>1. close + 1 < L /\ buf[close + 1] = "s"
        <5>1. close + 1 # L
          BY <1>0, <2>5, <2>7, <3>4 DEF Unread, BI!Eol
        <5> QED
          BY <1>4, <1>t, <2>1, <2>5, <2>7, <3>4, <5>1
      <4>2. /\ text[(close + 1) + 1] = "s" /\ close + 1 \in 0 .. L - 1
            /\ close + 2 \in pos .. L
            /\ (close + 1) + 1 = close + 2
        BY <1>e, <1>t, <2>1, <3>4, <4>1
      <4>3. Rest(close + 1) = Rest(close + 2)
        BY <1>t, <4>2, BtBlank
      <4>4. pos' \in close + 2 .. L /\ Rest(pos') = Rest(close + 2)
        BY <1>0, <3>0, <4>2, BtSkipTo
      <4> QED
        BY <1>t, <2>5, <3>4, <4>3, <4>4
    <3>5. SplitSoFar'
      <4>1. \/ pos <= Len(text) /\ Rest(pos) = <<w>> \o Rest(pos')
            \/ ~nl /\ pos > Len(text) /\ pos' > Len(text)
        BY <1>9, <1>t, <3>3, <3>4
      <4>2. /\ nl \/ pos' <= Len(text) => BI!Argv' \o Rest(pos') = BI!Words(text)
            /\ pos' >= Len(text) => BI!IsPrefix(BI!Words(text), BI!Argv')
        BY <1>0, <2>3, <2>4, <3>3, <4>1, BtNewWord
      <4>3. Rest(pos)' = Rest(pos') /\ BI!Words(text)' = BI!Words(text)
        BY <1>0 DEF Rest
      <4>4. ~(pos' <= Len(text)) => pos' >= Len(text)
        BY <3>3, <1>t
      <4> QED
        BY <1>0, <4>2, <4>3, <4>4 DEF SplitSoFar
    <3>6. ArgsEnded'
      BY <1>0, <2>0, <2>1, <3>3, BtArgsEnded
    <3>7. Unread'
      <4>1. nl => pos' <= Len(text) + 1
        BY <1>9, <1>t, <3>3, <3>4
      <4> QED
        BY <1>0, <2>0, <2>1, <3>3, <4>1, BtUnreadKept
    <3>8. BatchTypeOK'
      BY <1>0, <2>2, <2>3, <3>0, <3>3 DEF BatchTypeOK, Fits
    <3>9. BI!WordsOfTheLine' /\ BI!FailureStops' /\ (bst = "start" => results = <<>>)'
      BY <1>0, <3>0 DEF BI!WordsOfTheLine, BI!FailureStops
    <3> QED
      BY <3>5, <3>6, <3>7, <3>8, <3>9 DEF BatchInv, Splitting
  <2> QED
    BY <2>6, <2>7
<1> QED
  BY <1>3, <1>4

\* Blanks between words (interpreter.c:63-69): the words of the rest of the
\* line stay the same.
LEMMA BtBlanks ==
  ASSUME BUFFER_SIZE \in Nat \ {0, 1}, BatchInv, BI!Blanks
  PROVE  BatchInv'
<1> DEFINE L == Len(text)
<1>0. /\ BatchTypeOK /\ BufferOK /\ Unread /\ ArgsEnded /\ SplitSoFar
      /\ BI!FailureStops
      /\ bst = "split" /\ buf[pos] = "s" /\ pos' = BI!First(pos + 1, BI!NotSpace)
      /\ bst' = bst /\ buf' = buf /\ bargs' = bargs /\ text' = text /\ nl' = nl
      /\ results' = results
  BY DEF BatchInv, BatchTypeOK, Splitting, BI!Blanks
<1>t. /\ L \in Nat /\ pos \in 0 .. BUFFER_SIZE - 1 /\ text \in Seq(TextChars)
      /\ L + 2 <= BUFFER_SIZE /\ nl \in BOOLEAN
  BY <1>0 DEF BatchTypeOK, Fits
<1>1. pos + 1 \in 0 .. BUFFER_SIZE - 1 /\ "0" \in BI!NotSpace
  BY <1>0, <1>t DEF BufferOK, BI!NotSpace
<1>2. pos' \in pos + 1 .. BUFFER_SIZE - 1
  BY <1>0, <1>1, BtFirst
<1>3. pos' \in 0 .. BUFFER_SIZE - 1 /\ pos <= pos' /\ pos' \in Nat
  BY <1>t, <1>2
<1>4. \/ pos < L /\ text[pos + 1] = "s"
      \/ ~nl /\ pos > L
  BY <1>0, BtAtText DEF BI!Eol
<1>5. ASSUME pos < L
      PROVE  pos' \in pos + 1 .. L /\ Rest(pos') = Rest(pos)
  <2>1. pos + 1 \in pos .. L /\ pos \in 0 .. L - 1 /\ text[pos + 1] = "s"
    BY <1>4, <1>5, <1>t
  <2>2. Rest(pos) = Rest(pos + 1)
    BY <1>t, <2>1, BtBlank
  <2> QED
    BY <1>0, <2>1, <2>2, BtSkipTo
<1>6. BI!Argv' = BI!Argv
  BY <1>0 DEF BI!Argv
<1>7. SplitSoFar'
  <2>1. Rest(pos)' = Rest(pos') /\ BI!Words(text)' = BI!Words(text)
    BY <1>0 DEF Rest
  <2>2. CASE pos < L
    BY <1>0, <1>5, <1>6, <1>t, <2>1, <2>2 DEF SplitSoFar
  <2>3. CASE ~nl /\ pos > L
    <3>1. ~(pos' <= L) /\ ~(pos <= L)
      BY <1>t, <1>3, <2>3
    <3> QED
      BY <1>0, <1>6, <2>1, <2>3, <3>1 DEF SplitSoFar
  <2> QED
    BY <1>4, <2>2, <2>3
<1>8. ArgsEnded'
  <2> DEFINE z == pos'
  <2>0. z \in Nat /\ pos \in Nat /\ pos <= z
    BY <1>3, <1>t
  <2> HIDE DEF z
  <2>1. ASSUME NEW h \in DOMAIN bargs, NEW e \in bargs[h] .. pos - 1
        PROVE  e \in bargs[h] .. z - 1
    <3>1. bargs[h] \in Nat
      BY <1>0 DEF BatchTypeOK
    <3> QED
      BY <2>0, <3>1
  <2>2. \A h \in DOMAIN bargs : \E e \in bargs[h] .. z - 1 : buf[e] = "0"
    BY <1>0, <2>1 DEF ArgsEnded
  <2> QED
    BY <1>0, <2>2 DEF ArgsEnded, z
<1>9. Unread'
  <2>1. nl => pos' <= L + 1
    BY <1>4, <1>5, <1>t, <1>3
  <2> QED
    BY <1>0, <1>2, <1>3, <1>t, <2>1, BtUnreadKept
<1>10. BatchTypeOK'
  BY <1>0, <1>3 DEF BatchTypeOK, Fits, BufferOK
<1>11. BI!WordsOfTheLine' /\ BI!FailureStops' /\ (bst = "start" => results = <<>>)'
  BY <1>0 DEF BI!WordsOfTheLine, BI!FailureStops
<1> QED
  BY <1>7, <1>8, <1>9, <1>10, <1>11 DEF BatchInv, Splitting

\* The end of the line (interpreter.c:19-22): the words found are its words.
LEMMA BtLineDone ==
  ASSUME BUFFER_SIZE \in Nat \ {0, 1}, BatchInv, BI!LineDone
  PROVE  BatchInv'
<1> DEFINE L == Len(text)
<1>0. /\ BatchTypeOK /\ BufferOK /\ Unread /\ SplitSoFar /\ BI!FailureStops
      /\ bst = "split" /\ buf[pos] \in BI!Eol /\ bst' = "run"
      /\ pos' = pos /\ buf' = buf /\ bargs' = bargs /\ text' = text /\ nl' = nl
      /\ results' = results
  BY DEF BatchInv, BatchTypeOK, Splitting, BI!LineDone
<1>t. /\ L \in Nat /\ pos \in 0 .. BUFFER_SIZE - 1 /\ text \in Seq(TextChars)
      /\ nl \in BOOLEAN /\ bargs \in Seq(0 .. BUFFER_SIZE - 1)
  BY <1>0 DEF BatchTypeOK, Fits
<1>1. ~(pos < L)
  <2>1. SUFFICES ASSUME pos < L PROVE FALSE
    OBVIOUS
  <2>2. pos \in pos .. L - 1 /\ pos + 1 \in 1 .. L
    BY <1>t, <2>1
  <2>3. buf[pos] \in TextChars
    BY <1>0, <1>t, <2>2 DEF Unread
  <2> QED
    BY <1>0, <2>3 DEF TextChars, BI!Eol
<1>2. Rest(pos) = <<>>
  BY <1>1 DEF Rest
<1>3. BI!Argv \in Seq(Seq(Chars))
  BY <1>0, <1>t, BtArgv
<1>4. BI!Argv \o <<>> = BI!Argv
  BY <1>3
<1>5. nl \/ pos <= L => BI!Argv = BI!Words(text)
  BY <1>0, <1>2, <1>4 DEF SplitSoFar
<1>6. ~nl => BI!IsPrefix(BI!Words(text), BI!Argv)
  <2>1. CASE pos <= L
    BY <1>3, <1>5, <2>1, BtPrefixSelf
  <2>2. CASE ~(pos <= L)
    BY <1>0, <2>2 DEF SplitSoFar
  <2> QED
    BY <2>1, <2>2
<1>7. BI!Argv' = BI!Argv /\ BI!Words(text)' = BI!Words(text)
  BY <1>0 DEF BI!Argv
<1>8. BI!WordsOfTheLine'
  BY <1>0, <1>5, <1>6, <1>7 DEF BI!WordsOfTheLine
<1>9. BatchTypeOK' /\ BI!FailureStops'
  BY <1>0 DEF BatchTypeOK, Fits, BufferOK, BI!FailureStops
<1> QED
  BY <1>0, <1>8, <1>9 DEF BatchInv, Splitting

\* A line is read (interpreter.c:81): it fits into the buffer, and nothing
\* of it has been split yet.
LEMMA BtFgets ==
  ASSUME BUFFER_SIZE \in Nat \ {0, 1}, BatchInv, NEW t, Fits(t),
         NEW newline \in BOOLEAN, BI!Fgets(t, newline)
  PROVE  BatchInv'
<1> DEFINE put == t \o (IF newline THEN <<"n", "0">> ELSE <<"0">>)
           L == Len(t)
<1>0. /\ BatchTypeOK /\ BufferOK /\ BI!FailureStops /\ bst = "read"
      /\ buf' = [k \in DOMAIN buf |-> IF k < Len(put) THEN put[k + 1] ELSE buf[k]]
      /\ text' = t /\ nl' = newline /\ pos' = 0 /\ bargs' = <<>>
      /\ bst' = "split" /\ results' = results
  BY DEF BatchInv, BatchTypeOK, BI!Fgets
<1>t. t \in Seq(TextChars) /\ L \in Nat /\ L + 2 <= BUFFER_SIZE
  BY DEF Fits
<1>b. /\ buf \in [0 .. BUFFER_SIZE - 1 -> Chars]
      /\ DOMAIN buf = 0 .. BUFFER_SIZE - 1
      /\ buf[BUFFER_SIZE - 2] \in BI!Eol /\ buf[BUFFER_SIZE - 1] = "0"
  BY <1>0 DEF BufferOK
<1>1. /\ Len(put) = IF newline THEN L + 2 ELSE L + 1
      /\ \A k \in 1 .. L : put[k] = t[k]
      /\ put[L + 1] = IF newline THEN "n" ELSE "0"
      /\ newline => put[L + 2] = "0"
  <2>1. CASE newline
    BY <1>t, <2>1
  <2>2. CASE ~newline
    BY <1>t, <2>2
  <2> QED
    BY <2>1, <2>2
<1> HIDE DEF put
<1>2. /\ \A k \in 0 .. L - 1 : buf'[k] = t[k + 1]
      /\ buf'[L] = IF newline THEN "n" ELSE "0"
      /\ newline => buf'[L + 1] = "0"
      /\ \A k \in Len(put) .. BUFFER_SIZE - 1 : buf'[k] = buf[k]
      /\ DOMAIN buf' = 0 .. BUFFER_SIZE - 1
      /\ buf' = [k \in 0 .. BUFFER_SIZE - 1 |-> buf'[k]]
  <2>1. ASSUME NEW k \in 0 .. L - 1 PROVE buf'[k] = t[k + 1]
    <3>1. k \in 0 .. BUFFER_SIZE - 1 /\ k < Len(put) /\ k + 1 \in 1 .. L
      BY <1>1, <1>t
    <3> QED
      BY <1>0, <1>1, <1>b, <3>1
  <2>2. buf'[L] = IF newline THEN "n" ELSE "0"
    <3>1. L \in 0 .. BUFFER_SIZE - 1 /\ L < Len(put)
      BY <1>1, <1>t
    <3> QED
      BY <1>0, <1>1, <1>b, <3>1
  <2>3. newline => buf'[L + 1] = "0"
    <3>1. newline => /\ L + 1 \in 0 .. BUFFER_SIZE - 1
                     /\ L + 1 < Len(put) /\ (L + 1) + 1 = L + 2
      BY <1>1, <1>t
    <3> QED
      BY <1>0, <1>1, <1>b, <3>1
  <2>4. ASSUME NEW k \in Len(put) .. BUFFER_SIZE - 1 PROVE buf'[k] = buf[k]
    <3>1. k \in 0 .. BUFFER_SIZE - 1 /\ ~(k < Len(put))
      BY <1>1, <1>t
    <3> QED
      BY <1>0, <1>b, <3>1
  <2>5. /\ DOMAIN buf' = 0 .. BUFFER_SIZE - 1
        /\ buf' = [k \in 0 .. BUFFER_SIZE - 1 |-> buf'[k]]
    BY <1>0, <1>b
  <2> QED
    BY <2>1, <2>2, <2>3, <2>4, <2>5
<1>3. BufferOK'
  <2>1. ASSUME NEW k \in 0 .. BUFFER_SIZE - 1 PROVE buf'[k] \in Chars
    <3>1. \/ k \in 0 .. L - 1
          \/ k = L \/ (newline /\ k = L + 1)
          \/ k \in Len(put) .. BUFFER_SIZE - 1
      BY <1>1, <1>t
    <3>2. CASE k \in 0 .. L - 1
      <4>1. t[k + 1] \in TextChars
        BY <1>t, <3>2
      <4> QED
        BY <1>2, <3>2, <4>1 DEF TextChars, Chars
    <3>3. CASE k = L \/ (newline /\ k = L + 1)
      BY <1>2, <3>3 DEF Chars
    <3>4. CASE k \in Len(put) .. BUFFER_SIZE - 1
      BY <1>2, <1>b, <3>4
    <3> QED
      BY <3>1, <3>2, <3>3, <3>4
  <2>2. buf'[BUFFER_SIZE - 1] = "0"
    <3>1. \/ newline /\ BUFFER_SIZE - 1 = L + 1
          \/ BUFFER_SIZE - 1 \in Len(put) .. BUFFER_SIZE - 1
      BY <1>1, <1>t
    <3> QED
      BY <1>2, <1>b, <3>1
  <2>3. buf'[BUFFER_SIZE - 2] \in BI!Eol
    <3>1. \/ BUFFER_SIZE - 2 = L \/ (newline /\ BUFFER_SIZE - 2 = L + 1)
          \/ BUFFER_SIZE - 2 \in Len(put) .. BUFFER_SIZE - 1
      BY <1>1, <1>t
    <3> QED
      BY <1>2, <1>b, <3>1 DEF BI!Eol
  <2> QED
    BY <1>2, <2>1, <2>2, <2>3 DEF BufferOK
<1>4. Unread'
  <2>1. \A k \in 0 .. L - 1 : buf'[k] = t[k + 1]
    BY <1>2
  <2>2. 0 <= L + 1
    BY <1>t
  <2> QED
    BY <1>0, <1>2, <2>1, <2>2 DEF Unread
<1>5. BI!Argv' = <<>>
  <2>1. DOMAIN bargs' = {}
    BY <1>0
  <2> QED
    BY <2>1 DEF BI!Argv
<1>6. SplitSoFar'
  <2>1. pos' \in 0 .. L /\ pos' <= L /\ pos' + 1 = 1
    BY <1>0, <1>t
  <2>2. BI!Words(t) = WordsFrom(t)[1] /\ WordsFrom(t)[1] \in WordSeq
    <3>1. 1 \in 1 .. L + 1
      BY <1>t
    <3> QED
      BY <1>t, <3>1, BtWordsRule, BtWordsType
  <2>3. Rest(pos)' = BI!Words(t)
    <3>1. CASE 0 < L
      BY <1>0, <2>1, <2>2, <3>1 DEF Rest
    <3>2. CASE ~(0 < L)
      <4>1. WordsFrom(t)[1] = WordsAt(t, WordsFrom(t), 1) /\ 1 > L
        <5>1. 1 \in 1 .. L + 1 /\ 1 > L
          BY <1>t, <3>2
        <5> QED
          BY <1>t, <5>1, BtWordsRule
      <4>2. WordsFrom(t)[1] = <<>>
        BY <4>1 DEF WordsAt
      <4> QED
        BY <1>0, <2>2, <3>2, <4>2 DEF Rest
    <3> QED
      BY <3>1, <3>2
  <2>4. <<>> \o BI!Words(t) = BI!Words(t)
    BY <2>2 DEF WordSeq
  <2>5. BI!Words(text)' = BI!Words(t) /\ (nl \/ pos <= Len(text))'
    BY <1>0, <2>1
  <2> QED
    BY <1>5, <2>3, <2>4, <2>5 DEF SplitSoFar
<1>7. ArgsEnded'
  BY <1>0 DEF ArgsEnded
<1>8. BatchTypeOK'
  <2>1. /\ pos' \in 0 .. BUFFER_SIZE - 1
        /\ bargs' \in Seq(0 .. BUFFER_SIZE - 1) /\ nl' \in BOOLEAN
    BY <1>0
  <2>2. Fits(text)'
    BY <1>0 DEF Fits
  <2> QED
    BY <1>0, <1>3, <2>1, <2>2 DEF BatchTypeOK
<1>9. BI!WordsOfTheLine' /\ BI!FailureStops' /\ (bst = "start" => results = <<>>)'
  BY <1>0 DEF BI!WordsOfTheLine, BI!FailureStops
<1> QED
  BY <1>4, <1>6, <1>7, <1>8, <1>9 DEF BatchInv, Splitting

\* interpret_file begins (interpreter.c:77): the buffer holds something that
\* ends within it.
LEMMA BtEnter ==
  ASSUME BUFFER_SIZE \in Nat \ {0, 1}, BatchInv, BI!Enter
  PROVE  BatchInv'
<1>0. /\ BatchTypeOK /\ bst = "start" /\ results = <<>>
      /\ bst' = "read" /\ UNCHANGED <<pos, bargs, text, nl, results>>
  BY DEF BatchInv, BI!Enter
<1>1. PICK c \in {"a", "0"} :
        buf' = [k \in 0 .. BUFFER_SIZE - 1 |-> IF k < BUFFER_SIZE - 2 THEN c ELSE "0"]
  BY DEF BI!Enter
<1>2. BufferOK'
  BY <1>1 DEF BufferOK, Chars, BI!Eol
<1>3. BatchTypeOK'
  BY <1>0, <1>2 DEF BatchTypeOK, Fits
<1>4. BI!FailureStops'
  BY <1>0 DEF BI!FailureStops, BI!Range
<1> QED
  BY <1>0, <1>3, <1>4 DEF BatchInv, Splitting, BI!WordsOfTheLine

\* The end of the file, and a line without words.
LEMMA BtNothing ==
  ASSUME BatchInv, BI!EndOfFile \/ BI!NoCommand
  PROVE  BatchInv'
<1>0. /\ BatchTypeOK /\ BI!FailureStops /\ bst \in {"read", "run"}
      /\ bst' \in {"ended", "read"} /\ UNCHANGED <<buf, pos, bargs, text, nl, results>>
  BY DEF BatchInv, BI!EndOfFile, BI!NoCommand
<1>1. BatchTypeOK'
  BY <1>0 DEF BatchTypeOK, Fits, BufferOK
<1>2. BI!FailureStops'
  BY <1>0 DEF BI!FailureStops
<1> QED
  BY <1>0, <1>1, <1>2 DEF BatchInv, Splitting, BI!WordsOfTheLine

\* A command is run (command_runner.c): the script goes on only if it has
\* succeeded.
LEMMA BtRunCommand ==
  ASSUME BatchInv, NEW result \in BI!Results, BI!RunCommand(result)
  PROVE  BatchInv'
<1>0. /\ BatchTypeOK /\ BufferOK /\ BI!FailureStops /\ bst = "run"
      /\ results \in Seq(BI!Results) /\ results' = Append(results, result)
      /\ bst' = IF BI!Succeeded(result) THEN "read"
               ELSE IF result = "error" THEN "ended" ELSE "failed"
      /\ UNCHANGED <<buf, pos, bargs, text, nl>>
  BY DEF BatchInv, BatchTypeOK, BI!RunCommand
<1>1. BatchTypeOK'
  <2>1. results' \in Seq(BI!Results)
    BY <1>0
  <2> QED
    BY <1>0, <2>1 DEF BatchTypeOK, Fits, BufferOK
<1>2. /\ Len(results) \in Nat /\ Len(results') = Len(results) + 1
      /\ \A k \in 1 .. Len(results) : results'[k] = results[k]
      /\ results'[Len(results) + 1] = result
      /\ DOMAIN results' = 1 .. Len(results) + 1 /\ DOMAIN results = 1 .. Len(results)
  BY <1>0
<1>3. \A k \in 1 .. Len(results) : results[k] \in {"0", "signal"}
  BY <1>0, <1>2 DEF BI!FailureStops, BI!Range
<1>4. BI!FailureStops'
  <2>1. ASSUME NEW k \in 1 .. Len(results') - 1
        PROVE  results'[k] \notin {"error", "1", "127"}
    <3>1. k \in 1 .. Len(results)
      BY <1>2
    <3> QED
      BY <1>2, <1>3, <3>1
  <2>2. ASSUME bst' \in {"read", "split", "run"}, NEW r \in BI!Range(results')
        PROVE  r \in {"0", "signal"}
    <3>1. BI!Succeeded(result)
      BY <1>0, <2>2
    <3>2. PICK k \in 1 .. Len(results) + 1 : r = results'[k]
      BY <1>2 DEF BI!Range
    <3>3. k \in 1 .. Len(results) \/ k = Len(results) + 1
      BY <1>2
    <3> QED
      BY <1>2, <1>3, <3>1, <3>2, <3>3 DEF BI!Succeeded
  <2> QED
    BY <2>1, <2>2 DEF BI!FailureStops
<1>5. bst' \notin {"split", "run", "refused", "start"}
  BY <1>0
<1> QED
  BY <1>1, <1>4, <1>5 DEF BatchInv, Splitting, BI!WordsOfTheLine

\* BatchInv is inductive.
LEMMA BtStep ==
  ASSUME BUFFER_SIZE \in Nat \ {0, 1}, \A t \in Texts : Fits(t),
         BatchInv, [BI!Next]_(BI!vars)
  PROVE  BatchInv'
<1>1. CASE UNCHANGED BI!vars
  <2>1. BI!Argv' = BI!Argv
    BY <1>1 DEF BI!Argv, BI!vars
  <2>2. UNCHANGED <<bst, buf, pos, bargs, text, nl, results>>
    BY <1>1 DEF BI!vars
  <2>3. BatchTypeOK'
    BY <2>2 DEF BatchInv, BatchTypeOK, Fits, BufferOK
  <2>4. Splitting'
    BY <2>1, <2>2 DEF BatchInv, Splitting, Unread, ArgsEnded, SplitSoFar, Rest
  <2>5. BI!WordsOfTheLine' /\ BI!FailureStops'
    BY <2>1, <2>2 DEF BatchInv, BI!WordsOfTheLine, BI!FailureStops
  <2> QED
    BY <2>2, <2>3, <2>4, <2>5 DEF BatchInv
<1>2. CASE \E t \in Texts, newline \in BOOLEAN : BI!Fgets(t, newline)
  BY <1>2, BtFgets
<1>3. CASE \E result \in BI!Results : BI!RunCommand(result)
  BY <1>3, BtRunCommand
<1>4. CASE \/ BI!Enter \/ BI!EndOfFile \/ BI!LineDone \/ BI!QuotedWord
           \/ BI!BareWord \/ BI!Blanks \/ BI!NoCommand
  BY <1>4, BtEnter, BtNothing, BtLineDone, BtQuotedWord, BtBareWord, BtBlanks
<1> QED
  BY <1>1, <1>2, <1>3, <1>4 DEF BI!Next

\* RunAsWritten (interpreter.c:16-131): whatever the lines and however many,
\* each command gets the words of its line, a malformed line is refused, and
\* nothing is run after a failure.  BUFFER_SIZE is the program's, and the lines
\* are those that fit into the buffer (fgets hands over a longer one in pieces)
\* and have fewer than ARGS_MAX words, which the model does not bound.
THEOREM ScriptRunAsWritten ==
  ASSUME BUFFER_SIZE \in Nat \ {0, 1}, \A t \in Texts : Fits(t)
  PROVE  BI!Spec => []RunAsWritten
<1>1. BI!Init => BatchInv
  <2> SUFFICES ASSUME BI!Init PROVE BatchInv
    OBVIOUS
  <2>1. BatchTypeOK
    BY DEF BI!Init, BatchTypeOK, Fits
  <2>2. BI!FailureStops
    BY DEF BI!Init, BI!FailureStops, BI!Range
  <2> QED
    BY <2>1, <2>2 DEF BI!Init, BatchInv, Splitting, BI!WordsOfTheLine
<1>2. BatchInv /\ [BI!Next]_(BI!vars) => BatchInv'
  BY BtStep
<1>3. BatchInv => RunAsWritten
  BY DEF BatchInv, RunAsWritten, BI!RunAsWritten
<1> QED
  BY <1>1, <1>2, <1>3, PTL DEF BI!Spec
=============================================================================
