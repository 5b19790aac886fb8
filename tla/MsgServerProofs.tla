--------------------------- MODULE MsgServerProofs ---------------------------
(***************************************************************************)
(* The slots and the answers of the cw06 server, proved for any number of  *)
(* clients, slots and lines and any size of the queues: IInv, below,       *)
(* is inductive in the POSIX build when SIGINT comes only in the middle of *)
(* a session (WholeSessions).  One lemma for each action, under it one     *)
(* step for each conjunct of IInv; <1>f is what the action changes.        *)
(***************************************************************************)
EXTENDS MsgServer, WellFoundedInduction, TLAPS

(***************************************************************************)
(* The inductive invariant behind SlotsOwned and AnswersMatch.  It holds   *)
(* in the POSIX build when SIGINT comes only in the middle of a session:   *)
(* a handshake that is interrupted leaves its slot taken, and so does, in  *)
(* the System V build, a STOP that names slot 0 before the handshake.      *)
(***************************************************************************)
WholeSessions == POSIXQ /\ InterruptAt \subseteq {"prompt", "await"}

Serving == srv # "exited"
Owns(c, i) == /\ ~clients[i].stopped
              /\ clients[i].pid = c
              /\ clients[i].queue = c

(* A client's queue is there from before its handshake until its cleanup.  *)
QueuesThere ==
  \A c \in Clients :
    /\ pc[c] \in {"greet", "shake", "close", "sigclose"} \/ InSession(c)
         => c \in queues
    /\ pc[c] \in {"laststop", "lastclose"} => c \notin queues

(* Slots in use: one at most for each client, none before its handshake,   *)
(* and its own for a client in session or with a reply to its handshake.   *)
SlotsApart ==
  /\ \A i, j \in Ids : ~clients[i].stopped /\ ~clients[j].stopped
                        /\ clients[i].pid = clients[j].pid => i = j
  /\ \A i \in Ids, c \in Clients :
       ~clients[i].stopped /\ clients[i].pid = c
       => pc[c] \notin {"prepare", "greet"}
  /\ \A c \in Clients : InSession(c) => Owns(c, client_id[c])
  /\ \A c \in Clients : pc[c] = "shake" /\ cqueue[c] # <<>> =>
       Owns(c, Head(cqueue[c]).client_id)

(* Each message in the server's queue fits what its sender is doing: a     *)
(* HANDSHAKE is of a client without a slot, all others name their sender's *)
(* slot, a request is the line typed last, and STOP comes when it leaves.  *)
MessageFits(m) ==
  LET c == m.from IN
  IF m.type = "HANDSHAKE"
  THEN /\ pc[c] = "shake" /\ cqueue[c] = <<>>
       /\ \A i \in Ids : ~clients[i].stopped => clients[i].pid # c
  ELSE /\ m.client_id = client_id[c] /\ Owns(c, client_id[c])
       /\ pc[c] \notin {"prepare", "greet", "shake", "prompt"}
       /\ m.type = "STOP" => ~InSession(c)
       /\ m.type = "END" => pc[c] = "ended" \/ c \in nostop
       /\ m.type \in Requests => pc[c] \notin {"ended", "stop"}
       /\ m.type \in Requests /\ pc[c] = "await" =>
            /\ cqueue[c] = <<>>
            /\ m.type = buf[c].word
            /\ m.text = Text(c, buf[c], lines[c])

MessagesFit == \A k \in 1 .. Len(inbox) : MessageFits(inbox[k])

(* Two messages of one client are a request and the STOP that follows it.  *)
MessagesInOrder ==
  \A j, k \in 1 .. Len(inbox) :
    j < k /\ inbox[j].from = inbox[k].from =>
      inbox[j].type \in Requests /\ inbox[k].type = "STOP"

(* A response is for the owner of the slot: its id while it waits for it,  *)
(* or the answer to its last line.                                         *)
ResponseFits ==
  srv = "respond" =>
    LET i == response.client_id
        c == clients[i].pid
    IN  /\ c \in Clients /\ Owns(c, i)
        /\ pc[c] \notin {"prompt", "ended", "stop"}
        /\ pc[c] = "shake" => cqueue[c] = <<>>
        /\ pc[c] = "await" =>
             /\ cqueue[c] = <<>>
             /\ client_id[c] = i
             /\ response.buf = Expected(c, buf[c].word)
             /\ \A k \in 1 .. Len(inbox) :
                  inbox[k].from = c => inbox[k].type \notin Requests

(* Before the handshake nothing comes to a client, and only one that has   *)
(* sent END does not send STOP.                                            *)
QuietEnds ==
  \A c \in Clients :
    /\ pc[c] \in {"prepare", "greet"} => cqueue[c] = <<>>
    /\ c \in nostop => pc[c] \in {"stop", "close", "gone"}

ServingInv == SlotsApart /\ MessagesFit /\ MessagesInOrder /\ ResponseFits

IInv == /\ TypeOK
        /\ QueuesThere
        /\ QuietEnds
        /\ AnswersMatch
        /\ NoSlotLeaked
        /\ Serving => ServingInv
-----------------------------------------------------------------------------
\* The server's search finds a slot that is free, if there is one.
LEMMA FirstFreeIsFree ==
  ASSUME FreeSlots # {} PROVE FirstFree \in Ids /\ clients[FirstFree].stopped
<1>1. FreeSlots \subseteq Nat
  BY SizeAssumption DEF FreeSlots, Ids
<1>2. PICK i \in FreeSlots :
        \A j \in FreeSlots : ~(<<j, i>> \in OpToRel(<, Nat))
  BY <1>1, NatLessThanWellFounded, WFMin
<1>3. \A j, k \in Nat : j < k => <<j, k>> \in OpToRel(<, Nat)
  BY DEF OpToRel
<1>4. \A j \in FreeSlots : ~(j < i)
  BY <1>1, <1>2, <1>3, Zenon
<1>5. \A j \in FreeSlots : i <= j
  BY <1>1, <1>4
<1>6. FirstFree \in FreeSlots
  BY <1>5 DEF FirstFree
<1> QED
  BY <1>6 DEF FreeSlots

\* A queue with one message more, at its end.
LEMMA Appended ==
  ASSUME NEW M, NEW q \in Seq(M), NEW m \in M
  PROVE  /\ Append(q, m) \in Seq(M)
         /\ Len(Append(q, m)) = Len(q) + 1
         /\ \A k \in 1 .. Len(q) : Append(q, m)[k] = q[k]
         /\ Append(q, m)[Len(q) + 1] = m
  OBVIOUS

\* A queue without its first message.
LEMMA Taken ==
  ASSUME NEW M, NEW q \in Seq(M), q # <<>>
  PROVE  /\ Head(q) = q[1] /\ q[1] \in M /\ Len(q) \in Nat \ {0}
         /\ Tail(q) \in Seq(M)
         /\ Len(Tail(q)) = Len(q) - 1
         /\ \A k \in 1 .. Len(q) - 1 : Tail(q)[k] = q[k + 1]
  OBVIOUS


\* NoSlotLeaked with the places of the messages in the server's queue.
SlotHeld(i) ==
  \E c \in Clients :
    /\ clients[i].pid = c
    /\ \/ pc[c] = "shake"
       \/ InSession(c) /\ client_id[c] = i
       \/ c \in nostop
       \/ srv = "exited"
       \/ \E k \in 1 .. Len(inbox) : /\ inbox[k].from = c
                                    /\ inbox[k].type = "STOP"
                                    /\ inbox[k].client_id = i

\* The two forms agree, in the state before a step and after it.
LEMMA LeaksByPlace ==
  /\ NoSlotLeaked <=> \A i \in Ids : ~clients[i].stopped => SlotHeld(i)
  /\ NoSlotLeaked' <=> \A i \in Ids : ~clients'[i].stopped => SlotHeld(i)'
<1>1. NoSlotLeaked <=> \A i \in Ids : ~clients[i].stopped => SlotHeld(i)
  <2>1. ASSUME NEW i \in Ids, NEW c \in Clients
        PROVE  (\E m \in From(c) : m.type = "STOP" /\ m.client_id = i)
               <=> \E k \in 1 .. Len(inbox) : /\ inbox[k].from = c
                                              /\ inbox[k].type = "STOP"
                                              /\ inbox[k].client_id = i
    BY Zenon DEF From, Messages
  <2> QED
    BY <2>1 DEF NoSlotLeaked, SlotHeld
<1>2. NoSlotLeaked' <=> \A i \in Ids : ~clients'[i].stopped => SlotHeld(i)'
  <2>1. ASSUME NEW i \in Ids, NEW c \in Clients
        PROVE  (\E m \in From(c)' : m.type = "STOP" /\ m.client_id = i)
               <=> \E k \in 1 .. Len(inbox') : /\ inbox'[k].from = c
                                               /\ inbox'[k].type = "STOP"
                                               /\ inbox'[k].client_id = i
    BY Zenon DEF From, Messages
  <2> QED
    BY <2>1 DEF NoSlotLeaked, SlotHeld
<1> QED
  BY <1>1, <1>2

\* The server takes the first message off its queue; the ones behind it of the
\* same client are a STOP behind a request.
LEMMA FirstMessage ==
  ASSUME IInv, NEW m, Received(m)
  PROVE  /\ srv = "receive" /\ ServingInv
         /\ m \in Message /\ MessageFits(m)
         /\ inbox' \in Seq(Message) /\ Len(inbox') <= QueueMax
         /\ \A k \in 1 .. Len(inbox') :
              /\ k + 1 \in 1 .. Len(inbox)
              /\ inbox'[k] = inbox[k + 1]
              /\ inbox'[k] \in Message
              /\ MessageFits(inbox'[k])
              /\ inbox'[k].from = m.from =>
                   m.type \in Requests /\ inbox'[k].type = "STOP"
         /\ \A k \in 1 .. Len(inbox) :
              inbox[k] # m => \E j \in 1 .. Len(inbox') : inbox'[j] = inbox[k]
<1>1. /\ srv = "receive" /\ inbox # << >> /\ m = Head(inbox)
      /\ inbox' = Tail(inbox)
  BY DEF Received
<1>2. inbox \in Seq(Message) /\ Len(inbox) <= QueueMax
  BY DEF IInv, TypeOK
<1>3. ServingInv
  BY <1>1 DEF IInv, Serving
<1>4. /\ m = inbox[1] /\ Len(inbox) \in Nat \ {0} /\ inbox' \in Seq(Message)
      /\ Len(inbox') = Len(inbox) - 1
      /\ \A k \in 1 .. Len(inbox) - 1 : inbox'[k] = inbox[k + 1]
  BY <1>1, <1>2, Taken
<1>5. m \in Message /\ MessageFits(m) /\ Len(inbox') <= QueueMax
  BY <1>2, <1>3, <1>4, SizeAssumption DEF ServingInv, MessagesFit
<1>6. ASSUME NEW k \in 1 .. Len(inbox')
      PROVE  /\ k + 1 \in 1 .. Len(inbox)
             /\ inbox'[k] = inbox[k + 1]
             /\ inbox'[k] \in Message
             /\ MessageFits(inbox'[k])
             /\ inbox'[k].from = m.from =>
                  m.type \in Requests /\ inbox'[k].type = "STOP"
  <2>1. k + 1 \in 1 .. Len(inbox) /\ 1 < k + 1 /\ 1 \in 1 .. Len(inbox)
    BY <1>4
  <2>2. inbox'[k] = inbox[k + 1] /\ inbox'[k] \in Message
    BY <1>2, <1>4, <2>1
  <2>3. MessageFits(inbox'[k])
    BY <1>3, <2>1, <2>2 DEF ServingInv, MessagesFit
  <2>4. inbox'[k].from = m.from =>
          m.type \in Requests /\ inbox'[k].type = "STOP"
    BY <1>3, <1>4, <2>1, <2>2 DEF ServingInv, MessagesInOrder
  <2> QED
    BY <2>1, <2>2, <2>3, <2>4
<1>7. ASSUME NEW k \in 1 .. Len(inbox), inbox[k] # m
      PROVE  \E j \in 1 .. Len(inbox') : inbox'[j] = inbox[k]
  <2>1. k - 1 \in 1 .. Len(inbox') /\ inbox'[k - 1] = inbox[(k - 1) + 1]
    BY <1>4, <1>7
  <2> QED
    BY <2>1
<1> QED
  BY <1>1, <1>3, <1>4, <1>5, <1>6, <1>7

\* mirror_text turns a text around.
LEMMA MirrorBackwards ==
  /\ mirror_text(<< >>) = << >>
  /\ \A x, y : mirror_text(<<x, y>>) = <<y, x>>
  BY DEF mirror_text

\* The client creates its queue and opens the server's.
LEMMA PrepareQueuesKeeps ==
  ASSUME WholeSessions, IInv, NEW c \in Clients, PrepareQueues(c)
  PROVE  IInv'
<1> USE SizeAssumption, NameAssumption DEF Goto, userVars, serverVars
<1>a. /\ TypeOK /\ QueuesThere /\ QuietEnds /\ AnswersMatch /\ NoSlotLeaked
      /\ Serving => SlotsApart /\ MessagesFit /\ MessagesInOrder /\ ResponseFits
  BY DEF IInv, ServingInv
<1>b. /\ pc \in [Clients -> ClientLabels] /\ client_id \in [Clients -> Ids]
      /\ cqueue \in [Clients -> Seq(Reply)]
  BY <1>a DEF TypeOK
<1>i. inbox \in Seq(Message) /\ Len(inbox) <= QueueMax
  BY <1>a DEF TypeOK
<1>1. TypeOK'
  BY <1>a, <1>b DEF TypeOK, Ids, ClientLabels, Slot, PrepareQueues
<1>2. QueuesThere'
  BY <1>a, <1>b DEF QueuesThere, InSession, PrepareQueues
<1>3. QuietEnds'
  BY <1>a, <1>b DEF QuietEnds, PrepareQueues
<1>4. AnswersMatch'
  BY <1>a, <1>b DEF AnswersMatch, Expected, PrepareQueues
<1>5. NoSlotLeaked'
  BY <1>a, <1>b DEF NoSlotLeaked, InSession, From, Messages, PrepareQueues
<1>6. ASSUME Serving' PROVE ServingInv'
  <2>a. Serving /\ SlotsApart /\ MessagesFit /\ MessagesInOrder /\ ResponseFits
    BY <1>a, <1>6 DEF Serving, PrepareQueues
  <2>1. SlotsApart'
    BY <1>a, <1>b, <2>a DEF SlotsApart, InSession, Owns, PrepareQueues
  <2>2. MessagesFit'
    BY <1>a, <1>b, <2>a DEF MessagesFit, MessageFits, InSession, Owns, Text,
       PrepareQueues
  <2>3. MessagesInOrder'
    BY <1>a, <1>b, <2>a DEF MessagesInOrder, PrepareQueues
  <2>4. ResponseFits'
    BY <1>a, <1>b, <2>a DEF ResponseFits, Owns, Expected, PrepareQueues
  <2> QED BY <2>1, <2>2, <2>3, <2>4 DEF ServingInv
<1> QED BY <1>1, <1>2, <1>3, <1>4, <1>5, <1>6 DEF IInv

\* The client's queue cannot be created.
LEMMA PrepareFailsKeeps ==
  ASSUME WholeSessions, IInv, NEW c \in Clients, PrepareFails(c)
  PROVE  IInv'
<1> USE SizeAssumption, NameAssumption DEF Goto, userVars, serverVars
<1>a. /\ TypeOK /\ QueuesThere /\ QuietEnds /\ AnswersMatch /\ NoSlotLeaked
      /\ Serving => SlotsApart /\ MessagesFit /\ MessagesInOrder /\ ResponseFits
  BY DEF IInv, ServingInv
<1>b. /\ pc \in [Clients -> ClientLabels] /\ client_id \in [Clients -> Ids]
      /\ cqueue \in [Clients -> Seq(Reply)]
  BY <1>a DEF TypeOK
<1>i. inbox \in Seq(Message) /\ Len(inbox) <= QueueMax
  BY <1>a DEF TypeOK
<1>1. TypeOK'
  BY <1>a, <1>b DEF TypeOK, Ids, ClientLabels, Slot, PrepareFails
<1>2. QueuesThere'
  BY <1>a, <1>b DEF QueuesThere, InSession, PrepareFails
<1>3. QuietEnds'
  BY <1>a, <1>b DEF QuietEnds, PrepareFails
<1>4. AnswersMatch'
  BY <1>a, <1>b DEF AnswersMatch, Expected, PrepareFails
<1>5. NoSlotLeaked'
  BY <1>a, <1>b DEF NoSlotLeaked, InSession, From, Messages, PrepareFails
<1>6. ASSUME Serving' PROVE ServingInv'
  <2>a. Serving /\ SlotsApart /\ MessagesFit /\ MessagesInOrder /\ ResponseFits
    BY <1>a, <1>6 DEF Serving, PrepareFails
  <2>1. SlotsApart'
    BY <1>a, <1>b, <2>a DEF SlotsApart, InSession, Owns, PrepareFails
  <2>2. MessagesFit'
    BY <1>a, <1>b, <2>a DEF MessagesFit, MessageFits, InSession, Owns, Text,
       PrepareFails
  <2>3. MessagesInOrder'
    BY <1>a, <1>b, <2>a DEF MessagesInOrder, PrepareFails
  <2>4. ResponseFits'
    BY <1>a, <1>b, <2>a DEF ResponseFits, Owns, Expected, PrepareFails
  <2> QED BY <2>1, <2>2, <2>3, <2>4 DEF ServingInv
<1> QED BY <1>1, <1>2, <1>3, <1>4, <1>5, <1>6 DEF IInv

\* The client's input is at its end.
LEMMA EndOfInputKeeps ==
  ASSUME WholeSessions, IInv, NEW c \in Clients, EndOfInput(c)
  PROVE  IInv'
<1> USE SizeAssumption, NameAssumption DEF Goto, userVars, serverVars
<1>a. /\ TypeOK /\ QueuesThere /\ QuietEnds /\ AnswersMatch /\ NoSlotLeaked
      /\ Serving => SlotsApart /\ MessagesFit /\ MessagesInOrder /\ ResponseFits
  BY DEF IInv, ServingInv
<1>b. /\ pc \in [Clients -> ClientLabels] /\ client_id \in [Clients -> Ids]
      /\ cqueue \in [Clients -> Seq(Reply)]
  BY <1>a DEF TypeOK
<1>i. inbox \in Seq(Message) /\ Len(inbox) <= QueueMax
  BY <1>a DEF TypeOK
<1>1. TypeOK'
  BY <1>a, <1>b DEF TypeOK, Ids, ClientLabels, Slot, EndOfInput
<1>2. QueuesThere'
  BY <1>a, <1>b DEF QueuesThere, InSession, EndOfInput
<1>3. QuietEnds'
  BY <1>a, <1>b DEF QuietEnds, EndOfInput
<1>4. AnswersMatch'
  BY <1>a, <1>b DEF AnswersMatch, Expected, EndOfInput
<1>5. NoSlotLeaked'
  BY <1>a, <1>b DEF NoSlotLeaked, InSession, From, Messages, EndOfInput
<1>6. ASSUME Serving' PROVE ServingInv'
  <2>a. Serving /\ SlotsApart /\ MessagesFit /\ MessagesInOrder /\ ResponseFits
    BY <1>a, <1>6 DEF Serving, EndOfInput
  <2>1. SlotsApart'
    BY <1>a, <1>b, <2>a DEF SlotsApart, InSession, Owns, EndOfInput
  <2>2. MessagesFit'
    BY <1>a, <1>b, <2>a DEF MessagesFit, MessageFits, InSession, Owns, Text,
       EndOfInput
  <2>3. MessagesInOrder'
    BY <1>a, <1>b, <2>a DEF MessagesInOrder, EndOfInput
  <2>4. ResponseFits'
    BY <1>a, <1>b, <2>a DEF ResponseFits, Owns, Expected, EndOfInput
  <2> QED BY <2>1, <2>2, <2>3, <2>4 DEF ServingInv
<1> QED BY <1>1, <1>2, <1>3, <1>4, <1>5, <1>6 DEF IInv

\* After END the client leaves without a STOP.
LEMMA ExitQuietlyKeeps ==
  ASSUME WholeSessions, IInv, NEW c \in Clients, ExitQuietly(c)
  PROVE  IInv'
<1> USE SizeAssumption, NameAssumption DEF Goto, userVars, serverVars
<1>a. /\ TypeOK /\ QueuesThere /\ QuietEnds /\ AnswersMatch /\ NoSlotLeaked
      /\ Serving => SlotsApart /\ MessagesFit /\ MessagesInOrder /\ ResponseFits
  BY DEF IInv, ServingInv
<1>b. /\ pc \in [Clients -> ClientLabels] /\ client_id \in [Clients -> Ids]
      /\ cqueue \in [Clients -> Seq(Reply)]
  BY <1>a DEF TypeOK
<1>i. inbox \in Seq(Message) /\ Len(inbox) <= QueueMax
  BY <1>a DEF TypeOK
<1>1. TypeOK'
  BY <1>a, <1>b DEF TypeOK, Ids, ClientLabels, Slot, ExitQuietly
<1>2. QueuesThere'
  BY <1>a, <1>b DEF QueuesThere, InSession, ExitQuietly
<1>3. QuietEnds'
  BY <1>a, <1>b DEF QuietEnds, ExitQuietly
<1>4. AnswersMatch'
  BY <1>a, <1>b DEF AnswersMatch, Expected, ExitQuietly
<1>5. NoSlotLeaked'
  BY <1>a, <1>b DEF NoSlotLeaked, InSession, From, Messages, ExitQuietly
<1>6. ASSUME Serving' PROVE ServingInv'
  <2>a. Serving /\ SlotsApart /\ MessagesFit /\ MessagesInOrder /\ ResponseFits
    BY <1>a, <1>6 DEF Serving, ExitQuietly
  <2>1. SlotsApart'
    BY <1>a, <1>b, <2>a DEF SlotsApart, InSession, Owns, ExitQuietly
  <2>2. MessagesFit'
    BY <1>a, <1>b, <2>a DEF MessagesFit, MessageFits, InSession, Owns, Text,
       ExitQuietly
  <2>3. MessagesInOrder'
    BY <1>a, <1>b, <2>a DEF MessagesInOrder, ExitQuietly
  <2>4. ResponseFits'
    BY <1>a, <1>b, <2>a DEF ResponseFits, Owns, Expected, ExitQuietly
  <2> QED BY <2>1, <2>2, <2>3, <2>4 DEF ServingInv
<1> QED BY <1>1, <1>2, <1>3, <1>4, <1>5, <1>6 DEF IInv

\* SIGINT at the prompt or while the client waits for an answer.
LEMMA InterruptKeeps ==
  ASSUME WholeSessions, IInv, NEW c \in Clients, Interrupt(c)
  PROVE  IInv'
<1> USE SizeAssumption, NameAssumption DEF Goto, userVars, serverVars
<1>a. /\ TypeOK /\ QueuesThere /\ QuietEnds /\ AnswersMatch /\ NoSlotLeaked
      /\ Serving => SlotsApart /\ MessagesFit /\ MessagesInOrder /\ ResponseFits
  BY DEF IInv, ServingInv
<1>b. /\ pc \in [Clients -> ClientLabels] /\ client_id \in [Clients -> Ids]
      /\ cqueue \in [Clients -> Seq(Reply)]
  BY <1>a DEF TypeOK
<1>i. inbox \in Seq(Message) /\ Len(inbox) <= QueueMax
  BY <1>a DEF TypeOK
<1>1. TypeOK'
  BY <1>a, <1>b DEF TypeOK, Ids, ClientLabels, Slot, Interrupt, WholeSessions
<1>2. QueuesThere'
  BY <1>a, <1>b DEF QueuesThere, InSession, Interrupt, WholeSessions
<1>3. QuietEnds'
  BY <1>a, <1>b DEF QuietEnds, Interrupt, WholeSessions
<1>4. AnswersMatch'
  BY <1>a, <1>b DEF AnswersMatch, Expected, Interrupt, WholeSessions
<1>5. NoSlotLeaked'
  BY <1>a, <1>b DEF NoSlotLeaked, InSession, From, Messages, Interrupt,
     WholeSessions
<1>6. ASSUME Serving' PROVE ServingInv'
  <2>a. Serving /\ SlotsApart /\ MessagesFit /\ MessagesInOrder /\ ResponseFits
    BY <1>a, <1>6 DEF Serving, Interrupt, WholeSessions
  <2>1. SlotsApart'
    BY <1>a, <1>b, <2>a DEF SlotsApart, InSession, Owns, Interrupt,
       WholeSessions
  <2>2. MessagesFit'
    <3> SUFFICES ASSUME NEW k \in 1 .. Len(inbox)
                 PROVE  MessageFits(inbox[k])'
      BY DEF MessagesFit, Interrupt, WholeSessions
    <3>1. MessageFits(inbox[k]) /\ inbox[k] \in Message /\ inbox' = inbox
      BY <2>a, <1>i DEF MessagesFit, Interrupt, WholeSessions
    <3>2. CASE inbox[k].from = c
      BY <1>b, <3>1, <3>2 DEF MessageFits, Message, InSession, Owns, Text,
         Requests, Interrupt, WholeSessions
    <3>3. CASE inbox[k].from # c
      BY <1>b, <3>1, <3>3 DEF MessageFits, Message, InSession, Owns, Text,
         Interrupt, WholeSessions
    <3> QED BY <3>2, <3>3
  <2>3. MessagesInOrder'
    BY <1>a, <1>b, <2>a DEF MessagesInOrder, Interrupt, WholeSessions
  <2>4. ResponseFits'
    BY <1>a, <1>b, <2>a DEF ResponseFits, Owns, Expected, Interrupt,
       WholeSessions
  <2> QED BY <2>1, <2>2, <2>3, <2>4 DEF ServingInv
<1> QED BY <1>1, <1>2, <1>3, <1>4, <1>5, <1>6 DEF IInv

\* cleanup, second half: the client's queue is removed.
LEMMA RemoveQueueKeeps ==
  ASSUME WholeSessions, IInv, NEW c \in Clients, RemoveQueue(c)
  PROVE  IInv'
<1> USE SizeAssumption, NameAssumption DEF Goto, userVars, serverVars
<1>a. /\ TypeOK /\ QueuesThere /\ QuietEnds /\ AnswersMatch /\ NoSlotLeaked
      /\ Serving => SlotsApart /\ MessagesFit /\ MessagesInOrder /\ ResponseFits
  BY DEF IInv, ServingInv
<1>b. /\ pc \in [Clients -> ClientLabels] /\ client_id \in [Clients -> Ids]
      /\ cqueue \in [Clients -> Seq(Reply)]
  BY <1>a DEF TypeOK
<1>i. inbox \in Seq(Message) /\ Len(inbox) <= QueueMax
  BY <1>a DEF TypeOK
<1>c. /\ cqueue' \in [Clients -> Seq(Reply)]
      /\ \A d \in Clients : Len(cqueue'[d]) <= QueueMax
  <2>1. << >> \in Seq(Reply) /\ Len(<< >>) = 0
    OBVIOUS
  <2>2. cqueue' = [cqueue EXCEPT ![c] = << >>]
    BY DEF RemoveQueue
  <2>3. \A d \in Clients : Len(cqueue[d]) <= QueueMax
    BY <1>a DEF TypeOK
  <2>4. \A d \in Clients : Len(cqueue'[d]) <= QueueMax
    BY <1>b, <2>1, <2>2, <2>3
  <2> QED
    BY <1>b, <2>1, <2>2, <2>4
<1>1. TypeOK'
  BY <1>a, <1>b, <1>c DEF TypeOK, Ids, ClientLabels, Slot, RemoveQueue
<1>2. QueuesThere'
  BY <1>a, <1>b, <1>c DEF QueuesThere, InSession, RemoveQueue
<1>3. QuietEnds'
  BY <1>a, <1>b, <1>c DEF QuietEnds, RemoveQueue
<1>4. AnswersMatch'
  BY <1>a, <1>b, <1>c DEF AnswersMatch, Expected, RemoveQueue
<1>5. NoSlotLeaked'
  BY <1>a, <1>b, <1>c DEF NoSlotLeaked, InSession, From, Messages, RemoveQueue
<1>6. ASSUME Serving' PROVE ServingInv'
  <2>a. Serving /\ SlotsApart /\ MessagesFit /\ MessagesInOrder /\ ResponseFits
    BY <1>a, <1>6, <1>c DEF Serving, RemoveQueue
  <2>1. SlotsApart'
    BY <1>a, <1>b, <1>c, <2>a DEF SlotsApart, InSession, Owns, RemoveQueue
  <2>2. MessagesFit'
    BY <1>a, <1>b, <1>c, <2>a DEF MessagesFit, MessageFits, InSession, Owns,
       Text, RemoveQueue
  <2>3. MessagesInOrder'
    BY <1>a, <1>b, <1>c, <2>a DEF MessagesInOrder, RemoveQueue
  <2>4. ResponseFits'
    BY <1>a, <1>b, <1>c, <2>a DEF ResponseFits, Owns, Expected, RemoveQueue
  <2> QED BY <2>1, <2>2, <2>3, <2>4 DEF ServingInv
<1> QED BY <1>1, <1>2, <1>3, <1>4, <1>5, <1>6 DEF IInv

\* The HANDSHAKE of a client that has no slot and no message under way.
LEMMA SendHandshakeKeeps ==
  ASSUME WholeSessions, IInv, NEW c \in Clients, SendHandshake(c)
  PROVE  IInv'
<1> USE SizeAssumption, NameAssumption DEF Goto, userVars, serverVars
<1>a. /\ TypeOK /\ QueuesThere /\ QuietEnds /\ AnswersMatch /\ NoSlotLeaked
      /\ Serving => SlotsApart /\ MessagesFit /\ MessagesInOrder /\ ResponseFits
  BY DEF IInv, ServingInv
<1>b. /\ pc \in [Clients -> ClientLabels] /\ client_id \in [Clients -> Ids]
      /\ cqueue \in [Clients -> Seq(Reply)]
  BY <1>a DEF TypeOK
<1>i. inbox \in Seq(Message) /\ Len(inbox) <= QueueMax
  BY <1>a DEF TypeOK
<1> DEFINE m == [type |-> "HANDSHAKE", client_id |-> client_id[c],
                 from |-> c, text |-> <<>>]
<1>c. m \in Message /\ inbox' = Append(inbox, m) /\ Len(inbox) < QueueMax
  BY <1>a, <1>b, <1>i, InputAssumption DEF send_to_server, Accepted,
     Reachable, QueuesThere, InSession, WholeSessions, Message, Types, Texts,
     TypeOK, Requests, Command, Text, ReadLine, SendHandshake
<1>d. /\ inbox' \in Seq(Message)
      /\ Len(inbox') = Len(inbox) + 1
      /\ \A k \in 1 .. Len(inbox) : inbox'[k] = inbox[k]
      /\ inbox'[Len(inbox) + 1] = m
  BY <1>i, <1>c, Appended
<1>e. /\ Len(inbox) \in Nat
      /\ \A k \in 1 .. Len(inbox) : inbox[k] \in Message
      /\ m.from = c /\ m.client_id = client_id[c]
      /\ m.type = "HANDSHAKE"
  BY <1>i
<1>f. /\ pc[c] = "greet" /\ pc' = [pc EXCEPT ![c] = "shake"]
      /\ client_id' = client_id /\ nostop' = nostop
      /\ buf' = buf /\ lines' = lines
      /\ queues' = queues /\ cqueue' = cqueue /\ srv' = srv /\ end' = end
      /\ response' = response
      /\ clients' = clients /\ opened' = opened
  BY <1>a, <1>b DEF SendHandshake, WholeSessions, Reachable, QueuesThere,
     InSession, TypeOK
<1> HIDE DEF m
<1>1. TypeOK'
  <2>1. Len(inbox') <= QueueMax
    BY <1>c, <1>d, <1>e
  <2>2. pc' \in [Clients -> ClientLabels]
    BY <1>b, <1>f DEF ClientLabels
  <2> QED
    BY <1>a, <1>d, <1>f, <2>1, <2>2 DEF TypeOK
<1>2. QueuesThere'
  BY <1>a, <1>b, <1>f DEF QueuesThere, InSession
<1>3. QuietEnds'
  BY <1>a, <1>b, <1>f DEF QuietEnds
<1>4. AnswersMatch'
  BY <1>a, <1>b, <1>f DEF AnswersMatch, QuietEnds, Expected
<1>5. NoSlotLeaked'
  <2> SUFFICES ASSUME NEW i \in Ids, ~clients'[i].stopped PROVE SlotHeld(i)'
    BY LeaksByPlace
  <2>1. SlotHeld(i)
    BY <1>a, <1>f, LeaksByPlace
  <2>2. \A k \in 1 .. Len(inbox) :
          k \in 1 .. Len(inbox') /\ inbox'[k] = inbox[k]
    BY <1>d, <1>e
  <2>3. PICK d \in Clients :
          /\ clients[i].pid = d
          /\ \/ pc[d] = "shake"
             \/ InSession(d) /\ client_id[d] = i
             \/ d \in nostop
             \/ srv = "exited"
             \/ \E k \in 1 .. Len(inbox) : /\ inbox[k].from = d
                                          /\ inbox[k].type = "STOP"
                                          /\ inbox[k].client_id = i
    BY <2>1 DEF SlotHeld
  <2>4. /\ pc[d] = "shake" => pc'[d] = "shake"
        /\ InSession(d) => InSession(d)'
    BY <1>b, <1>f DEF InSession
  <2> QED
    BY <1>f, <2>2, <2>3, <2>4 DEF SlotHeld
<1>6. ASSUME Serving' PROVE ServingInv'
  <2>a. Serving /\ SlotsApart /\ MessagesFit /\ MessagesInOrder /\ ResponseFits
    BY <1>a, <1>6, <1>f DEF Serving
  <2>1. SlotsApart'
    BY <1>a, <1>b, <1>f, <2>a DEF SlotsApart, QuietEnds, AnswersMatch,
       InSession, Owns
  <2>2. MessagesFit'
    <3> SUFFICES ASSUME NEW k \in 1 .. Len(inbox')
                 PROVE  MessageFits(inbox[k])'
      BY DEF MessagesFit
    <3>1. CASE k \in 1 .. Len(inbox)
      <4>1. /\ MessageFits(inbox[k]) /\ inbox[k] \in Message
            /\ inbox'[k] = inbox[k]
        BY <2>a, <3>1, <1>d, <1>e DEF MessagesFit
      <4>2. CASE inbox[k].from = c
        BY <1>b, <1>f, <4>1, <4>2 DEF MessageFits, Message, InSession, Owns,
           Text, Requests
      <4>3. CASE inbox[k].from # c
        BY <1>b, <1>f, <4>1, <4>3 DEF MessageFits, Message, InSession, Owns,
           Text
      <4> QED BY <4>2, <4>3
    <3>2. CASE k = Len(inbox) + 1
      <4>1. inbox'[k] = m
        BY <3>2, <1>d
      <4> QED
        BY <1>a, <1>b, <1>e, <1>f, <2>a, <4>1 DEF MessageFits, SlotsApart,
           QuietEnds
    <3> QED BY <3>1, <3>2, <1>d, <1>e
  <2>3. MessagesInOrder'
    <3> SUFFICES ASSUME NEW j \in 1 .. Len(inbox'), NEW k \in 1 .. Len(inbox'),
                        j < k, inbox'[j].from = inbox'[k].from
                 PROVE  inbox'[j].type \in Requests /\ inbox'[k].type = "STOP"
      BY DEF MessagesInOrder
    <3>1. j \in 1 .. Len(inbox) /\ inbox'[j] = inbox[j]
      BY <1>d, <1>e
    <3>2. CASE k \in 1 .. Len(inbox)
      BY <1>d, <2>a, <3>1, <3>2 DEF MessagesInOrder
    <3>3. CASE k = Len(inbox) + 1
      <4>1. inbox[j].from = c /\ MessageFits(inbox[j]) /\ inbox[j] \in Message
        BY <1>d, <1>e, <2>a, <3>1, <3>3 DEF MessagesFit
      <4> QED
        BY <1>a, <1>d, <1>e, <1>f, <3>1, <3>3, <4>1 DEF MessageFits, Message,
           Types, Requests, InSession, QuietEnds
    <3> QED BY <1>d, <1>e, <3>2, <3>3
  <2>4. ResponseFits'
    <3> SUFFICES ASSUME srv = "respond"
                 PROVE  ResponseFits'
      BY <1>f DEF ResponseFits
    <3> DEFINE d == clients[response.client_id].pid
    <3>0. response.client_id \in Ids
      BY <1>a DEF TypeOK, Reply
    <3>1. CASE d = c
      <4>1. Owns(c, response.client_id) /\ pc[c] # "prompt"
        BY <2>a, <3>1 DEF ResponseFits
      <4>2. pc[c] # "greet"
        BY <2>a, <3>0, <4>1 DEF SlotsApart, Owns
      <4> QED BY <1>f, <4>1, <4>2
    <3>2. CASE d # c
      <4>1. \A k \in 1 .. Len(inbox') :
              inbox'[k].from = d =>
                k \in 1 .. Len(inbox) /\ inbox'[k] = inbox[k]
        BY <1>d, <1>e, <3>2
      <4>2. /\ d \in Clients
            /\ Expected(d, buf[d].word)' = Expected(d, buf[d].word)
        BY <1>f, <2>a, <3>2 DEF ResponseFits, Expected
      <4> QED
        BY <1>b, <1>f, <2>a, <3>2, <4>1, <4>2 DEF ResponseFits, Owns
    <3> QED BY <3>1, <3>2
  <2> QED BY <2>1, <2>2, <2>3, <2>4 DEF ServingInv
<1> QED BY <1>1, <1>2, <1>3, <1>4, <1>5, <1>6 DEF IInv

\* The command end.
LEMMA SendEndKeeps ==
  ASSUME WholeSessions, IInv, NEW c \in Clients,
         NEW word \in Words, NEW sep \in Separators,
         SendEnd(c, [word |-> word, sep |-> sep])
  PROVE  IInv'
<1> USE SizeAssumption, NameAssumption DEF Goto, userVars, serverVars
<1>a. /\ TypeOK /\ QueuesThere /\ QuietEnds /\ AnswersMatch /\ NoSlotLeaked
      /\ Serving => SlotsApart /\ MessagesFit /\ MessagesInOrder /\ ResponseFits
  BY DEF IInv, ServingInv
<1>b. /\ pc \in [Clients -> ClientLabels] /\ client_id \in [Clients -> Ids]
      /\ cqueue \in [Clients -> Seq(Reply)]
  BY <1>a DEF TypeOK
<1>i. inbox \in Seq(Message) /\ Len(inbox) <= QueueMax
  BY <1>a DEF TypeOK
<1> DEFINE m == [type |-> "END", client_id |-> client_id[c],
                 from |-> c, text |-> <<>>]
<1>c. m \in Message /\ inbox' = Append(inbox, m) /\ Len(inbox) < QueueMax
  BY <1>a, <1>b, <1>i, InputAssumption DEF send_to_server, Accepted,
     Reachable, QueuesThere, InSession, WholeSessions, Message, Types, Texts,
     TypeOK, Requests, Command, Text, ReadLine, SendEnd, ReadLine
<1>d. /\ inbox' \in Seq(Message)
      /\ Len(inbox') = Len(inbox) + 1
      /\ \A k \in 1 .. Len(inbox) : inbox'[k] = inbox[k]
      /\ inbox'[Len(inbox) + 1] = m
  BY <1>i, <1>c, Appended
<1>e. /\ Len(inbox) \in Nat
      /\ \A k \in 1 .. Len(inbox) : inbox[k] \in Message
      /\ m.from = c /\ m.client_id = client_id[c]
      /\ m.type = "END"
  BY <1>i
<1>f. /\ pc[c] = "prompt" /\ pc' = [pc EXCEPT ![c] = "ended"]
      /\ lines' = [lines EXCEPT ![c] = @ + 1] /\ lines[c] < MaxLines
      /\ buf' = [buf EXCEPT ![c] = [word |-> word, sep |-> sep]]
      /\ client_id' = client_id /\ nostop' = nostop
      /\ queues' = queues /\ cqueue' = cqueue
      /\ srv' = srv /\ end' = end /\ response' = response /\ clients' = clients
      /\ opened' = opened
  BY <1>a, <1>b DEF SendEnd, ReadLine, WholeSessions, Reachable, QueuesThere,
     InSession, TypeOK
<1> HIDE DEF m
<1>1. TypeOK'
  <2>1. Len(inbox') <= QueueMax
    BY <1>c, <1>d, <1>e
  <2>2. pc' \in [Clients -> ClientLabels]
    BY <1>b, <1>f DEF ClientLabels
  <2>3. /\ lines' \in [Clients -> 0 .. MaxLines]
        /\ buf' \in [Clients -> [word : Words \cup {""},
                                sep : Separators \cup {"space"}]]
    <3>1. lines \in [Clients -> 0 .. MaxLines]
      BY <1>a DEF TypeOK
    <3>2. lines' \in [Clients -> 0 .. MaxLines]
      BY <1>f, <3>1
    <3>3. buf \in [Clients -> [word : Words \cup {""},
                               sep : Separators \cup {"space"}]]
      BY <1>a DEF TypeOK
    <3> QED BY <1>f, <3>2, <3>3
  <2> QED
    BY <1>a, <1>d, <1>f, <2>1, <2>2, <2>3 DEF TypeOK
<1>2. QueuesThere'
  BY <1>a, <1>b, <1>f DEF QueuesThere, InSession
<1>3. QuietEnds'
  BY <1>a, <1>b, <1>f DEF QuietEnds
<1>4. AnswersMatch'
  BY <1>a, <1>b, <1>f DEF AnswersMatch, QuietEnds, Expected
<1>5. NoSlotLeaked'
  <2> SUFFICES ASSUME NEW i \in Ids, ~clients'[i].stopped PROVE SlotHeld(i)'
    BY LeaksByPlace
  <2>1. SlotHeld(i)
    BY <1>a, <1>f, LeaksByPlace
  <2>2. \A k \in 1 .. Len(inbox) :
          k \in 1 .. Len(inbox') /\ inbox'[k] = inbox[k]
    BY <1>d, <1>e
  <2>3. PICK d \in Clients :
          /\ clients[i].pid = d
          /\ \/ pc[d] = "shake"
             \/ InSession(d) /\ client_id[d] = i
             \/ d \in nostop
             \/ srv = "exited"
             \/ \E k \in 1 .. Len(inbox) : /\ inbox[k].from = d
                                          /\ inbox[k].type = "STOP"
                                          /\ inbox[k].client_id = i
    BY <2>1 DEF SlotHeld
  <2>4. /\ pc[d] = "shake" => pc'[d] = "shake"
        /\ InSession(d) => InSession(d)'
    BY <1>b, <1>f DEF InSession
  <2> QED
    BY <1>f, <2>2, <2>3, <2>4 DEF SlotHeld
<1>6. ASSUME Serving' PROVE ServingInv'
  <2>a. Serving /\ SlotsApart /\ MessagesFit /\ MessagesInOrder /\ ResponseFits
    BY <1>a, <1>6, <1>f DEF Serving
  <2>1. SlotsApart'
    BY <1>a, <1>b, <1>f, <2>a DEF SlotsApart, QuietEnds, AnswersMatch,
       InSession, Owns
  <2>2. MessagesFit'
    <3> SUFFICES ASSUME NEW k \in 1 .. Len(inbox')
                 PROVE  MessageFits(inbox[k])'
      BY DEF MessagesFit
    <3>1. CASE k \in 1 .. Len(inbox)
      <4>1. /\ MessageFits(inbox[k]) /\ inbox[k] \in Message
            /\ inbox'[k] = inbox[k]
        BY <2>a, <3>1, <1>d, <1>e DEF MessagesFit
      <4>2. CASE inbox[k].from = c
        BY <1>b, <1>f, <4>1, <4>2 DEF MessageFits, Message, InSession, Owns,
           Text, Requests
      <4>3. CASE inbox[k].from # c
        BY <1>b, <1>f, <4>1, <4>3 DEF MessageFits, Message, InSession, Owns,
           Text
      <4> QED BY <4>2, <4>3
    <3>2. CASE k = Len(inbox) + 1
      <4>1. inbox'[k] = m
        BY <3>2, <1>d
      <4>2. Owns(c, client_id[c]) /\ cqueue[c] = << >>
        BY <1>a, <1>f, <2>a DEF SlotsApart, AnswersMatch, InSession
      <4> QED
        BY <1>b, <1>e, <1>f, <4>1, <4>2 DEF MessageFits, InSession, Owns,
           Requests
    <3> QED BY <3>1, <3>2, <1>d, <1>e
  <2>3. MessagesInOrder'
    <3> SUFFICES ASSUME NEW j \in 1 .. Len(inbox'), NEW k \in 1 .. Len(inbox'),
                        j < k, inbox'[j].from = inbox'[k].from
                 PROVE  inbox'[j].type \in Requests /\ inbox'[k].type = "STOP"
      BY DEF MessagesInOrder
    <3>1. j \in 1 .. Len(inbox) /\ inbox'[j] = inbox[j]
      BY <1>d, <1>e
    <3>2. CASE k \in 1 .. Len(inbox)
      BY <1>d, <2>a, <3>1, <3>2 DEF MessagesInOrder
    <3>3. CASE k = Len(inbox) + 1
      <4>1. inbox[j].from = c /\ MessageFits(inbox[j]) /\ inbox[j] \in Message
        BY <1>d, <1>e, <2>a, <3>1, <3>3 DEF MessagesFit
      <4> QED
        BY <1>a, <1>d, <1>e, <1>f, <3>1, <3>3, <4>1 DEF MessageFits, Message,
           Types, Requests, InSession, QuietEnds
    <3> QED BY <1>d, <1>e, <3>2, <3>3
  <2>4. ResponseFits'
    <3> SUFFICES ASSUME srv = "respond"
                 PROVE  ResponseFits'
      BY <1>f DEF ResponseFits
    <3> DEFINE d == clients[response.client_id].pid
    <3>0. response.client_id \in Ids
      BY <1>a DEF TypeOK, Reply
    <3>1. CASE d = c
      <4>1. Owns(c, response.client_id) /\ pc[c] # "prompt"
        BY <2>a, <3>1 DEF ResponseFits
      <4>2. pc[c] # "greet"
        BY <2>a, <3>0, <4>1 DEF SlotsApart, Owns
      <4> QED BY <1>f, <4>1, <4>2
    <3>2. CASE d # c
      <4>1. \A k \in 1 .. Len(inbox') :
              inbox'[k].from = d =>
                k \in 1 .. Len(inbox) /\ inbox'[k] = inbox[k]
        BY <1>d, <1>e, <3>2
      <4>2. /\ d \in Clients
            /\ Expected(d, buf[d].word)' = Expected(d, buf[d].word)
        BY <1>f, <2>a, <3>2 DEF ResponseFits, Expected
      <4> QED
        BY <1>b, <1>f, <2>a, <3>2, <4>1, <4>2 DEF ResponseFits, Owns
    <3> QED BY <3>1, <3>2
  <2> QED BY <2>1, <2>2, <2>3, <2>4 DEF ServingInv
<1> QED BY <1>1, <1>2, <1>3, <1>4, <1>5, <1>6 DEF IInv

\* A request of a client in session, which names the client's slot.
LEMMA SendRequestKeeps ==
  ASSUME WholeSessions, IInv, NEW c \in Clients,
         NEW word \in Words, NEW sep \in Separators,
         SendRequest(c, [word |-> word, sep |-> sep])
  PROVE  IInv'
<1> USE SizeAssumption, NameAssumption DEF Goto, userVars, serverVars
<1>a. /\ TypeOK /\ QueuesThere /\ QuietEnds /\ AnswersMatch /\ NoSlotLeaked
      /\ Serving => SlotsApart /\ MessagesFit /\ MessagesInOrder /\ ResponseFits
  BY DEF IInv, ServingInv
<1>b. /\ pc \in [Clients -> ClientLabels] /\ client_id \in [Clients -> Ids]
      /\ cqueue \in [Clients -> Seq(Reply)]
  BY <1>a DEF TypeOK
<1>i. inbox \in Seq(Message) /\ Len(inbox) <= QueueMax
  BY <1>a DEF TypeOK
<1> DEFINE m == [type |-> word, client_id |-> client_id[c],
                 from |-> c,
                 text |-> Text(c, [word |-> word, sep |-> sep], lines'[c])]
<1>c. m \in Message /\ inbox' = Append(inbox, m) /\ Len(inbox) < QueueMax
  <2>1. c \in queues /\ word \in Requests /\ lines'[c] \in 0 .. MaxLines
    <3>1. lines \in [Clients -> 0 .. MaxLines]
      BY <1>a DEF TypeOK
    <3>2. lines'[c] \in 0 .. MaxLines
      BY <3>1 DEF SendRequest, ReadLine
    <3> QED
      BY <1>a, <3>2 DEF SendRequest, ReadLine, QueuesThere, InSession,
         Command, Requests
  <2>2. send_to_server(c, word,
                       Text(c, [word |-> word, sep |-> sep], lines'[c]))
    BY DEF SendRequest
  <2>3. inbox' = Append(inbox, m) /\ Len(inbox) < QueueMax
    BY <2>1, <2>2 DEF send_to_server, Accepted, Reachable, WholeSessions
  <2>4. Text(c, [word |-> word, sep |-> sep], lines'[c]) \in Texts
    BY <2>1 DEF Text, Texts
  <2> QED
    BY <1>b, <2>1, <2>3, <2>4 DEF Message, Types
<1>d. /\ inbox' \in Seq(Message)
      /\ Len(inbox') = Len(inbox) + 1
      /\ \A k \in 1 .. Len(inbox) : inbox'[k] = inbox[k]
      /\ inbox'[Len(inbox) + 1] = m
  BY <1>i, <1>c, Appended
<1>e. /\ Len(inbox) \in Nat
      /\ \A k \in 1 .. Len(inbox) : inbox[k] \in Message
      /\ m.from = c /\ m.client_id = client_id[c]
      /\ m.type = word
  BY <1>i
<1>f. /\ pc[c] = "prompt" /\ pc' = [pc EXCEPT ![c] = "await"]
      /\ lines' = [lines EXCEPT ![c] = @ + 1] /\ lines[c] < MaxLines
      /\ buf' = [buf EXCEPT ![c] = [word |-> word, sep |-> sep]]
      /\ client_id' = client_id /\ nostop' = nostop
      /\ queues' = queues /\ cqueue' = cqueue
      /\ srv' = srv /\ end' = end /\ response' = response /\ clients' = clients
      /\ opened' = opened
  BY <1>a, <1>b DEF SendRequest, ReadLine, WholeSessions, Reachable,
     QueuesThere, InSession, TypeOK
<1> HIDE DEF m
<1>1. TypeOK'
  <2>1. Len(inbox') <= QueueMax
    BY <1>c, <1>d, <1>e
  <2>2. pc' \in [Clients -> ClientLabels]
    BY <1>b, <1>f DEF ClientLabels
  <2>3. /\ lines' \in [Clients -> 0 .. MaxLines]
        /\ buf' \in [Clients -> [word : Words \cup {""},
                                sep : Separators \cup {"space"}]]
    <3>1. lines \in [Clients -> 0 .. MaxLines]
      BY <1>a DEF TypeOK
    <3>2. lines' \in [Clients -> 0 .. MaxLines]
      BY <1>f, <3>1
    <3>3. buf \in [Clients -> [word : Words \cup {""},
                               sep : Separators \cup {"space"}]]
      BY <1>a DEF TypeOK
    <3> QED BY <1>f, <3>2, <3>3
  <2> QED
    BY <1>a, <1>d, <1>f, <2>1, <2>2, <2>3 DEF TypeOK
<1>2. QueuesThere'
  BY <1>a, <1>b, <1>f DEF QueuesThere, InSession
<1>3. QuietEnds'
  BY <1>a, <1>b, <1>f DEF QuietEnds
<1>4. AnswersMatch'
  BY <1>a, <1>b, <1>f DEF AnswersMatch, QuietEnds, Expected
<1>5. NoSlotLeaked'
  <2> SUFFICES ASSUME NEW i \in Ids, ~clients'[i].stopped PROVE SlotHeld(i)'
    BY LeaksByPlace
  <2>1. SlotHeld(i)
    BY <1>a, <1>f, LeaksByPlace
  <2>2. \A k \in 1 .. Len(inbox) :
          k \in 1 .. Len(inbox') /\ inbox'[k] = inbox[k]
    BY <1>d, <1>e
  <2>3. PICK d \in Clients :
          /\ clients[i].pid = d
          /\ \/ pc[d] = "shake"
             \/ InSession(d) /\ client_id[d] = i
             \/ d \in nostop
             \/ srv = "exited"
             \/ \E k \in 1 .. Len(inbox) : /\ inbox[k].from = d
                                          /\ inbox[k].type = "STOP"
                                          /\ inbox[k].client_id = i
    BY <2>1 DEF SlotHeld
  <2>4. /\ pc[d] = "shake" => pc'[d] = "shake"
        /\ InSession(d) => InSession(d)'
    BY <1>b, <1>f DEF InSession
  <2> QED
    BY <1>f, <2>2, <2>3, <2>4 DEF SlotHeld
<1>6. ASSUME Serving' PROVE ServingInv'
  <2>a. Serving /\ SlotsApart /\ MessagesFit /\ MessagesInOrder /\ ResponseFits
    BY <1>a, <1>6, <1>f DEF Serving
  <2>1. SlotsApart'
    BY <1>a, <1>b, <1>f, <2>a DEF SlotsApart, QuietEnds, AnswersMatch,
       InSession, Owns
  <2>2. MessagesFit'
    <3> SUFFICES ASSUME NEW k \in 1 .. Len(inbox')
                 PROVE  MessageFits(inbox[k])'
      BY DEF MessagesFit
    <3>1. CASE k \in 1 .. Len(inbox)
      <4>1. /\ MessageFits(inbox[k]) /\ inbox[k] \in Message
            /\ inbox'[k] = inbox[k]
        BY <2>a, <3>1, <1>d, <1>e DEF MessagesFit
      <4>2. CASE inbox[k].from = c
        BY <1>b, <1>f, <4>1, <4>2 DEF MessageFits, Message, InSession, Owns,
           Text, Requests
      <4>3. CASE inbox[k].from # c
        BY <1>b, <1>f, <4>1, <4>3 DEF MessageFits, Message, InSession, Owns,
           Text
      <4> QED BY <4>2, <4>3
    <3>2. CASE k = Len(inbox) + 1
      <4>1. inbox'[k] = m
        BY <3>2, <1>d
      <4>2. Owns(c, client_id[c]) /\ cqueue[c] = << >>
        BY <1>a, <1>f, <2>a DEF SlotsApart, AnswersMatch, InSession
      <4>3. word \in Requests
        BY DEF SendRequest, Command, Requests
      <4>4. m.text = Text(c, buf'[c], lines'[c]) /\ buf'[c].word = word
        BY <1>a, <1>f DEF m, TypeOK
      <4> QED
        BY <1>b, <1>e, <1>f, <4>1, <4>2, <4>3, <4>4 DEF MessageFits,
           InSession, Owns, Requests
    <3> QED BY <3>1, <3>2, <1>d, <1>e
  <2>3. MessagesInOrder'
    <3> SUFFICES ASSUME NEW j \in 1 .. Len(inbox'), NEW k \in 1 .. Len(inbox'),
                        j < k, inbox'[j].from = inbox'[k].from
                 PROVE  inbox'[j].type \in Requests /\ inbox'[k].type = "STOP"
      BY DEF MessagesInOrder
    <3>1. j \in 1 .. Len(inbox) /\ inbox'[j] = inbox[j]
      BY <1>d, <1>e
    <3>2. CASE k \in 1 .. Len(inbox)
      BY <1>d, <2>a, <3>1, <3>2 DEF MessagesInOrder
    <3>3. CASE k = Len(inbox) + 1
      <4>1. inbox[j].from = c /\ MessageFits(inbox[j]) /\ inbox[j] \in Message
        BY <1>d, <1>e, <2>a, <3>1, <3>3 DEF MessagesFit
      <4> QED
        BY <1>a, <1>d, <1>e, <1>f, <3>1, <3>3, <4>1 DEF MessageFits, Message,
           Types, Requests, InSession, QuietEnds
    <3> QED BY <1>d, <1>e, <3>2, <3>3
  <2>4. ResponseFits'
    <3> SUFFICES ASSUME srv = "respond"
                 PROVE  ResponseFits'
      BY <1>f DEF ResponseFits
    <3> DEFINE d == clients[response.client_id].pid
    <3>0. response.client_id \in Ids
      BY <1>a DEF TypeOK, Reply
    <3>1. CASE d = c
      <4>1. Owns(c, response.client_id) /\ pc[c] # "prompt"
        BY <2>a, <3>1 DEF ResponseFits
      <4>2. pc[c] # "greet"
        BY <2>a, <3>0, <4>1 DEF SlotsApart, Owns
      <4> QED BY <1>f, <4>1, <4>2
    <3>2. CASE d # c
      <4>1. \A k \in 1 .. Len(inbox') :
              inbox'[k].from = d =>
                k \in 1 .. Len(inbox) /\ inbox'[k] = inbox[k]
        BY <1>d, <1>e, <3>2
      <4>2. /\ d \in Clients
            /\ Expected(d, buf[d].word)' = Expected(d, buf[d].word)
        BY <1>f, <2>a, <3>2 DEF ResponseFits, Expected
      <4> QED
        BY <1>b, <1>f, <2>a, <3>2, <4>1, <4>2 DEF ResponseFits, Owns
    <3> QED BY <3>1, <3>2
  <2> QED BY <2>1, <2>2, <2>3, <2>4 DEF ServingInv
<1> QED BY <1>1, <1>2, <1>3, <1>4, <1>5, <1>6 DEF IInv

\* cleanup, first half: a STOP follows at most a request of its client.
LEMMA SendStopSendsKeeps ==
  ASSUME WholeSessions, IInv, NEW c \in Clients, SendStop(c),
         c \notin nostop, pc[c] # "laststop"
  PROVE  IInv'
<1> USE SizeAssumption, NameAssumption DEF Goto, userVars, serverVars
<1>a. /\ TypeOK /\ QueuesThere /\ QuietEnds /\ AnswersMatch /\ NoSlotLeaked
      /\ Serving => SlotsApart /\ MessagesFit /\ MessagesInOrder /\ ResponseFits
  BY DEF IInv, ServingInv
<1>b. /\ pc \in [Clients -> ClientLabels] /\ client_id \in [Clients -> Ids]
      /\ cqueue \in [Clients -> Seq(Reply)]
  BY <1>a DEF TypeOK
<1>i. inbox \in Seq(Message) /\ Len(inbox) <= QueueMax
  BY <1>a DEF TypeOK
<1> DEFINE m == [type |-> "STOP", client_id |-> client_id[c],
                 from |-> c, text |-> <<>>]
<1>c. m \in Message /\ inbox' = Append(inbox, m) /\ Len(inbox) < QueueMax
  BY <1>a, <1>b, <1>i, InputAssumption DEF send_to_server, Accepted,
     Reachable, QueuesThere, InSession, WholeSessions, Message, Types, Texts,
     TypeOK, Requests, Command, Text, ReadLine, SendStop
<1>d. /\ inbox' \in Seq(Message)
      /\ Len(inbox') = Len(inbox) + 1
      /\ \A k \in 1 .. Len(inbox) : inbox'[k] = inbox[k]
      /\ inbox'[Len(inbox) + 1] = m
  BY <1>i, <1>c, Appended
<1>e. /\ Len(inbox) \in Nat
      /\ \A k \in 1 .. Len(inbox) : inbox[k] \in Message
      /\ m.from = c /\ m.client_id = client_id[c]
      /\ m.type = "STOP"
  BY <1>i
<1>f. /\ pc[c] \in {"stop", "sigstop"}
      /\ pc' = [pc EXCEPT ![c] = IF pc[c] = "stop" THEN "close"
                                                    ELSE "sigclose"]
      /\ client_id' = client_id /\ nostop' = nostop
      /\ buf' = buf /\ lines' = lines
      /\ queues' = queues /\ cqueue' = cqueue /\ srv' = srv /\ end' = end
      /\ response' = response
      /\ clients' = clients /\ opened' = opened
  BY <1>a, <1>b DEF SendStop, WholeSessions, Reachable, QueuesThere,
     InSession, TypeOK
<1> HIDE DEF m
<1>1. TypeOK'
  <2>1. Len(inbox') <= QueueMax
    BY <1>c, <1>d, <1>e
  <2>2. pc' \in [Clients -> ClientLabels]
    BY <1>b, <1>f DEF ClientLabels
  <2> QED
    BY <1>a, <1>d, <1>f, <2>1, <2>2 DEF TypeOK
<1>2. QueuesThere'
  BY <1>a, <1>b, <1>f DEF QueuesThere, InSession
<1>3. QuietEnds'
  BY <1>a, <1>b, <1>f DEF QuietEnds
<1>4. AnswersMatch'
  BY <1>a, <1>b, <1>f DEF AnswersMatch, QuietEnds, Expected
<1>5. NoSlotLeaked'
  <2> SUFFICES ASSUME NEW i \in Ids, ~clients'[i].stopped PROVE SlotHeld(i)'
    BY LeaksByPlace
  <2>1. SlotHeld(i)
    BY <1>a, <1>f, LeaksByPlace
  <2>2. \A k \in 1 .. Len(inbox) :
          k \in 1 .. Len(inbox') /\ inbox'[k] = inbox[k]
    BY <1>d, <1>e
  <2>3. CASE clients[i].pid = c /\ client_id[c] = i
    <3>1. Len(inbox) + 1 \in 1 .. Len(inbox')
      BY <1>d, <1>e
    <3> QED
      BY <1>d, <1>e, <1>f, <2>3, <3>1 DEF SlotHeld
  <2>4. CASE ~(clients[i].pid = c /\ client_id[c] = i)
    BY <1>b, <1>f, <2>1, <2>2, <2>4 DEF SlotHeld, InSession
  <2> QED BY <2>3, <2>4
<1>6. ASSUME Serving' PROVE ServingInv'
  <2>a. Serving /\ SlotsApart /\ MessagesFit /\ MessagesInOrder /\ ResponseFits
    BY <1>a, <1>6, <1>f DEF Serving
  <2>1. SlotsApart'
    BY <1>a, <1>b, <1>f, <2>a DEF SlotsApart, QuietEnds, AnswersMatch,
       InSession, Owns
  <2>2. MessagesFit'
    <3> SUFFICES ASSUME NEW k \in 1 .. Len(inbox')
                 PROVE  MessageFits(inbox[k])'
      BY DEF MessagesFit
    <3>1. CASE k \in 1 .. Len(inbox)
      <4>1. /\ MessageFits(inbox[k]) /\ inbox[k] \in Message
            /\ inbox'[k] = inbox[k]
        BY <2>a, <3>1, <1>d, <1>e DEF MessagesFit
      <4>2. CASE inbox[k].from = c
        BY <1>b, <1>f, <4>1, <4>2 DEF MessageFits, Message, InSession, Owns,
           Text, Requests
      <4>3. CASE inbox[k].from # c
        BY <1>b, <1>f, <4>1, <4>3 DEF MessageFits, Message, InSession, Owns,
           Text
      <4> QED BY <4>2, <4>3
    <3>2. CASE k = Len(inbox) + 1
      <4>1. inbox'[k] = m
        BY <3>2, <1>d
      <4>2. Owns(c, client_id[c])
        BY <1>a, <1>f, <2>a DEF SlotsApart, InSession
      <4> QED
        BY <1>b, <1>e, <1>f, <4>1, <4>2 DEF MessageFits, InSession, Owns,
           Requests
    <3> QED BY <3>1, <3>2, <1>d, <1>e
  <2>3. MessagesInOrder'
    <3> SUFFICES ASSUME NEW j \in 1 .. Len(inbox'), NEW k \in 1 .. Len(inbox'),
                        j < k, inbox'[j].from = inbox'[k].from
                 PROVE  inbox'[j].type \in Requests /\ inbox'[k].type = "STOP"
      BY DEF MessagesInOrder
    <3>1. j \in 1 .. Len(inbox) /\ inbox'[j] = inbox[j]
      BY <1>d, <1>e
    <3>2. CASE k \in 1 .. Len(inbox)
      BY <1>d, <2>a, <3>1, <3>2 DEF MessagesInOrder
    <3>3. CASE k = Len(inbox) + 1
      <4>1. inbox[j].from = c /\ MessageFits(inbox[j]) /\ inbox[j] \in Message
        BY <1>d, <1>e, <2>a, <3>1, <3>3 DEF MessagesFit
      <4> QED
        BY <1>a, <1>d, <1>e, <1>f, <3>1, <3>3, <4>1 DEF MessageFits, Message,
           Types, Requests, InSession, QuietEnds
    <3> QED BY <1>d, <1>e, <3>2, <3>3
  <2>4. ResponseFits'
    <3> SUFFICES ASSUME srv = "respond"
                 PROVE  ResponseFits'
      BY <1>f DEF ResponseFits
    <3> DEFINE d == clients[response.client_id].pid
    <3>0. response.client_id \in Ids
      BY <1>a DEF TypeOK, Reply
    <3>1. CASE d = c
      BY <1>b, <1>f, <2>a, <3>1 DEF ResponseFits, Owns
    <3>2. CASE d # c
      <4>1. \A k \in 1 .. Len(inbox') :
              inbox'[k].from = d =>
                k \in 1 .. Len(inbox) /\ inbox'[k] = inbox[k]
        BY <1>d, <1>e, <3>2
      <4>2. /\ d \in Clients
            /\ Expected(d, buf[d].word)' = Expected(d, buf[d].word)
        BY <1>f, <2>a, <3>2 DEF ResponseFits, Expected
      <4> QED
        BY <1>b, <1>f, <2>a, <3>2, <4>1, <4>2 DEF ResponseFits, Owns
    <3> QED BY <3>1, <3>2
  <2> QED BY <2>1, <2>2, <2>3, <2>4 DEF ServingInv
<1> QED BY <1>1, <1>2, <1>3, <1>4, <1>5, <1>6 DEF IInv

\* cleanup, first half, without a STOP: after END, or once the client's queue is
\* removed and the server's is closed.
LEMMA SendStopQuietKeeps ==
  ASSUME WholeSessions, IInv, NEW c \in Clients, SendStop(c),
         c \in nostop \/ pc[c] = "laststop"
  PROVE  IInv'
<1> USE SizeAssumption, NameAssumption DEF Goto, userVars, serverVars
<1>a. /\ TypeOK /\ QueuesThere /\ QuietEnds /\ AnswersMatch /\ NoSlotLeaked
      /\ Serving => SlotsApart /\ MessagesFit /\ MessagesInOrder /\ ResponseFits
  BY DEF IInv, ServingInv
<1>b. /\ pc \in [Clients -> ClientLabels] /\ client_id \in [Clients -> Ids]
      /\ cqueue \in [Clients -> Seq(Reply)]
  BY <1>a DEF TypeOK
<1>i. inbox \in Seq(Message) /\ Len(inbox) <= QueueMax
  BY <1>a DEF TypeOK
<1>f. /\ \/ pc[c] = "stop" /\ pc' = [pc EXCEPT ![c] = "close"] /\ c \in nostop
         \/ pc[c] = "laststop" /\ pc' = [pc EXCEPT ![c] = "lastclose"]
      /\ client_id' = client_id /\ nostop' = nostop
      /\ buf' = buf /\ lines' = lines
      /\ queues' = queues /\ cqueue' = cqueue /\ srv' = srv /\ end' = end
      /\ response' = response
      /\ clients' = clients /\ opened' = opened
      /\ inbox' = inbox
  BY <1>a, <1>b DEF SendStop, send_to_server, Reachable, WholeSessions,
     QueuesThere, QuietEnds
<1>1. TypeOK'
  BY <1>a, <1>b, <1>f DEF TypeOK, Ids, ClientLabels, Slot
<1>2. QueuesThere'
  BY <1>a, <1>b, <1>f DEF QueuesThere, InSession
<1>3. QuietEnds'
  BY <1>a, <1>b, <1>f DEF QuietEnds
<1>4. AnswersMatch'
  BY <1>a, <1>b, <1>f DEF AnswersMatch, Expected
<1>5. NoSlotLeaked'
  <2> SUFFICES ASSUME NEW i \in Ids, ~clients'[i].stopped PROVE SlotHeld(i)'
    BY LeaksByPlace
  <2>1. SlotHeld(i)
    BY <1>a, <1>f, LeaksByPlace
  <2> QED
    BY <1>b, <1>f, <2>1 DEF SlotHeld, InSession
<1>6. ASSUME Serving' PROVE ServingInv'
  <2>a. Serving /\ SlotsApart /\ MessagesFit /\ MessagesInOrder /\ ResponseFits
    BY <1>a, <1>6, <1>f DEF Serving
  <2>1. SlotsApart'
    BY <1>a, <1>b, <1>f, <2>a DEF SlotsApart, InSession, Owns
  <2>2. MessagesFit'
    <3> SUFFICES ASSUME NEW k \in 1 .. Len(inbox)
                 PROVE  MessageFits(inbox[k])'
      BY <1>f DEF MessagesFit
    <3>1. MessageFits(inbox[k]) /\ inbox[k] \in Message /\ inbox' = inbox
      BY <1>f, <1>i, <2>a DEF MessagesFit
    <3>2. CASE inbox[k].from = c
      BY <1>a, <1>b, <1>f, <3>1, <3>2 DEF MessageFits, Message, InSession,
         Owns, Text, Requests
    <3>3. CASE inbox[k].from # c
      BY <1>a, <1>b, <1>f, <3>1, <3>3 DEF MessageFits, Message, InSession,
         Owns, Text
    <3> QED BY <3>2, <3>3
  <2>3. MessagesInOrder'
    BY <1>a, <1>b, <1>f, <2>a DEF MessagesInOrder
  <2>4. ResponseFits'
    BY <1>a, <1>b, <1>f, <2>a DEF ResponseFits, Owns, Expected
  <2> QED BY <2>1, <2>2, <2>3, <2>4 DEF ServingInv
<1> QED BY <1>1, <1>2, <1>3, <1>4, <1>5, <1>6 DEF IInv

\* cleanup, first half.
LEMMA SendStopKeeps ==
  ASSUME WholeSessions, IInv, NEW c \in Clients, SendStop(c)
  PROVE  IInv'
  BY SendStopSendsKeeps, SendStopQuietKeeps

\* A line that is no command.
LEMMA UnrecognizedKeeps ==
  ASSUME WholeSessions, IInv, NEW c \in Clients,
         NEW word \in Words, NEW sep \in Separators,
         Unrecognized(c, [word |-> word, sep |-> sep])
  PROVE  IInv'
<1> USE SizeAssumption, NameAssumption DEF Goto, userVars, serverVars
<1>a. /\ TypeOK /\ QueuesThere /\ QuietEnds /\ AnswersMatch /\ NoSlotLeaked
      /\ Serving => SlotsApart /\ MessagesFit /\ MessagesInOrder /\ ResponseFits
  BY DEF IInv, ServingInv
<1>b. /\ pc \in [Clients -> ClientLabels] /\ client_id \in [Clients -> Ids]
      /\ cqueue \in [Clients -> Seq(Reply)]
  BY <1>a DEF TypeOK
<1>i. inbox \in Seq(Message) /\ Len(inbox) <= QueueMax
  BY <1>a DEF TypeOK
<1>f. /\ pc[c] = "prompt" /\ pc' = pc
      /\ lines' = [lines EXCEPT ![c] = @ + 1] /\ lines[c] < MaxLines
      /\ buf' = [buf EXCEPT ![c] = [word |-> word, sep |-> sep]]
      /\ client_id' = client_id /\ nostop' = nostop
      /\ queues' = queues /\ cqueue' = cqueue /\ srv' = srv /\ end' = end
      /\ response' = response
      /\ clients' = clients /\ opened' = opened
      /\ inbox' = inbox
  BY DEF Unrecognized, ReadLine
<1>1. TypeOK'
  <2>1. /\ lines' \in [Clients -> 0 .. MaxLines]
        /\ buf' \in [Clients -> [word : Words \cup {""},
                                sep : Separators \cup {"space"}]]
    <3>1. lines \in [Clients -> 0 .. MaxLines]
      BY <1>a DEF TypeOK
    <3>2. lines' \in [Clients -> 0 .. MaxLines]
      BY <1>f, <3>1
    <3>3. buf \in [Clients -> [word : Words \cup {""},
                               sep : Separators \cup {"space"}]]
      BY <1>a DEF TypeOK
    <3> QED BY <1>f, <3>2, <3>3
  <2> QED
    BY <1>a, <1>f, <2>1 DEF TypeOK
<1>2. QueuesThere'
  BY <1>a, <1>b, <1>f DEF QueuesThere, InSession
<1>3. QuietEnds'
  BY <1>a, <1>b, <1>f DEF QuietEnds
<1>4. AnswersMatch'
  BY <1>a, <1>b, <1>f DEF AnswersMatch, Expected
<1>5. NoSlotLeaked'
  BY <1>a, <1>b, <1>f DEF NoSlotLeaked, InSession, From, Messages
<1>6. ASSUME Serving' PROVE ServingInv'
  <2>a. Serving /\ SlotsApart /\ MessagesFit /\ MessagesInOrder /\ ResponseFits
    BY <1>a, <1>6, <1>f DEF Serving
  <2>1. SlotsApart'
    BY <1>a, <1>b, <1>f, <2>a DEF SlotsApart, InSession, Owns
  <2>2. MessagesFit'
    <3> SUFFICES ASSUME NEW k \in 1 .. Len(inbox)
                 PROVE  MessageFits(inbox[k])'
      BY <1>f DEF MessagesFit
    <3>1. MessageFits(inbox[k]) /\ inbox[k] \in Message /\ inbox' = inbox
      BY <1>f, <1>i, <2>a DEF MessagesFit
    <3>2. CASE inbox[k].from = c
      BY <1>a, <1>b, <1>f, <3>1, <3>2 DEF MessageFits, Message, InSession,
         Owns, Text, Requests
    <3>3. CASE inbox[k].from # c
      BY <1>a, <1>b, <1>f, <3>1, <3>3 DEF MessageFits, Message, InSession,
         Owns, Text
    <3> QED BY <3>2, <3>3
  <2>3. MessagesInOrder'
    BY <1>a, <1>b, <1>f, <2>a DEF MessagesInOrder
  <2>4. ResponseFits'
    <3> SUFFICES ASSUME srv = "respond"
                 PROVE  ResponseFits'
      BY <1>f DEF ResponseFits
    <3> DEFINE d == clients[response.client_id].pid
    <3>1. d # c
      BY <1>f, <2>a DEF ResponseFits
    <3>2. /\ d \in Clients
          /\ Expected(d, buf[d].word)' = Expected(d, buf[d].word)
      BY <1>f, <2>a, <3>1 DEF ResponseFits, Expected
    <3> QED
      BY <1>b, <1>f, <2>a, <3>1, <3>2 DEF ResponseFits, Owns
  <2> QED BY <2>1, <2>2, <2>3, <2>4 DEF ServingInv
<1> QED BY <1>1, <1>2, <1>3, <1>4, <1>5, <1>6 DEF IInv

\* The answer is taken off the client's queue; nothing of it is under way then.
LEMMA PrintResponseKeeps ==
  ASSUME WholeSessions, IInv, NEW c \in Clients, PrintResponse(c)
  PROVE  IInv'
<1> USE SizeAssumption, NameAssumption DEF Goto, userVars, serverVars
<1>a. /\ TypeOK /\ QueuesThere /\ QuietEnds /\ AnswersMatch /\ NoSlotLeaked
      /\ Serving => SlotsApart /\ MessagesFit /\ MessagesInOrder /\ ResponseFits
  BY DEF IInv, ServingInv
<1>b. /\ pc \in [Clients -> ClientLabels] /\ client_id \in [Clients -> Ids]
      /\ cqueue \in [Clients -> Seq(Reply)]
  BY <1>a DEF TypeOK
<1>i. inbox \in Seq(Message) /\ Len(inbox) <= QueueMax
  BY <1>a DEF TypeOK
<1>c. /\ cqueue[c] # << >> /\ Len(cqueue[c]) = 1
      /\ cqueue' = [cqueue EXCEPT ![c] = Tail(cqueue[c])]
  <2>1. /\ pc[c] = "await" /\ cqueue[c] # << >>
        /\ cqueue' = [cqueue EXCEPT ![c] = Tail(cqueue[c])]
    BY <1>b DEF PrintResponse, receive_from_server
  <2>2. \E x : cqueue[c] = <<x>>
    BY <1>a, <2>1 DEF AnswersMatch
  <2> QED BY <2>1, <2>2
<1>d. Tail(cqueue[c]) = << >> /\ Head(cqueue[c]) \in Reply
  BY <1>b, <1>c
<1>f. /\ pc[c] = "await" /\ pc' = [pc EXCEPT ![c] = "prompt"]
      /\ client_id' = client_id
      /\ cqueue' = [cqueue EXCEPT ![c] = << >>]
      /\ nostop' = nostop /\ buf' = buf /\ lines' = lines
      /\ queues' = queues /\ inbox' = inbox /\ srv' = srv /\ end' = end
      /\ response' = response
      /\ clients' = clients /\ opened' = opened
  BY <1>c, <1>d DEF PrintResponse
<1>g. /\ cqueue' \in [Clients -> Seq(Reply)]
      /\ \A d \in Clients : Len(cqueue'[d]) <= QueueMax
      /\ client_id' \in [Clients -> Ids]
  <2>1. /\ << >> \in Seq(Reply) /\ Len(<< >>) = 0
        /\ Head(cqueue[c]).client_id \in Ids
    BY <1>d DEF Reply
  <2>2. \A d \in Clients : Len(cqueue[d]) <= QueueMax
    BY <1>a DEF TypeOK
  <2>3. \A d \in Clients : Len(cqueue'[d]) <= QueueMax
    BY <1>b, <1>f, <2>1, <2>2
  <2> QED
    BY <1>b, <1>f, <2>1, <2>3
<1>1. TypeOK'
  <2>1. pc' \in [Clients -> ClientLabels]
    BY <1>b, <1>f DEF ClientLabels
  <2> QED
    BY <1>a, <1>f, <1>g, <2>1 DEF TypeOK
<1>2. QueuesThere'
  BY <1>a, <1>b, <1>f DEF QueuesThere, InSession
<1>3. QuietEnds'
  BY <1>a, <1>b, <1>f DEF QuietEnds
<1>4. AnswersMatch'
  BY <1>a, <1>b, <1>f DEF AnswersMatch, Expected
<1>5. NoSlotLeaked'
  <2> SUFFICES ASSUME NEW i \in Ids, ~clients'[i].stopped PROVE SlotHeld(i)'
    BY LeaksByPlace
  <2>1. SlotHeld(i)
    BY <1>a, <1>f, LeaksByPlace
  <2>2. Serving /\ clients[i].pid = c /\ pc[c] = "shake" =>
          i = Head(cqueue[c]).client_id
    BY <1>a, <1>c, <1>d, <1>f DEF SlotsApart, Owns, Reply
  <2> QED
    BY <1>b, <1>f, <2>1, <2>2 DEF SlotHeld, InSession, Serving
<1>6. ASSUME Serving' PROVE ServingInv'
  <2>a. Serving /\ SlotsApart /\ MessagesFit /\ MessagesInOrder /\ ResponseFits
    BY <1>a, <1>6, <1>f DEF Serving
  <2>n. ASSUME NEW k \in 1 .. Len(inbox) PROVE inbox[k].from # c
    <3>1. MessageFits(inbox[k]) /\ inbox[k] \in Message
      BY <1>i, <2>a DEF MessagesFit
    <3> QED
      BY <1>a, <1>c, <1>f, <3>1 DEF MessageFits, Message, Types, InSession,
         QuietEnds
  <2>1. SlotsApart'
    BY <1>a, <1>b, <1>c, <1>f, <2>a DEF SlotsApart, InSession, Owns
  <2>2. MessagesFit'
    BY <1>b, <1>f, <2>a, <2>n DEF MessagesFit, MessageFits, InSession, Owns,
       Text
  <2>3. MessagesInOrder'
    BY <1>f, <2>a DEF MessagesInOrder
  <2>4. ResponseFits'
    BY <1>b, <1>c, <1>f, <2>a DEF ResponseFits, Owns, Expected
  <2> QED BY <2>1, <2>2, <2>3, <2>4 DEF ServingInv
<1> QED BY <1>1, <1>2, <1>3, <1>4, <1>5, <1>6 DEF IInv

\* The client learns its id: the one of the slot it has.
LEMMA ConnectedKeeps ==
  ASSUME WholeSessions, IInv, NEW c \in Clients, Connected(c)
  PROVE  IInv'
<1> USE SizeAssumption, NameAssumption DEF Goto, userVars, serverVars
<1>a. /\ TypeOK /\ QueuesThere /\ QuietEnds /\ AnswersMatch /\ NoSlotLeaked
      /\ Serving => SlotsApart /\ MessagesFit /\ MessagesInOrder /\ ResponseFits
  BY DEF IInv, ServingInv
<1>b. /\ pc \in [Clients -> ClientLabels] /\ client_id \in [Clients -> Ids]
      /\ cqueue \in [Clients -> Seq(Reply)]
  BY <1>a DEF TypeOK
<1>i. inbox \in Seq(Message) /\ Len(inbox) <= QueueMax
  BY <1>a DEF TypeOK
<1>c. /\ cqueue[c] # << >> /\ Len(cqueue[c]) = 1
      /\ cqueue' = [cqueue EXCEPT ![c] = Tail(cqueue[c])]
  BY <1>a, <1>b DEF AnswersMatch, Connected, receive_from_server
<1>d. Tail(cqueue[c]) = << >> /\ Head(cqueue[c]) \in Reply
  BY <1>b, <1>c
<1>f. /\ pc[c] = "shake" /\ pc' = [pc EXCEPT ![c] = "prompt"]
      /\ client_id' = [client_id EXCEPT ![c] = Head(cqueue[c]).client_id]
      /\ cqueue' = [cqueue EXCEPT ![c] = << >>]
      /\ nostop' = nostop /\ buf' = buf /\ lines' = lines
      /\ queues' = queues /\ inbox' = inbox /\ srv' = srv /\ end' = end
      /\ response' = response
      /\ clients' = clients /\ opened' = opened
  BY <1>c, <1>d DEF Connected
<1>g. /\ cqueue' \in [Clients -> Seq(Reply)]
      /\ \A d \in Clients : Len(cqueue'[d]) <= QueueMax
      /\ client_id' \in [Clients -> Ids]
  <2>1. /\ << >> \in Seq(Reply) /\ Len(<< >>) = 0
        /\ Head(cqueue[c]).client_id \in Ids
    BY <1>d DEF Reply
  <2>2. \A d \in Clients : Len(cqueue[d]) <= QueueMax
    BY <1>a DEF TypeOK
  <2>3. \A d \in Clients : Len(cqueue'[d]) <= QueueMax
    BY <1>b, <1>f, <2>1, <2>2
  <2> QED
    BY <1>b, <1>f, <2>1, <2>3
<1>1. TypeOK'
  <2>1. pc' \in [Clients -> ClientLabels]
    BY <1>b, <1>f DEF ClientLabels
  <2> QED
    BY <1>a, <1>f, <1>g, <2>1 DEF TypeOK
<1>2. QueuesThere'
  BY <1>a, <1>b, <1>f DEF QueuesThere, InSession
<1>3. QuietEnds'
  BY <1>a, <1>b, <1>f DEF QuietEnds
<1>4. AnswersMatch'
  BY <1>a, <1>b, <1>f DEF AnswersMatch, Expected
<1>5. NoSlotLeaked'
  <2> SUFFICES ASSUME NEW i \in Ids, ~clients'[i].stopped PROVE SlotHeld(i)'
    BY LeaksByPlace
  <2>1. SlotHeld(i)
    BY <1>a, <1>f, LeaksByPlace
  <2>2. Serving /\ clients[i].pid = c /\ pc[c] = "shake" =>
          i = Head(cqueue[c]).client_id
    BY <1>a, <1>c, <1>d, <1>f DEF SlotsApart, Owns, Reply
  <2> QED
    BY <1>b, <1>f, <2>1, <2>2 DEF SlotHeld, InSession, Serving
<1>6. ASSUME Serving' PROVE ServingInv'
  <2>a. Serving /\ SlotsApart /\ MessagesFit /\ MessagesInOrder /\ ResponseFits
    BY <1>a, <1>6, <1>f DEF Serving
  <2>n. ASSUME NEW k \in 1 .. Len(inbox) PROVE inbox[k].from # c
    <3>1. MessageFits(inbox[k]) /\ inbox[k] \in Message
      BY <1>i, <2>a DEF MessagesFit
    <3> QED
      BY <1>a, <1>c, <1>f, <3>1 DEF MessageFits, Message, Types, InSession,
         QuietEnds
  <2>1. SlotsApart'
    BY <1>a, <1>b, <1>c, <1>f, <2>a DEF SlotsApart, InSession, Owns
  <2>2. MessagesFit'
    BY <1>b, <1>f, <2>a, <2>n DEF MessagesFit, MessageFits, InSession, Owns,
       Text
  <2>3. MessagesInOrder'
    BY <1>f, <2>a DEF MessagesInOrder
  <2>4. ResponseFits'
    BY <1>b, <1>c, <1>f, <2>a DEF ResponseFits, Owns, Expected
  <2> QED BY <2>1, <2>2, <2>3, <2>4 DEF ServingInv
<1> QED BY <1>1, <1>2, <1>3, <1>4, <1>5, <1>6 DEF IInv

\* Every message that needs a slot names one in use: nothing is ignored.
LEMMA IgnoreKeeps ==
  ASSUME WholeSessions, IInv, NEW m, Ignore(m)
  PROVE  IInv'
<1>1. srv = "receive" /\ MessageFits(m)
  BY FirstMessage DEF Ignore
<1> QED
  BY <1>1 DEF Ignore, Heeded, MessageFits, Owns

\* The client that sent a HANDSHAKE waits for the answer: its queue is there.
LEMMA HandshakeFailsKeeps ==
  ASSUME WholeSessions, IInv, NEW m, HandshakeFails(m)
  PROVE  IInv'
<1>1. /\ m.type = "HANDSHAKE" /\ m \in Message
      /\ MessageFits(m) /\ m.from \notin queues
  BY FirstMessage DEF HandshakeFails
<1>2. QueuesThere
  BY DEF IInv
<1> QED
  BY <1>1, <1>2 DEF QueuesThere, MessageFits, Message

\* A HANDSHAKE when no slot is free is dropped.
LEMMA ClientLimitReachedKeeps ==
  ASSUME WholeSessions, IInv, NEW m, ClientLimitReached(m)
  PROVE  IInv'
<1> USE SizeAssumption, NameAssumption DEF Goto, userVars, serverVars
<1>a. /\ TypeOK /\ QueuesThere /\ QuietEnds /\ AnswersMatch /\ NoSlotLeaked
      /\ Serving => SlotsApart /\ MessagesFit /\ MessagesInOrder /\ ResponseFits
  BY DEF IInv, ServingInv
<1>b. /\ pc \in [Clients -> ClientLabels] /\ client_id \in [Clients -> Ids]
      /\ cqueue \in [Clients -> Seq(Reply)]
  BY <1>a DEF TypeOK
<1>i. inbox \in Seq(Message) /\ Len(inbox) <= QueueMax
  BY <1>a DEF TypeOK
<1>c. /\ srv = "receive" /\ ServingInv
      /\ m \in Message /\ MessageFits(m)
      /\ inbox' \in Seq(Message) /\ Len(inbox') <= QueueMax
  BY FirstMessage DEF ClientLimitReached
<1>d. \A k \in 1 .. Len(inbox') :
        /\ k + 1 \in 1 .. Len(inbox)
        /\ inbox'[k] = inbox[k + 1]
        /\ inbox'[k] \in Message
        /\ MessageFits(inbox'[k])
        /\ inbox'[k].from = m.from =>
             m.type \in Requests /\ inbox'[k].type = "STOP"
  BY FirstMessage DEF ClientLimitReached
<1>e. \A k \in 1 .. Len(inbox) :
        inbox[k] # m => \E j \in 1 .. Len(inbox') : inbox'[j] = inbox[k]
  BY FirstMessage DEF ClientLimitReached
<1>f. /\ pc' = pc /\ client_id' = client_id /\ nostop' = nostop /\ buf' = buf
      /\ lines' = lines /\ queues' = queues /\ cqueue' = cqueue /\ srv' = srv
      /\ end' = end /\ response' = response
      /\ clients' = clients /\ opened' = opened
      /\ m.type = "HANDSHAKE"
  BY DEF ClientLimitReached
<1>1. TypeOK'
  BY <1>a, <1>c, <1>f DEF TypeOK
<1>2. QueuesThere'
  BY <1>a, <1>f DEF QueuesThere, InSession
<1>3. QuietEnds'
  BY <1>a, <1>f DEF QuietEnds
<1>4. AnswersMatch'
  BY <1>a, <1>b, <1>f DEF AnswersMatch, Expected
<1>5. NoSlotLeaked'
  <2> SUFFICES ASSUME NEW i \in Ids, ~clients'[i].stopped PROVE SlotHeld(i)'
    BY LeaksByPlace
  <2>1. SlotHeld(i)
    BY <1>a, <1>f, LeaksByPlace
  <2>2. m.type # "STOP" \/ m.client_id # i
    BY <1>c, <1>f DEF MessageFits, Owns
  <2> QED
    BY <1>c, <1>e, <1>f, <2>1, <2>2 DEF SlotHeld, InSession
<1>6. ASSUME Serving' PROVE ServingInv'
  <2>a. Serving /\ SlotsApart /\ MessagesFit /\ MessagesInOrder /\ ResponseFits
    BY <1>a, <1>c DEF Serving
  <2>1. SlotsApart'
    BY <1>f, <2>a DEF SlotsApart, InSession, Owns
  <2>2. MessagesFit'
    BY <1>d, <1>f DEF MessagesFit, MessageFits, InSession, Owns, Text
  <2>3. MessagesInOrder'
    <3> SUFFICES ASSUME NEW j \in 1 .. Len(inbox'), NEW k \in 1 .. Len(inbox'),
                        j < k, inbox'[j].from = inbox'[k].from
                 PROVE  inbox'[j].type \in Requests /\ inbox'[k].type = "STOP"
      BY DEF MessagesInOrder
    <3>1. j + 1 < k + 1
      OBVIOUS
    <3> QED
      BY <1>d, <2>a, <3>1 DEF MessagesInOrder
  <2>4. ResponseFits'
    BY <1>c, <1>f DEF ResponseFits
  <2> QED BY <2>1, <2>2, <2>3, <2>4 DEF ServingInv
<1> QED BY <1>1, <1>2, <1>3, <1>4, <1>5, <1>6 DEF IInv

\* The server takes END off its queue.
LEMMA EndKeeps ==
  ASSUME WholeSessions, IInv, NEW m, End(m)
  PROVE  IInv'
<1> USE SizeAssumption, NameAssumption DEF Goto, userVars, serverVars
<1>a. /\ TypeOK /\ QueuesThere /\ QuietEnds /\ AnswersMatch /\ NoSlotLeaked
      /\ Serving => SlotsApart /\ MessagesFit /\ MessagesInOrder /\ ResponseFits
  BY DEF IInv, ServingInv
<1>b. /\ pc \in [Clients -> ClientLabels] /\ client_id \in [Clients -> Ids]
      /\ cqueue \in [Clients -> Seq(Reply)]
  BY <1>a DEF TypeOK
<1>i. inbox \in Seq(Message) /\ Len(inbox) <= QueueMax
  BY <1>a DEF TypeOK
<1>c. /\ srv = "receive" /\ ServingInv
      /\ m \in Message /\ MessageFits(m)
      /\ inbox' \in Seq(Message) /\ Len(inbox') <= QueueMax
  BY FirstMessage DEF End
<1>d. \A k \in 1 .. Len(inbox') :
        /\ k + 1 \in 1 .. Len(inbox)
        /\ inbox'[k] = inbox[k + 1]
        /\ inbox'[k] \in Message
        /\ MessageFits(inbox'[k])
        /\ inbox'[k].from = m.from =>
             m.type \in Requests /\ inbox'[k].type = "STOP"
  BY FirstMessage DEF End
<1>e. \A k \in 1 .. Len(inbox) :
        inbox[k] # m => \E j \in 1 .. Len(inbox') : inbox'[j] = inbox[k]
  BY FirstMessage DEF End
<1>f. /\ pc' = pc /\ client_id' = client_id /\ nostop' = nostop /\ buf' = buf
      /\ lines' = lines /\ queues' = queues /\ cqueue' = cqueue /\ srv' = srv
      /\ response' = response
      /\ clients' = clients /\ opened' = opened
      /\ m.type = "END" /\ end' = TRUE
  BY DEF End
<1>1. TypeOK'
  BY <1>a, <1>c, <1>f DEF TypeOK
<1>2. QueuesThere'
  BY <1>a, <1>f DEF QueuesThere, InSession
<1>3. QuietEnds'
  BY <1>a, <1>f DEF QuietEnds
<1>4. AnswersMatch'
  BY <1>a, <1>b, <1>f DEF AnswersMatch, Expected
<1>5. NoSlotLeaked'
  <2> SUFFICES ASSUME NEW i \in Ids, ~clients'[i].stopped PROVE SlotHeld(i)'
    BY LeaksByPlace
  <2>1. SlotHeld(i)
    BY <1>a, <1>f, LeaksByPlace
  <2>2. m.type # "STOP" \/ m.client_id # i
    BY <1>c, <1>f DEF MessageFits, Owns
  <2> QED
    BY <1>c, <1>e, <1>f, <2>1, <2>2 DEF SlotHeld, InSession
<1>6. ASSUME Serving' PROVE ServingInv'
  <2>a. Serving /\ SlotsApart /\ MessagesFit /\ MessagesInOrder /\ ResponseFits
    BY <1>a, <1>c DEF Serving
  <2>1. SlotsApart'
    BY <1>f, <2>a DEF SlotsApart, InSession, Owns
  <2>2. MessagesFit'
    BY <1>d, <1>f DEF MessagesFit, MessageFits, InSession, Owns, Text
  <2>3. MessagesInOrder'
    <3> SUFFICES ASSUME NEW j \in 1 .. Len(inbox'), NEW k \in 1 .. Len(inbox'),
                        j < k, inbox'[j].from = inbox'[k].from
                 PROVE  inbox'[j].type \in Requests /\ inbox'[k].type = "STOP"
      BY DEF MessagesInOrder
    <3>1. j + 1 < k + 1
      OBVIOUS
    <3> QED
      BY <1>d, <2>a, <3>1 DEF MessagesInOrder
  <2>4. ResponseFits'
    BY <1>c, <1>f DEF ResponseFits
  <2> QED BY <2>1, <2>2, <2>3, <2>4 DEF ServingInv
<1> QED BY <1>1, <1>2, <1>3, <1>4, <1>5, <1>6 DEF IInv

\* The server works out the answer to a request.
LEMMA ServeKeeps ==
  ASSUME WholeSessions, IInv, NEW m, Serve(m)
  PROVE  IInv'
<1> USE SizeAssumption, NameAssumption DEF Goto, userVars, serverVars
<1>a. /\ TypeOK /\ QueuesThere /\ QuietEnds /\ AnswersMatch /\ NoSlotLeaked
      /\ Serving => SlotsApart /\ MessagesFit /\ MessagesInOrder /\ ResponseFits
  BY DEF IInv, ServingInv
<1>b. /\ pc \in [Clients -> ClientLabels] /\ client_id \in [Clients -> Ids]
      /\ cqueue \in [Clients -> Seq(Reply)]
  BY <1>a DEF TypeOK
<1>i. inbox \in Seq(Message) /\ Len(inbox) <= QueueMax
  BY <1>a DEF TypeOK
<1>c. /\ srv = "receive" /\ ServingInv
      /\ m \in Message /\ MessageFits(m)
      /\ inbox' \in Seq(Message) /\ Len(inbox') <= QueueMax
  BY FirstMessage DEF Serve
<1>d. \A k \in 1 .. Len(inbox') :
        /\ k + 1 \in 1 .. Len(inbox)
        /\ inbox'[k] = inbox[k + 1]
        /\ inbox'[k] \in Message
        /\ MessageFits(inbox'[k])
        /\ inbox'[k].from = m.from =>
             m.type \in Requests /\ inbox'[k].type = "STOP"
  BY FirstMessage DEF Serve
<1>e. \A k \in 1 .. Len(inbox) :
        inbox[k] # m => \E j \in 1 .. Len(inbox') : inbox'[j] = inbox[k]
  BY FirstMessage DEF Serve
<1>f. /\ pc' = pc /\ client_id' = client_id /\ nostop' = nostop /\ buf' = buf
      /\ lines' = lines /\ queues' = queues /\ cqueue' = cqueue /\ end' = end

      /\ clients' = clients /\ opened' = opened
      /\ m.type \in Requests /\ srv' = "respond"
      /\ response' = [client_id |-> m.client_id, buf |-> Answer(m.type, m.text)]
  BY DEF Serve
<1>1. TypeOK'
  <2>1. response' \in Reply
    BY <1>c, <1>f DEF Reply, Message, Answers
  <2> QED BY <1>a, <1>c, <1>f, <2>1 DEF TypeOK
<1>2. QueuesThere'
  BY <1>a, <1>f DEF QueuesThere, InSession
<1>3. QuietEnds'
  BY <1>a, <1>f DEF QuietEnds
<1>4. AnswersMatch'
  BY <1>a, <1>b, <1>f DEF AnswersMatch, Expected
<1>5. NoSlotLeaked'
  <2> SUFFICES ASSUME NEW i \in Ids, ~clients'[i].stopped PROVE SlotHeld(i)'
    BY LeaksByPlace
  <2>1. SlotHeld(i)
    BY <1>a, <1>f, LeaksByPlace
  <2>2. m.type # "STOP" \/ m.client_id # i
    BY <1>f DEF Requests
  <2> QED
    BY <1>c, <1>e, <1>f, <2>1, <2>2 DEF SlotHeld, InSession
<1>6. ASSUME Serving' PROVE ServingInv'
  <2>a. Serving /\ SlotsApart /\ MessagesFit /\ MessagesInOrder /\ ResponseFits
    BY <1>a, <1>c DEF Serving
  <2>1. SlotsApart'
    BY <1>f, <2>a DEF SlotsApart, InSession, Owns
  <2>2. MessagesFit'
    BY <1>d, <1>f DEF MessagesFit, MessageFits, InSession, Owns, Text
  <2>3. MessagesInOrder'
    <3> SUFFICES ASSUME NEW j \in 1 .. Len(inbox'), NEW k \in 1 .. Len(inbox'),
                        j < k, inbox'[j].from = inbox'[k].from
                 PROVE  inbox'[j].type \in Requests /\ inbox'[k].type = "STOP"
      BY DEF MessagesInOrder
    <3>1. j + 1 < k + 1
      OBVIOUS
    <3> QED
      BY <1>d, <2>a, <3>1 DEF MessagesInOrder
  <2>4. ResponseFits'
    <3> DEFINE c == m.from
    <3>1. /\ c \in Clients /\ m.client_id = client_id[c] /\ m.client_id \in Ids
          /\ Owns(c, m.client_id)
          /\ pc[c] \notin {"prompt", "shake", "ended", "stop"}
          /\ pc[c] = "await" => /\ cqueue[c] = << >>
                               /\ m.type = buf[c].word
                               /\ m.text = Text(c, buf[c], lines[c])
      BY <1>c, <1>f DEF MessageFits, Message, Requests
    <3>2. response'.client_id = m.client_id /\ clients[m.client_id].pid = c
      BY <1>f, <3>1 DEF Owns
    <3>3. pc[c] = "await" => response'.buf = Expected(c, buf[c].word)
      BY <1>a, <1>f, <3>1, MirrorBackwards DEF Answer, Expected, Text, Requests
    <3>4. \A k \in 1 .. Len(inbox') :
            inbox'[k].from = c => inbox'[k].type \notin Requests
      BY <1>d DEF Requests
    <3> QED
      BY <1>f, <3>1, <3>2, <3>3, <3>4 DEF ResponseFits, Owns, Expected
  <2> QED BY <2>1, <2>2, <2>3, <2>4 DEF ServingInv
<1> QED BY <1>1, <1>2, <1>3, <1>4, <1>5, <1>6 DEF IInv

\* The HANDSHAKE is answered: a free slot is given to a client that has none.
LEMMA HandshakeKeeps ==
  ASSUME WholeSessions, IInv, NEW m, Handshake(m)
  PROVE  IInv'
<1> USE SizeAssumption, NameAssumption DEF Goto, userVars, serverVars
<1>a. /\ TypeOK /\ QueuesThere /\ QuietEnds /\ AnswersMatch /\ NoSlotLeaked
      /\ Serving => SlotsApart /\ MessagesFit /\ MessagesInOrder /\ ResponseFits
  BY DEF IInv, ServingInv
<1>b. /\ pc \in [Clients -> ClientLabels] /\ client_id \in [Clients -> Ids]
      /\ cqueue \in [Clients -> Seq(Reply)]
  BY <1>a DEF TypeOK
<1>i. inbox \in Seq(Message) /\ Len(inbox) <= QueueMax
  BY <1>a DEF TypeOK
<1>c. /\ srv = "receive" /\ ServingInv
      /\ m \in Message /\ MessageFits(m)
      /\ inbox' \in Seq(Message) /\ Len(inbox') <= QueueMax
  BY FirstMessage DEF Handshake
<1>d. \A k \in 1 .. Len(inbox') :
        /\ k + 1 \in 1 .. Len(inbox)
        /\ inbox'[k] = inbox[k + 1]
        /\ inbox'[k] \in Message
        /\ MessageFits(inbox'[k])
        /\ inbox'[k].from = m.from =>
             m.type \in Requests /\ inbox'[k].type = "STOP"
  BY FirstMessage DEF Handshake
<1>e. \A k \in 1 .. Len(inbox) :
        inbox[k] # m => \E j \in 1 .. Len(inbox') : inbox'[j] = inbox[k]
  BY FirstMessage DEF Handshake
<1>f. /\ pc' = pc /\ client_id' = client_id /\ nostop' = nostop /\ buf' = buf
      /\ lines' = lines /\ queues' = queues /\ cqueue' = cqueue /\ end' = end
      /\ m.type = "HANDSHAKE" /\ srv' = "respond"
      /\ response' = [client_id |-> FirstFree, buf |-> NoAnswer]
      /\ clients' = [clients EXCEPT ![FirstFree] = [pid |-> m.from,
                                                   stopped |-> FALSE,
                                                   queue |-> m.from]]
      /\ opened' = opened \cup {m.from}
  BY DEF Handshake
<1>g. FirstFree \in Ids /\ clients[FirstFree].stopped
  BY FirstFreeIsFree DEF Handshake
<1>h. /\ m.from \in Clients /\ pc[m.from] = "shake" /\ cqueue[m.from] = << >>
      /\ \A i \in Ids : ~clients[i].stopped => clients[i].pid # m.from
  BY <1>c, <1>f DEF MessageFits, Message
<1>j. clients \in [Ids -> Slot]
  BY <1>a DEF TypeOK
<1>k. /\ \A i \in Ids : i # FirstFree => clients'[i] = clients[i]
      /\ ~clients'[FirstFree].stopped
      /\ clients'[FirstFree].pid = m.from
      /\ clients'[FirstFree].queue = m.from
  BY <1>f, <1>g, <1>j
<1> HIDE DEF FirstFree
<1>s. \A c \in Clients : pc[c] = "shake" /\ cqueue[c] # << >> =>
        LET i == Head(cqueue[c]).client_id
        IN  i \in Ids /\ i # FirstFree /\ clients'[i] = clients[i]
  <2>1. SlotsApart
    BY <1>a, <1>c DEF Serving
  <2> SUFFICES ASSUME NEW c \in Clients, pc[c] = "shake", cqueue[c] # << >>
               PROVE  LET i == Head(cqueue[c]).client_id
                      IN  i \in Ids /\ i # FirstFree /\ clients'[i] = clients[i]
    OBVIOUS
  <2>2. Head(cqueue[c]) \in Reply
    BY <1>b
  <2>3. ~clients[Head(cqueue[c]).client_id].stopped
    BY <2>1 DEF SlotsApart, Owns
  <2> QED BY <1>g, <1>k, <2>2, <2>3 DEF Reply
<1>1. TypeOK'
  <2>1. response' \in Reply
    BY <1>f, <1>g DEF Reply, Answers
  <2>2. clients' \in [Ids -> Slot]
    BY <1>f, <1>g, <1>h, <1>j DEF Slot
  <2> QED BY <1>a, <1>c, <1>f, <1>h, <2>1, <2>2 DEF TypeOK
<1>2. QueuesThere'
  BY <1>a, <1>f DEF QueuesThere, InSession
<1>3. QuietEnds'
  BY <1>a, <1>f DEF QuietEnds
<1>4. AnswersMatch'
  BY <1>a, <1>b, <1>f, <1>h, <1>k, <1>s DEF AnswersMatch, Expected
<1>5. NoSlotLeaked'
  <2> SUFFICES ASSUME NEW i \in Ids, ~clients'[i].stopped PROVE SlotHeld(i)'
    BY LeaksByPlace
  <2>1. CASE i = FirstFree
    BY <1>f, <1>h, <1>k, <2>1 DEF SlotHeld
  <2>2. CASE i # FirstFree
    <3>1. SlotHeld(i)
      BY <1>a, <1>k, <2>2, LeaksByPlace
    <3> QED
      BY <1>c, <1>e, <1>f, <1>k, <2>2, <3>1 DEF SlotHeld, InSession
  <2> QED BY <2>1, <2>2
<1>6. ASSUME Serving' PROVE ServingInv'
  <2>a. Serving /\ SlotsApart /\ MessagesFit /\ MessagesInOrder /\ ResponseFits
    BY <1>a, <1>c DEF Serving
  <2>1. SlotsApart'
    BY <1>b, <1>f, <1>g, <1>h, <1>k, <1>s, <2>a DEF SlotsApart, InSession, Owns
  <2>2. MessagesFit'
    <3> SUFFICES ASSUME NEW k \in 1 .. Len(inbox')
                 PROVE  MessageFits(inbox[k])'
      BY DEF MessagesFit
    <3>1. /\ inbox'[k] \in Message /\ MessageFits(inbox'[k])
          /\ inbox'[k].from # m.from
      BY <1>d, <1>f DEF Requests
    <3>2. client_id[inbox'[k].from] \in Ids
      BY <1>b, <3>1 DEF Message
    <3> QED
      BY <1>f, <1>g, <1>k, <3>1, <3>2 DEF MessageFits, InSession, Owns, Text
  <2>3. MessagesInOrder'
    <3> SUFFICES ASSUME NEW j \in 1 .. Len(inbox'), NEW k \in 1 .. Len(inbox'),
                        j < k, inbox'[j].from = inbox'[k].from
                 PROVE  inbox'[j].type \in Requests /\ inbox'[k].type = "STOP"
      BY DEF MessagesInOrder
    <3>1. j + 1 < k + 1
      OBVIOUS
    <3> QED
      BY <1>d, <2>a, <3>1 DEF MessagesInOrder
  <2>4. ResponseFits'
    <3>1. response'.client_id = FirstFree
      BY <1>f
    <3> QED
      BY <1>f, <1>g, <1>h, <1>k, <3>1 DEF ResponseFits, Owns
  <2> QED BY <2>1, <2>2, <2>3, <2>4 DEF ServingInv
<1> QED BY <1>1, <1>2, <1>3, <1>4, <1>5, <1>6 DEF IInv

\* STOP frees the slot of the client that sent it.
LEMMA StopKeeps ==
  ASSUME WholeSessions, IInv, NEW m, Stop(m)
  PROVE  IInv'
<1> USE SizeAssumption, NameAssumption DEF Goto, userVars, serverVars
<1>a. /\ TypeOK /\ QueuesThere /\ QuietEnds /\ AnswersMatch /\ NoSlotLeaked
      /\ Serving => SlotsApart /\ MessagesFit /\ MessagesInOrder /\ ResponseFits
  BY DEF IInv, ServingInv
<1>b. /\ pc \in [Clients -> ClientLabels] /\ client_id \in [Clients -> Ids]
      /\ cqueue \in [Clients -> Seq(Reply)]
  BY <1>a DEF TypeOK
<1>i. inbox \in Seq(Message) /\ Len(inbox) <= QueueMax
  BY <1>a DEF TypeOK
<1>c. /\ srv = "receive" /\ ServingInv
      /\ m \in Message /\ MessageFits(m)
      /\ inbox' \in Seq(Message) /\ Len(inbox') <= QueueMax
  BY FirstMessage DEF Stop
<1>d. \A k \in 1 .. Len(inbox') :
        /\ k + 1 \in 1 .. Len(inbox)
        /\ inbox'[k] = inbox[k + 1]
        /\ inbox'[k] \in Message
        /\ MessageFits(inbox'[k])
        /\ inbox'[k].from = m.from =>
             m.type \in Requests /\ inbox'[k].type = "STOP"
  BY FirstMessage DEF Stop
<1>e. \A k \in 1 .. Len(inbox) :
        inbox[k] # m => \E j \in 1 .. Len(inbox') : inbox'[j] = inbox[k]
  BY FirstMessage DEF Stop
<1>f. /\ pc' = pc /\ client_id' = client_id /\ nostop' = nostop /\ buf' = buf
      /\ lines' = lines /\ queues' = queues /\ cqueue' = cqueue /\ srv' = srv
      /\ end' = end /\ response' = response
      /\ m.type = "STOP"
      /\ clients' = [clients EXCEPT ![m.client_id].stopped = TRUE]
      /\ opened' \subseteq opened
  BY DEF Stop
<1>g. /\ m.from \in Clients /\ m.client_id \in Ids
      /\ m.client_id = client_id[m.from] /\ Owns(m.from, m.client_id)
      /\ ~InSession(m.from) /\ pc[m.from] # "shake"
  BY <1>c, <1>f DEF MessageFits, Message
<1>j. clients \in [Ids -> Slot]
  BY <1>a DEF TypeOK
<1>k. /\ \A i \in Ids : i # m.client_id => clients'[i] = clients[i]
      /\ clients'[m.client_id].stopped
      /\ \A i \in Ids : clients'[i].pid = clients[i].pid
  BY <1>f, <1>g, <1>j DEF Slot
<1>s. \A c \in Clients : pc[c] = "shake" /\ cqueue[c] # << >> =>
        Head(cqueue[c]).client_id \in Ids
  <2> SUFFICES ASSUME NEW c \in Clients, cqueue[c] # << >>
               PROVE  Head(cqueue[c]) \in Reply
    BY DEF Reply
  <2> QED BY <1>b
<1>1. TypeOK'
  <2>1. clients' \in [Ids -> Slot]
    BY <1>f, <1>g, <1>j DEF Slot
  <2> QED BY <1>a, <1>c, <1>f, <2>1 DEF TypeOK
<1>2. QueuesThere'
  BY <1>a, <1>f DEF QueuesThere, InSession
<1>3. QuietEnds'
  BY <1>a, <1>f DEF QuietEnds
<1>4. AnswersMatch'
  BY <1>a, <1>b, <1>f, <1>k, <1>s DEF AnswersMatch, Expected
<1>5. NoSlotLeaked'
  <2> SUFFICES ASSUME NEW i \in Ids, ~clients'[i].stopped PROVE SlotHeld(i)'
    BY LeaksByPlace
  <2>1. i # m.client_id /\ SlotHeld(i)
    BY <1>a, <1>k, LeaksByPlace
  <2> QED
    BY <1>c, <1>e, <1>f, <1>k, <2>1 DEF SlotHeld, InSession
<1>6. ASSUME Serving' PROVE ServingInv'
  <2>a. Serving /\ SlotsApart /\ MessagesFit /\ MessagesInOrder /\ ResponseFits
    BY <1>a, <1>c DEF Serving
  <2>1. SlotsApart'
    BY <1>b, <1>f, <1>g, <1>k, <1>s, <2>a DEF SlotsApart, InSession, Owns
  <2>2. MessagesFit'
    <3> SUFFICES ASSUME NEW k \in 1 .. Len(inbox')
                 PROVE  MessageFits(inbox[k])'
      BY DEF MessagesFit
    <3>1. /\ inbox'[k] \in Message /\ MessageFits(inbox'[k])
          /\ inbox'[k].from # m.from
      BY <1>d, <1>f DEF Requests
    <3>2. client_id[inbox'[k].from] \in Ids
      BY <1>b, <3>1 DEF Message
    <3> QED
      BY <1>f, <1>g, <1>k, <3>1, <3>2 DEF MessageFits, InSession, Owns, Text
  <2>3. MessagesInOrder'
    <3> SUFFICES ASSUME NEW j \in 1 .. Len(inbox'), NEW k \in 1 .. Len(inbox'),
                        j < k, inbox'[j].from = inbox'[k].from
                 PROVE  inbox'[j].type \in Requests /\ inbox'[k].type = "STOP"
      BY DEF MessagesInOrder
    <3>1. j + 1 < k + 1
      OBVIOUS
    <3> QED
      BY <1>d, <2>a, <3>1 DEF MessagesInOrder
  <2>4. ResponseFits'
    BY <1>c, <1>f DEF ResponseFits
  <2> QED BY <2>1, <2>2, <2>3, <2>4 DEF ServingInv
<1> QED BY <1>1, <1>2, <1>3, <1>4, <1>5, <1>6 DEF IInv

\* The server's response goes to the owner of the slot it names.
LEMMA RespondKeeps ==
  ASSUME WholeSessions, IInv, Respond
  PROVE  IInv'
<1> USE SizeAssumption, NameAssumption DEF Goto, userVars, serverVars
<1>a. /\ TypeOK /\ QueuesThere /\ QuietEnds /\ AnswersMatch /\ NoSlotLeaked
      /\ Serving => SlotsApart /\ MessagesFit /\ MessagesInOrder /\ ResponseFits
  BY DEF IInv, ServingInv
<1>b. /\ pc \in [Clients -> ClientLabels] /\ client_id \in [Clients -> Ids]
      /\ cqueue \in [Clients -> Seq(Reply)]
  BY <1>a DEF TypeOK
<1>i. inbox \in Seq(Message) /\ Len(inbox) <= QueueMax
  BY <1>a DEF TypeOK
<1>c. /\ srv = "respond" /\ srv' = "receive" /\ ResponseFits /\ SlotsApart
      /\ pc' = pc /\ client_id' = client_id /\ nostop' = nostop /\ buf' = buf
      /\ lines' = lines /\ queues' = queues /\ inbox' = inbox /\ end' = end
      /\ response' = response
      /\ clients' = clients /\ opened' = opened
  BY <1>a DEF Respond, Serving
<1> DEFINE i == response.client_id
           c == clients[i].pid
<1>d. /\ c \in Clients /\ Owns(c, i) /\ i \in Ids /\ response \in Reply
      /\ pc[c] \notin {"prompt", "ended", "stop", "prepare", "greet"}
      /\ pc[c] \in {"shake", "await"} => cqueue[c] = << >>
      /\ pc[c] = "await" => /\ client_id[c] = i
                           /\ response.buf = Expected(c, buf[c].word)
      /\ pc[c] = "await" => \A k \in 1 .. Len(inbox) :
           inbox[k].from = c => inbox[k].type \notin Requests
  <2>1. i \in Ids /\ response \in Reply
    BY <1>a DEF TypeOK, Reply
  <2>2. /\ c \in Clients /\ Owns(c, i) /\ pc[c] \notin {"prompt", "ended", "stop"}
        /\ pc[c] = "shake" => cqueue[c] = << >>
        /\ pc[c] = "await" => /\ cqueue[c] = << >>
                             /\ client_id[c] = i
                             /\ response.buf = Expected(c, buf[c].word)
                             /\ \A k \in 1 .. Len(inbox) :
                                  inbox[k].from = c => inbox[k].type \notin Requests
    BY <1>c DEF ResponseFits
  <2>3. pc[c] \notin {"prepare", "greet"}
    BY <1>c, <2>1, <2>2 DEF SlotsApart, Owns
  <2> QED BY <2>1, <2>2, <2>3
<1> HIDE DEF i, c
<1>e. \/ cqueue' = cqueue
      \/ /\ Len(cqueue[c]) < QueueMax
         /\ cqueue' = [cqueue EXCEPT ![c] = Append(cqueue[c], response)]
  BY <1>d DEF Respond, send_to_client, Owns, i, c
<1>f. /\ cqueue' \in [Clients -> Seq(Reply)]
      /\ \A d \in Clients : d # c => cqueue'[d] = cqueue[d]
      /\ \A d \in Clients : Len(cqueue'[d]) <= QueueMax
      /\ cqueue[c] = << >> => cqueue'[c] \in {<< >>, <<response>>}
  <2>1. CASE cqueue' = cqueue
    BY <1>a, <1>b, <2>1 DEF TypeOK
  <2>2. CASE /\ Len(cqueue[c]) < QueueMax
             /\ cqueue' = [cqueue EXCEPT ![c] = Append(cqueue[c], response)]
    <3>1. /\ Append(cqueue[c], response) \in Seq(Reply)
          /\ Len(Append(cqueue[c], response)) = Len(cqueue[c]) + 1
          /\ Len(cqueue[c]) \in Nat
      BY <1>b, <1>d, Appended
    <3>2. \A d \in Clients : Len(cqueue[d]) <= QueueMax
      BY <1>a DEF TypeOK
    <3>3. \A d \in Clients : Len(cqueue'[d]) <= QueueMax
      BY <1>b, <1>d, <2>2, <3>1, <3>2
    <3>4. cqueue[c] = << >> => Append(cqueue[c], response) = <<response>>
      BY <1>d
    <3> QED BY <1>b, <1>d, <2>2, <3>1, <3>3, <3>4
  <2> QED BY <1>e, <2>1, <2>2
<1>1. TypeOK'
  BY <1>a, <1>c, <1>f DEF TypeOK
<1>2. QueuesThere'
  BY <1>a, <1>c DEF QueuesThere, InSession
<1>3. QuietEnds'
  BY <1>a, <1>c, <1>d, <1>f DEF QuietEnds
<1>4. AnswersMatch'
  <2> SUFFICES ASSUME NEW d \in Clients
               PROVE  /\ pc[d] = "await" /\ cqueue'[d] # << >> =>
                           cqueue'[d] = <<[client_id |-> client_id[d],
                                          buf |-> Expected(d, buf[d].word)]>>
                      /\ pc[d] = "shake" /\ cqueue'[d] # << >> =>
                           /\ Len(cqueue'[d]) = 1
                           /\ clients[Head(cqueue'[d]).client_id].pid = d
                      /\ pc[d] \in {"prompt", "ended", "stop"} => cqueue'[d] = << >>
    BY <1>c DEF AnswersMatch, Expected
  <2>1. CASE d # c
    BY <1>a, <1>f, <2>1 DEF AnswersMatch
  <2>2. CASE d = c
    <3>1. CASE pc[c] = "await"
      <4>1. response = [client_id |-> client_id[c],
                        buf |-> Expected(c, buf[c].word)]
        BY <1>d, <3>1 DEF Reply, i
      <4> QED BY <1>d, <1>f, <2>2, <3>1, <4>1
    <3>2. CASE pc[c] = "shake"
      <4>1. /\ cqueue'[c] \in {<< >>, <<response>>}
            /\ clients[response.client_id].pid = c
        BY <1>d, <1>f, <3>2 DEF i, c
      <4> QED BY <2>2, <3>2, <4>1
    <3> QED BY <1>d, <2>2, <3>1, <3>2
  <2> QED BY <2>1, <2>2
<1>5. NoSlotLeaked'
  BY <1>a, <1>c DEF NoSlotLeaked, InSession, From, Messages
<1>6. ASSUME Serving' PROVE ServingInv'
  <2>a. Serving /\ SlotsApart /\ MessagesFit /\ MessagesInOrder /\ ResponseFits
    BY <1>a, <1>c DEF Serving
  <2>1. SlotsApart'
    <3>1. ASSUME NEW d \in Clients, pc[d] = "shake", cqueue'[d] # << >>
          PROVE  Owns(d, Head(cqueue'[d]).client_id)
      <4>1. CASE d # c
        BY <1>f, <2>a, <3>1, <4>1 DEF SlotsApart
      <4>2. CASE d = c
        BY <1>d, <1>f, <3>1, <4>2 DEF i
      <4> QED BY <4>1, <4>2
    <3> QED
      BY <1>c, <2>a, <3>1 DEF SlotsApart, InSession, Owns
  <2>2. MessagesFit'
    <3> SUFFICES ASSUME NEW k \in 1 .. Len(inbox)
                 PROVE  MessageFits(inbox[k])'
      BY <1>c DEF MessagesFit
    <3>1. MessageFits(inbox[k]) /\ inbox[k] \in Message
      BY <1>i, <2>a DEF MessagesFit
    <3>2. CASE inbox[k].from # c
      BY <1>c, <1>f, <3>1, <3>2 DEF MessageFits, Message, InSession, Owns, Text
    <3>3. CASE inbox[k].from = c
      BY <1>c, <1>d, <3>1, <3>3 DEF MessageFits, Message, InSession, Owns, Text
    <3> QED BY <3>2, <3>3
  <2>3. MessagesInOrder'
    BY <1>c, <2>a DEF MessagesInOrder
  <2>4. ResponseFits'
    BY <1>c DEF ResponseFits
  <2> QED BY <2>1, <2>2, <2>3, <2>4 DEF ServingInv
<1> QED BY <1>1, <1>2, <1>3, <1>4, <1>5, <1>6 DEF IInv

\* The server's exit: the clients go on with queues nobody answers.
LEMMA ServerExitKeeps ==
  ASSUME WholeSessions, IInv, ServerExit
  PROVE  IInv'
<1> USE DEF userVars
<1>1. /\ srv' = "exited" /\ inbox' = inbox
      /\ UNCHANGED <<pc, client_id, nostop, buf, lines, queues, cqueue, end,
                     response, clients, opened>>
  BY DEF ServerExit, WholeSessions
<1>2. TypeOK' /\ QueuesThere' /\ QuietEnds' /\ AnswersMatch'
  BY <1>1 DEF IInv, TypeOK, QueuesThere, QuietEnds, AnswersMatch, InSession,
              Expected
<1>3. NoSlotLeaked'
  BY <1>1 DEF IInv, NoSlotLeaked
<1> QED
  BY <1>1, <1>2, <1>3 DEF IInv, Serving

\* Initially all slots are free and all queues empty.
LEMMA InitIInv ==
  ASSUME Init PROVE IInv
<1> USE SizeAssumption, NameAssumption
<1>0. Init
  OBVIOUS
<1>1. TypeOK
  <2>1. << >> \in Seq(Reply) /\ << >> \in Seq(Message) /\ Len(<< >>) = 0
    OBVIOUS
  <2>2. NoReply \in Reply /\ 0 \in Ids
    BY DEF NoReply, Reply, Answers, Ids
  <2>3. /\ pc \in [Clients -> ClientLabels] /\ client_id \in [Clients -> Ids]
        /\ lines \in [Clients -> 0 .. MaxLines] /\ clients \in [Ids -> Slot]
    BY <1>0, <2>2 DEF Init, ClientLabels, Slot
  <2>4. buf \in [Clients -> [word : Words \cup {""},
                            sep : Separators \cup {"space"}]]
    <3>1. NoLine \in [word : Words \cup {""}, sep : Separators \cup {"space"}]
      BY DEF NoLine
    <3> QED
      BY <1>0, <3>1 DEF Init
  <2>5. /\ cqueue \in [Clients -> Seq(Reply)]
        /\ \A c \in Clients : Len(cqueue[c]) <= QueueMax
    BY <1>0, <2>1 DEF Init
  <2>6. inbox \in Seq(Message) /\ Len(inbox) <= QueueMax
    BY <1>0, <2>1 DEF Init
  <2> QED
    BY <1>0, <2>2, <2>3, <2>4, <2>5, <2>6 DEF Init, TypeOK
<1>2. QueuesThere /\ QuietEnds /\ AnswersMatch
  BY <1>0 DEF Init, QueuesThere, QuietEnds, AnswersMatch, InSession
<1>3. NoSlotLeaked /\ SlotsApart /\ MessagesFit /\ MessagesInOrder
  BY <1>0 DEF Init, NoSlotLeaked, SlotsApart, MessagesFit, MessagesInOrder,
              InSession
<1>4. ResponseFits
  BY <1>0 DEF Init, ResponseFits
<1> QED
  BY <1>1, <1>2, <1>3, <1>4 DEF IInv, ServingInv

\* In the POSIX build, with SIGINT only in the middle of a session: messages,
\* slots and clients fit together as IInv says, whatever the numbers of
\* clients, slots and lines and the sizes of the queues.
THEOREM Invariance == WholeSessions => (Spec => []IInv)
<1> SUFFICES ASSUME WholeSessions PROVE Spec => []IInv
  OBVIOUS
<1>1. Init => IInv
  BY InitIInv
<1>2. IInv /\ [Next]_vars => IInv'
  <2> SUFFICES ASSUME IInv, [Next]_vars PROVE IInv'
    OBVIOUS
  <2>1. CASE UNCHANGED vars
    <3> USE <2>1 DEF vars, userVars, serverVars, InSession, Owns, Expected
    <3>1. TypeOK' /\ QueuesThere' /\ QuietEnds' /\ AnswersMatch'
      BY DEF IInv, TypeOK, QueuesThere, QuietEnds, AnswersMatch
    <3>2. NoSlotLeaked'
      BY DEF IInv, NoSlotLeaked, From, Messages
    <3>3. Serving' => SlotsApart' /\ MessagesInOrder' /\ ResponseFits'
      BY DEF IInv, ServingInv, Serving, SlotsApart, MessagesInOrder,
         ResponseFits
    <3>4. Serving' => MessagesFit'
      BY DEF IInv, ServingInv, Serving, MessagesFit, MessageFits, Text
    <3> QED
      BY <3>1, <3>2, <3>3, <3>4 DEF IInv, ServingInv
  <2>2. ASSUME NEW c \in Clients, ClientStep(c) PROVE IInv'
    <3>1. CASE \E word \in Words, sep \in Separators :
                 LET line == [word |-> word, sep |-> sep]
                 IN  SendRequest(c, line) \/ SendEnd(c, line)
                     \/ Unrecognized(c, line)
      BY <3>1, SendRequestKeeps, SendEndKeeps, UnrecognizedKeeps
    <3>2. CASE PrepareQueues(c) \/ PrepareFails(c) \/ SendHandshake(c)
               \/ Connected(c) \/ PrintResponse(c) \/ EndOfInput(c)
               \/ ExitQuietly(c) \/ SendStop(c) \/ RemoveQueue(c)
      BY <3>2, PrepareQueuesKeeps, PrepareFailsKeeps, SendHandshakeKeeps,
         ConnectedKeeps, PrintResponseKeeps, EndOfInputKeeps,
         ExitQuietlyKeeps, SendStopKeeps, RemoveQueueKeeps
    <3> QED
      BY <2>2, <3>1, <3>2 DEF ClientStep
  <2>3. ASSUME NEW c \in Clients, Interrupt(c) PROVE IInv'
    BY <2>3, InterruptKeeps
  <2>4. ASSUME ServerStep PROVE IInv'
    <3>1. ASSUME NEW m, \/ Ignore(m) \/ Handshake(m) \/ HandshakeFails(m)
                        \/ ClientLimitReached(m) \/ Stop(m) \/ Serve(m) \/ End(m)
          PROVE  IInv'
      BY <3>1, IgnoreKeeps, HandshakeKeeps, HandshakeFailsKeeps,
         ClientLimitReachedKeeps, StopKeeps, ServeKeeps, EndKeeps
    <3> QED
      BY <2>4, <3>1, RespondKeeps, ServerExitKeeps DEF ServerStep, Drained
  <2>5. ASSUME ServerInterrupt PROVE IInv'
    BY <2>5, ServerExitKeeps DEF ServerInterrupt
  <2> QED
    BY <2>1, <2>2, <2>3, <2>4, <2>5 DEF Next
<1> QED
  BY <1>1, <1>2, PTL DEF Spec

\* A client that was told its id has that slot to itself until its STOP is
\* handled, no slot in use is without its client, and no queue overflows
\* (server.c:162-210): for every number of clients and slots.
THEOREM SlotsAlwaysOwned == WholeSessions => (Spec => []SlotsOwned)
<1> SUFFICES ASSUME WholeSessions PROVE Spec => []SlotsOwned
  OBVIOUS
<1>1. IInv => SlotIsTheClients
  <2> SUFFICES ASSUME IInv, NEW c \in Clients, srv # "exited",
                      InSession(c) \/ \E m \in From(c) : m.type = "STOP"
               PROVE  Owns(c, client_id[c])
    BY DEF SlotIsTheClients, Owns
  <2>1. ServingInv
    BY DEF IInv, Serving
  <2>2. CASE InSession(c)
    BY <2>1, <2>2 DEF ServingInv, SlotsApart
  <2>3. CASE \E m \in From(c) : m.type = "STOP"
    <3>1. PICK k \in 1 .. Len(inbox) :
            inbox[k].from = c /\ inbox[k].type = "STOP"
      BY <2>3 DEF From, Messages
    <3>2. MessageFits(inbox[k])
      BY <2>1 DEF ServingInv, MessagesFit
    <3> QED
      BY <3>1, <3>2 DEF MessageFits
  <2> QED BY <2>2, <2>3
<1>2. IInv => SlotsOwned
  BY <1>1 DEF IInv, SlotsOwned
<1> QED
  BY <1>2, Invariance, PTL

\* What a waiting client finds in its queue is the answer to the line it typed
\* last, and a client that does not wait finds nothing (server.c:212-272,
\* client.c:242-248): for every number of clients, slots and lines.
THEOREM AnswersAlwaysMatch == WholeSessions => (Spec => []AnswersMatch)
<1> SUFFICES ASSUME WholeSessions PROVE Spec => []AnswersMatch
  OBVIOUS
<1>1. IInv => AnswersMatch
  BY DEF IInv
<1> QED
  BY <1>1, Invariance, PTL
=============================================================================
