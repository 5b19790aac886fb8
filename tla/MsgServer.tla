----------------------------- MODULE MsgServer ------------------------------
(***************************************************************************)
(* The message-queue server of cw06 and its clients (server.c, client.c),  *)
(* in both builds: System V queues (zad1) and, with POSIXQ, POSIX queues   *)
(* (zad2).                                                                 *)
(*                                                                         *)
(* A step is one queue operation with what the program does up to the next *)
(* one.  A client's queue is named by the client.  SIGINT is the user's:   *)
(* it may come to a client that is at one of the places in InterruptAt     *)
(* and, if ServerSignals, to the server at any moment; a second SIGINT     *)
(* (the first reset the handler) and SIGKILL are left out.                 *)
(***************************************************************************)
EXTENDS Naturals, Sequences

CONSTANTS
  Clients,        \* the client processes
  Nobody,         \* a value that is the queue of no client
  POSIXQ,         \* the build: POSIX queues (TRUE) or System V queues
  CLIENT_MAX,     \* slots of the server
  QueueMax,       \* messages a queue holds (mq_maxmsg; 16 KiB in System V)
  MaxLines,       \* bound on the lines a client reads
  Words,          \* first words of the lines the user types
  Separators,     \* what follows the word: "space", "newline" or "eof"
  InterruptAt,    \* where clients may get a SIGINT
  ServerSignals   \* whether the server may get a SIGINT

ASSUME NameAssumption == Nobody \notin Clients
ASSUME SizeAssumption == /\ CLIENT_MAX \in Nat \ {0}
                         /\ QueueMax \in Nat \ {0}
                         /\ MaxLines \in Nat
ASSUME InputAssumption == /\ {POSIXQ, ServerSignals} \subseteq BOOLEAN
                          /\ Separators \subseteq {"space", "newline", "eof"}
                          /\ InterruptAt \subseteq STRING

VARIABLES
  pc,         \* pc[c]: the operation client c executes next
  client_id,  \* client_id[c], 0 until the handshake is answered
  nostop,     \* clients whose nostop is 1
  buf,        \* buf[c]: the line client c read last
  lines,      \* lines[c]: number of lines c has read
  queues,     \* clients whose queue exists
  cqueue,     \* cqueue[c]: the messages in the queue of client c
  inbox,      \* the messages in the server's queue
  srv,        \* "receive", "respond" or "exited"
  end,        \* the server's end flag
  response,   \* the server's response
  clients,    \* clients[i]: pid, stopped and queue of slot i
  opened      \* client queues the server has opened and not closed (POSIXQ)

userVars == <<nostop, buf, lines>>
serverVars == <<srv, end, response, clients, opened>>
vars == <<pc, client_id, userVars, queues, cqueue, inbox, serverVars>>

Ids == 0 .. CLIENT_MAX - 1
Requests == {"mirror", "calc", "time"}
Types == {"HANDSHAKE", "STOP", "END"} \cup Requests
ClientLabels == {"prepare", "greet", "shake", "prompt", "await", "ended",
                 "stop", "close", "sigstop", "sigclose", "laststop",
                 "lastclose", "failed", "gone"}

(* A text is a short sequence: the client and the number of its line.      *)
Texts == {<<>>} \cup (Clients \X (0 .. MaxLines))
mirror_text(t) == [i \in 1 .. Len(t) |-> t[Len(t) + 1 - i]]

(* bc computes something of the text, date nothing; what they print is     *)
(* abstracted to who printed it.                                           *)
Answer(type, text) ==
  [by |-> type, text |-> CASE type = "mirror" -> mirror_text(text)
                           [] type = "calc"   -> text
                           [] OTHER           -> <<>>]
NoAnswer == [by |-> "nobody", text |-> <<>>]  \* buf of a handshake's answer
Answers == {Answer(r, t) : r \in Requests, t \in Texts} \cup {NoAnswer}

Message == [type : Types, client_id : Ids, from : Clients, text : Texts]
Reply == [client_id : Ids, buf : Answers]
NoReply == [client_id |-> 0, buf |-> NoAnswer]
NoLine == [word |-> "", sep |-> "space"]

Init ==
  /\ pc = [c \in Clients |-> "prepare"]
  /\ client_id = [c \in Clients |-> 0]
  /\ nostop = {}
  /\ buf = [c \in Clients |-> NoLine]
  /\ lines = [c \in Clients |-> 0]
  /\ queues = {}
  /\ cqueue = [c \in Clients |-> <<>>]
  /\ inbox = <<>>
  /\ srv = "receive"
  /\ end = FALSE
  /\ response = NoReply
  /\ clients = [i \in Ids |-> [pid |-> Nobody, stopped |-> TRUE,
                               queue |-> Nobody]]
  /\ opened = {}

Goto(c, label) == pc' = [pc EXCEPT ![c] = label]
-----------------------------------------------------------------------------
(***************************************************************************)
(* The client.                                                             *)
(***************************************************************************)

(* Mutant: a send to a removed queue is taken for one that has to wait.    *)
ReachableAlways(c) == TRUE

(* send_to_server fails once the System V queue is removed; a POSIX client *)
(* keeps its descriptor, even of an unlinked queue, until its cleanup.     *)
Reachable(c) == IF POSIXQ THEN c \in queues ELSE srv # "exited"

Accepted(m) == Len(inbox) < QueueMax /\ inbox' = Append(inbox, m)

send_to_server(c, type, text) ==
  IF Reachable(c)
  THEN Accepted([type |-> type, client_id |-> client_id[c], from |-> c,
                 text |-> text])
  ELSE UNCHANGED inbox

(* prepare_queues: the client's queue is created, the server's opened.     *)
PrepareQueues(c) ==
  /\ pc[c] = "prepare"
  /\ queues' = queues \cup {c}
  /\ Goto(c, IF srv = "exited" THEN "failed" ELSE "greet")
  /\ UNCHANGED <<client_id, userVars, cqueue, inbox, serverVars>>

(* The name or key of the new queue is in use already.                     *)
PrepareFails(c) ==
  /\ pc[c] = "prepare"
  /\ Goto(c, "failed")
  /\ UNCHANGED <<client_id, userVars, queues, cqueue, inbox, serverVars>>

SendHandshake(c) ==
  /\ pc[c] = "greet"
  /\ send_to_server(c, "HANDSHAKE", <<>>)
  /\ Goto(c, IF Reachable(c) THEN "shake" ELSE "stop")
  /\ UNCHANGED <<client_id, userVars, queues, cqueue, serverVars>>

receive_from_server(c) ==
  /\ cqueue[c] # <<>>
  /\ cqueue' = [cqueue EXCEPT ![c] = Tail(@)]

Connected(c) ==
  /\ pc[c] = "shake"
  /\ receive_from_server(c)
  /\ client_id' = [client_id EXCEPT ![c] = Head(cqueue[c]).client_id]
  /\ Goto(c, "prompt")
  /\ UNCHANGED <<userVars, queues, inbox, serverVars>>

(* A command is what precedes the first space; a newline is only cut off   *)
(* what follows it.                                                        *)
Command(line) == IF line.sep = "newline" THEN "" ELSE line.word
Text(c, line, n) == IF line.sep = "space" THEN <<c, n>> ELSE <<>>

ReadLine(c, line) ==
  /\ pc[c] = "prompt"
  /\ lines[c] < MaxLines
  /\ lines' = [lines EXCEPT ![c] = @ + 1]
  /\ buf' = [buf EXCEPT ![c] = line]

SendRequest(c, line) ==
  /\ ReadLine(c, line)
  /\ Command(line) \in Requests
  /\ send_to_server(c, line.word, Text(c, line, lines'[c]))
  /\ Goto(c, "await")
  /\ UNCHANGED <<client_id, nostop, queues, cqueue, serverVars>>

SendEnd(c, line) ==
  /\ ReadLine(c, line)
  /\ Command(line) = "end"
  /\ send_to_server(c, "END", <<>>)
  /\ Goto(c, "ended")
  /\ UNCHANGED <<client_id, nostop, queues, cqueue, serverVars>>

Unrecognized(c, line) ==
  /\ ReadLine(c, line)
  /\ Command(line) \notin Requests \cup {"end"}
  /\ UNCHANGED <<pc, client_id, nostop, queues, cqueue, inbox, serverVars>>

PrintResponse(c) ==
  /\ pc[c] = "await"
  /\ receive_from_server(c)
  /\ Goto(c, "prompt")
  /\ UNCHANGED <<client_id, userVars, queues, inbox, serverVars>>

(* nostop = 1 and exit, which runs cleanup.                                *)
ExitQuietly(c) ==
  /\ pc[c] = "ended"
  /\ nostop' = nostop \cup {c}
  /\ Goto(c, "stop")
  /\ UNCHANGED <<client_id, buf, lines, queues, cqueue, inbox, serverVars>>

EndOfInput(c) ==
  /\ pc[c] = "prompt"
  /\ Goto(c, "stop")
  /\ UNCHANGED <<client_id, userVars, queues, cqueue, inbox, serverVars>>

(* cleanup, first half: STOP, unless nostop.                               *)
SendStop(c) ==
  /\ pc[c] \in {"stop", "sigstop", "laststop"}
  /\ IF c \in nostop THEN UNCHANGED inbox ELSE send_to_server(c, "STOP", <<>>)
  /\ Goto(c, CASE pc[c] = "stop"    -> "close"
               [] pc[c] = "sigstop" -> "sigclose"
               [] OTHER             -> "lastclose")
  /\ UNCHANGED <<client_id, userVars, queues, cqueue, serverVars>>

(* cleanup, second half: the client's queue is removed.  The signal        *)
(* handler goes on with exit, which runs cleanup once more.                *)
RemoveQueue(c) ==
  /\ pc[c] \in {"close", "sigclose", "lastclose"}
  /\ queues' = queues \ {c}
  /\ cqueue' = [cqueue EXCEPT ![c] = <<>>]
  /\ Goto(c, IF pc[c] = "sigclose" THEN "laststop" ELSE "gone")
  /\ UNCHANGED <<client_id, userVars, inbox, serverVars>>

(* sig_cleanup.  A client that is in exit already does not run the atexit  *)
(* handler again after it.                                                 *)
Interrupt(c) ==
  /\ pc[c] \in InterruptAt
  /\ \/ /\ pc[c] \in {"greet", "shake", "prompt", "await", "ended"}
        /\ Goto(c, "sigstop")
     \/ /\ pc[c] \in {"stop", "close"}
        /\ Goto(c, "laststop")
  /\ UNCHANGED <<client_id, userVars, queues, cqueue, inbox, serverVars>>

ClientStep(c) ==
  \/ PrepareQueues(c) \/ PrepareFails(c)
  \/ SendHandshake(c) \/ Connected(c)
  \/ \E word \in Words, sep \in Separators :
        LET line == [word |-> word, sep |-> sep]
        IN  SendRequest(c, line) \/ SendEnd(c, line) \/ Unrecognized(c, line)
  \/ PrintResponse(c) \/ EndOfInput(c) \/ ExitQuietly(c)
  \/ SendStop(c) \/ RemoveQueue(c)
-----------------------------------------------------------------------------
(***************************************************************************)
(* The server.  It handles the first message of its queue; Received is     *)
(* what every handler starts with.                                         *)
(***************************************************************************)
Received(m) ==
  /\ srv = "receive"
  /\ inbox # <<>>
  /\ m = Head(inbox)
  /\ inbox' = Tail(inbox)

(* Only HANDSHAKE is heeded when the slot it names is not in use.          *)
Heeded(m) == ~clients[m.client_id].stopped

Ignore(m) ==
  /\ Received(m)
  /\ m.type # "HANDSHAKE" /\ ~Heeded(m)
  /\ UNCHANGED <<pc, client_id, userVars, queues, cqueue, serverVars>>

(* Mutant: the test of stopped is missing.                                 *)
FreeSlotsAll == Ids

FreeSlots == {i \in Ids : clients[i].stopped}
FirstFree == CHOOSE i \in FreeSlots : \A j \in FreeSlots : i <= j

(* The handshake is accepted: the slot is taken, the client's queue opened. *)
Handshake(m) ==
  /\ Received(m)
  /\ m.type = "HANDSHAKE"
  /\ FreeSlots # {}
  /\ m.from \in queues
  /\ clients' = [clients EXCEPT ![FirstFree] = [pid |-> m.from,
                                                stopped |-> FALSE,
                                                queue |-> m.from]]
  /\ opened' = opened \cup {m.from}
  /\ response' = [client_id |-> FirstFree, buf |-> NoAnswer]
  /\ srv' = "respond"
  /\ UNCHANGED <<pc, client_id, userVars, queues, cqueue, end>>

(* The client's queue is gone: the slot stays taken, with the queue that   *)
(* the uninitialised local struct happened to name.                        *)
HandshakeFails(m) ==
  /\ Received(m)
  /\ m.type = "HANDSHAKE"
  /\ FreeSlots # {}
  /\ m.from \notin queues
  /\ \E q \in Clients \cup {Nobody} :
        clients' = [clients EXCEPT ![FirstFree] = [pid |-> m.from,
                                                   stopped |-> FALSE,
                                                   queue |-> q]]
  /\ UNCHANGED <<pc, client_id, userVars, queues, cqueue, srv, end, response,
                 opened>>

ClientLimitReached(m) ==
  /\ Received(m)
  /\ m.type = "HANDSHAKE"
  /\ FreeSlots = {}
  /\ UNCHANGED <<pc, client_id, userVars, queues, cqueue, serverVars>>

Stop(m) ==
  /\ Received(m)
  /\ m.type = "STOP" /\ Heeded(m)
  /\ clients' = [clients EXCEPT ![m.client_id].stopped = TRUE]
  /\ opened' = opened \ {clients[m.client_id].queue}
  /\ UNCHANGED <<pc, client_id, userVars, queues, cqueue, srv, end, response>>

(* Mutant: response.client_id keeps the value of the response before.      *)
ServeStaleId(m) ==
  /\ Received(m)
  /\ m.type \in Requests /\ Heeded(m)
  /\ response' = [response EXCEPT !.buf = Answer(m.type, m.text)]
  /\ srv' = "respond"
  /\ UNCHANGED <<pc, client_id, userVars, queues, cqueue, end, clients, opened>>

(* MIRROR, CALC and TIME; bc and date answer something of their own.       *)
Serve(m) ==
  /\ Received(m)
  /\ m.type \in Requests /\ Heeded(m)
  /\ response' = [client_id |-> m.client_id, buf |-> Answer(m.type, m.text)]
  /\ srv' = "respond"
  /\ UNCHANGED <<pc, client_id, userVars, queues, cqueue, end, clients, opened>>

(* Mutant: END is taken off the queue and forgotten.                       *)
EndForgotten(m) ==
  /\ Received(m)
  /\ m.type = "END" /\ Heeded(m)
  /\ UNCHANGED <<pc, client_id, userVars, queues, cqueue, srv, end, response,
                 clients, opened>>

End(m) ==
  /\ Received(m)
  /\ m.type = "END" /\ Heeded(m)
  /\ end' = TRUE
  /\ UNCHANGED <<pc, client_id, userVars, queues, cqueue, srv, response,
                 clients, opened>>

(* The type of a response is the client's id, and msgsnd refuses type 0.   *)
(* What is sent to a POSIX queue that was unlinked is never read.          *)
Sendable(q) == IF POSIXQ THEN q \in opened
               ELSE q \in queues /\ response.client_id > 0

send_to_client ==
  LET q == clients[response.client_id].queue
  IN  IF Sendable(q) /\ q \in queues
      THEN /\ Len(cqueue[q]) < QueueMax
           /\ cqueue' = [cqueue EXCEPT ![q] = Append(@, response)]
      ELSE UNCHANGED cqueue

Respond ==
  /\ srv = "respond"
  /\ send_to_client
  /\ srv' = "receive"
  /\ UNCHANGED <<pc, client_id, userVars, queues, inbox, end, response, clients,
                 opened>>

(* The server's exit removes its queue; POSIX clients still have it open.  *)
ServerExit ==
  /\ srv' = "exited"
  /\ inbox' = IF POSIXQ THEN inbox ELSE <<>>
  /\ UNCHANGED <<pc, client_id, userVars, queues, cqueue, end, response,
                 clients, opened>>

(* Mutant: the server exits at once after END.                             *)
DrainedEarly == srv = "receive" /\ end /\ ServerExit

(* After END the server does not wait any more: an empty queue is the end. *)
Drained == srv = "receive" /\ end /\ inbox = <<>> /\ ServerExit

ServerInterrupt == ServerSignals /\ srv # "exited" /\ ServerExit

ServerStep ==
  \/ \E m \in {inbox[i] : i \in 1 .. Len(inbox)} :
        \/ Ignore(m) \/ Handshake(m) \/ HandshakeFails(m)
        \/ ClientLimitReached(m) \/ Stop(m) \/ Serve(m) \/ End(m)
  \/ Respond \/ Drained
-----------------------------------------------------------------------------
Next == \/ \E c \in Clients : ClientStep(c) \/ Interrupt(c)
        \/ ServerStep \/ ServerInterrupt

(* Every process goes on as long as it can; its user types lines or ends   *)
(* the input.                                                              *)
Fairness == WF_vars(ServerStep) /\ \A c \in Clients : WF_vars(ClientStep(c))

Spec == Init /\ [][Next]_vars /\ Fairness
-----------------------------------------------------------------------------
Slot == [pid : Clients \cup {Nobody}, stopped : BOOLEAN,
         queue : Clients \cup {Nobody}]

(* Type correctness; no queue holds more than QueueMax messages.           *)
TypeOK ==
  /\ pc \in [Clients -> ClientLabels]
  /\ client_id \in [Clients -> Ids]
  /\ nostop \subseteq Clients
  /\ buf \in [Clients -> [word : Words \cup {""},
                          sep : Separators \cup {"space"}]]
  /\ lines \in [Clients -> 0 .. MaxLines]
  /\ queues \subseteq Clients
  /\ cqueue \in [Clients -> Seq(Reply)]
  /\ inbox \in Seq(Message)
  /\ Len(inbox) <= QueueMax
  /\ \A c \in Clients : Len(cqueue[c]) <= QueueMax
  /\ srv \in {"receive", "respond", "exited"}
  /\ end \in BOOLEAN
  /\ response \in Reply
  /\ clients \in [Ids -> Slot]
  /\ opened \subseteq Clients

Messages == {inbox[i] : i \in 1 .. Len(inbox)}
From(c) == {m \in Messages : m.from = c}
InSession(c) == pc[c] \in {"prompt", "await", "ended", "stop", "sigstop"}

(* A client that was told its id has the slot of that id to itself until   *)
(* its STOP is handled or the server exits: a slot in use is never given   *)
(* away, and no message of another client frees it (server.c:162-205).     *)
SlotIsTheClients ==
  \A c \in Clients :
    srv # "exited" /\ (InSession(c) \/ \E m \in From(c) : m.type = "STOP")
    => /\ ~clients[client_id[c]].stopped
       /\ clients[client_id[c]].pid = c
       /\ clients[client_id[c]].queue = c

(* A slot in use belongs to a client that is there, has still to be told   *)
(* its id or has sent a STOP that will be handled, except for the client   *)
(* that ended the server: slots are not leaked (server.c:189, 205).        *)
NoSlotLeaked ==
  \A i \in Ids : ~clients[i].stopped =>
    \E c \in Clients :
      /\ clients[i].pid = c
      /\ \/ pc[c] = "shake"
         \/ InSession(c) /\ client_id[c] = i
         \/ c \in nostop
         \/ srv = "exited"
         \/ \E m \in From(c) : m.type = "STOP" /\ m.client_id = i

(* The slots in use and the clients in session are one to one: no slot has *)
(* two owners and none is without (server.c:162-210), and no queue         *)
(* overflows.                                                              *)
SlotsOwned == TypeOK /\ SlotIsTheClients /\ NoSlotLeaked

(* The answer to the line <<c, n>>: mirror sends the text back to front.   *)
Expected(c, word) ==
  [by |-> word,
   text |-> IF buf[c].sep # "space" \/ word = "time" THEN <<>>
            ELSE IF word = "mirror" THEN <<lines[c], c>> ELSE <<c, lines[c]>>]

(* What a waiting client finds in its queue is the answer to the line it   *)
(* typed last, and a client that is not waiting finds nothing: answers     *)
(* never reach another client or arrive twice (server.c:212-272,           *)
(* client.c:242-248).                                                      *)
AnswersMatch ==
  \A c \in Clients :
    /\ pc[c] = "await" /\ cqueue[c] # <<>> =>
         cqueue[c] = <<[client_id |-> client_id[c],
                        buf |-> Expected(c, buf[c].word)]>>
    /\ pc[c] = "shake" /\ cqueue[c] # <<>> =>
         /\ Len(cqueue[c]) = 1
         /\ clients[Head(cqueue[c]).client_id].pid = c
    /\ pc[c] \in {"prompt", "ended", "stop"} => cqueue[c] = <<>>

(* A request that is in the server's queue is answered, even when an END   *)
(* is in front of it: the server drains its queue before it exits          *)
(* (server.c:156-157).                                                     *)
QueuedRequestsAnswered ==
  \A c \in Clients :
    pc[c] = "await" /\ (\E m \in From(c) : m.type \in Requests)
                    /\ srv # "exited" ~> pc[c] # "await"

(* A line whose command is end stops the server, after what is queued      *)
(* before it, and nothing else but a SIGINT does (server.c:156-160, 263).  *)
(* Command decides: the help says that end stops the server                *)
(* (client.c:175), but the line end with its newline is an unknown command *)
(* (client.c:216-222, 230), so that a server whose users type it like that *)
(* goes on for ever.                                                       *)
EndStopsServer ==
  /\ \A c \in Clients : Command(buf[c]) = "end" ~> srv = "exited"
  /\ [](srv = "exited" /\ ~ServerSignals =>
         \E c \in Clients : Command(buf[c]) = "end")

(* While the server runs and a slot is free for everybody, a client that   *)
(* has sent its HANDSHAKE is told its id (server.c:165-200).               *)
HandshakeAnswered ==
  \A c \in Clients : pc[c] = "shake" ~> pc[c] # "shake" \/ srv = "exited"

(* Whatever a client waits for comes: its id after the HANDSHAKE, and the  *)
(* answer to every request that has reached the server's queue             *)
(* (server.c:156-157, 165-200, 270-272).                                   *)
EverythingAnswered == HandshakeAnswered /\ QueuedRequestsAnswered

(* A client that was interrupted comes to its end although it still sends  *)
(* one or two STOPs, to a server that may be busy or gone                  *)
(* (client.c:36-58).                                                       *)
InterruptedClientsEnd ==
  \A c \in Clients : pc[c] = "sigstop" ~> pc[c] = "gone"
=============================================================================
