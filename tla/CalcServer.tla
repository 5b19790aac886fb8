----------------------------- MODULE CalcServer -----------------------------
(***************************************************************************)
(* The calculation server of cw10 and its clients, over stream sockets     *)
(* (zad1) and, with Datagram, over datagrams (zad2): the accept threads,   *)
(* which register clients, the listener, the pinger, the operator's main   *)
(* thread, and the shutdown.  The build and what may happen to it are the  *)
(* setup, one of Setups, which a behaviour keeps.                          *)
(*                                                                         *)
(* Sections under clients_mx without a cancellation point are one step.    *)
(* The pinger keeps the mutex for a whole round and is modelled access by  *)
(* access; handle_pong and send_request use the client list without the    *)
(* mutex.  Over streams the server knows a connection by the number of its *)
(* descriptor, and accept gives the lowest free number: one that was       *)
(* closed soon is the number of another client.                            *)
(***************************************************************************)
EXTENDS Integers, Sequences, FiniteSets

CONSTANTS
  Clients,         \* the client processes
  Nobody,          \* in place of a client: none
  Name,            \* Name[c]: the name client c registers
  Via,             \* Via[c]: the server socket it connects to
  INACTIVITY_MAX,  \* CONF_INACTIVITY_MAX
  SocketBuffer,    \* messages a socket takes before a send blocks
  MaxDescriptors,  \* descriptors the server may have for connections
  MaxRequests,     \* bound on the requests the operator enters
  Setups           \* the setups of the behaviours, see setup

ASSUME ClientAssumption == /\ Nobody \notin Clients
                           /\ Via \in [Clients -> {"net", "local"}]
                           /\ DOMAIN Name = Clients
ASSUME LimitAssumption ==
  /\ INACTIVITY_MAX \in Nat
  /\ {SocketBuffer, MaxDescriptors, MaxRequests} \subseteq Nat
ASSUME SetupAssumption ==
  Setups \subseteq [datagram : BOOLEAN, clients_max : Nat \ {0},
                    clients : SUBSET Clients, requests : 0 .. MaxRequests,
                    leavers : SUBSET Clients, crashes : BOOLEAN,
                    shutdown : BOOLEAN]

VARIABLES
  setup,       \* build, size of the list, clients and events to come
  cst,         \* cst[c]: where client c is
  toServer,    \* toServer[c]: what c sent and the server has not received
  toClient,    \* toClient[c]: what the server sent and c has not received
  sock,        \* sock[c]: the server's end of c's connection (streams)
  fd,          \* fd[x]: whose connection descriptor x is (streams)
  polled,      \* descriptors in waiting_poll (streams)
  clients,     \* the client list
  free_cl,     \* where next_free_client starts
  mx,          \* whether the pinger holds clients_mx
  tpc,         \* place of the accept threads and the listener
  tsock, tcl,  \* the descriptor each is at, and whose message it received
  msg, lid,    \* the message the listener handles and the client_id it found
  ppc, pi,     \* place and loop index of the pinger
  pread,       \* the cl_inactivity the pinger has read to increment it
  mpc, clid,   \* place of the main thread, the client or index it is at
  request_id,  \* current_request_id
  cancelled,   \* threads pthread_cancel was called for
  srv,         \* "up" or "down"
  out,         \* ids of the requests whose result was printed
  missed,      \* history: missed[i], requests slot i was passed over for
  misclosed    \* history: a slot no longer in use closed another's descriptor

clientVars == <<cst, toServer, toClient>>
netVars == <<sock, fd, polled>>
threadVars == <<tpc, tsock, tcl, msg, lid>>
historyVars == <<missed, misclosed>>
pingerVars == <<ppc, pi, pread>>
mainVars == <<mpc, clid, request_id>>
vars == <<setup, clientVars, netVars, clients, free_cl, mx, threadVars,
          pingerVars, mainVars, cancelled, srv, out, historyVars>>

Datagram == setup.datagram        \* the build: CONF_DATAGRAM
CLIENTS_MAX == setup.clients_max  \* CONF_CLIENTS_MAX

Slots == 0 .. CLIENTS_MAX - 1
Descriptors == 1 .. MaxDescriptors
Accepters == IF Datagram THEN {} ELSE {"net", "local"}
Registrars == {"net", "local", "listener"}

Msg(type) == [type |-> type, id |-> 0]
NoMsg == Msg("NONE")
Types == {"REGISTER", "UNREGISTER", "PONG", "RESPONSE", "PING", "REQUEST",
          "NAMEINUSE", "SHUTDOWN", "NONE"}

Home(t) == IF t = "listener" THEN "wait" ELSE "accept"

Init ==
  /\ setup \in Setups
  /\ cst = [c \in Clients |-> "new"]
  /\ toServer = [c \in Clients |-> <<>>]
  /\ toClient = [c \in Clients |-> <<>>]
  /\ sock = [c \in Clients |-> "none"]
  /\ fd = [x \in Descriptors |-> Nobody]
  /\ polled = {}
  /\ clients = [i \in Slots |-> [cl_active |-> FALSE, addr |-> Nobody,
                                 cl_sock |-> 0, cl_inactivity |-> 0]]
  /\ free_cl = 0
  /\ mx = "free"
  /\ tpc = [t \in Registrars |-> Home(t)]
  /\ tsock = [t \in Registrars |-> 0]
  /\ tcl = [t \in Registrars |-> Nobody]
  /\ msg = NoMsg
  /\ lid = -1
  /\ ppc = "sleep" /\ pi = 0 /\ pread = 0
  /\ mpc = "prompt" /\ clid = -1 /\ request_id = 0
  /\ cancelled = {}
  /\ srv = "up"
  /\ out = {}
  /\ missed = [i \in Slots |-> 0]
  /\ misclosed = FALSE
-----------------------------------------------------------------------------
(***************************************************************************)
(* Sockets.                                                                *)
(***************************************************************************)

Up == srv = "up"
Listening == mpc \notin {"cancel_listener", "destroy"}

(* Whom a message sent through slot i reaches.                             *)
Peer(i) == IF Datagram THEN clients[i].addr ELSE fd[clients[i].cl_sock]

(* send_sm by the server to c; it waits while the buffer is full.  A       *)
(* stream whose client has closed it swallows the first bytes and then     *)
(* raises SIGPIPE, which the server does not handle: the second of         *)
(* send_sm's two sends may end the process.  A send to a descriptor that   *)
(* is closed fails, or raises SIGPIPE if another thread has shut the       *)
(* socket down and not closed it yet.                                      *)
Alive(c) == c # Nobody /\ cst[c] # "gone"

ServerSends(c, m) ==
  \/ /\ Alive(c) /\ Len(toClient[c]) < SocketBuffer
     /\ toClient' = [toClient EXCEPT ![c] = Append(@, m)]
     /\ srv' = srv
  \/ /\ ~Alive(c)
     /\ toClient' = toClient
     /\ srv' \in IF Datagram THEN {srv} ELSE {srv, "down"}

(* receive_sm by the server, when a whole message has arrived.             *)
ServerReceives(c) ==
  /\ c # Nobody /\ toServer[c] # <<>>
  /\ toServer' = [toServer EXCEPT ![c] = Tail(@)]

(* shutdown and close of a slot's descriptor, which only streams do; on a  *)
(* number that is not open both fail.  A client whose last messages were   *)
(* not read gets, through a local socket, a reset or, if it looks between  *)
(* the two calls, the end of the stream; TCP sends the end first.          *)
CloseSock(x) ==
  IF Datagram \/ fd[x] = Nobody THEN UNCHANGED netVars
  ELSE /\ fd' = [fd EXCEPT ![x] = Nobody]
       /\ polled' = polled \ {x}
       /\ \E end \in {"closed", "reset"} :
            /\ end = "reset" => /\ Alive(fd[x]) /\ Via[fd[x]] = "local"
                              /\ toServer[fd[x]] # <<>>
            /\ sock' = [sock EXCEPT ![fd[x]] = end]

(* A datagram between hosts may be lost.                                   *)
LoseDatagram(c) ==
  /\ Datagram /\ Via[c] = "net"
  /\ \/ /\ toServer[c] # <<>>
        /\ toServer' = [toServer EXCEPT ![c] = Tail(@)]
        /\ UNCHANGED toClient
     \/ /\ toClient[c] # <<>>
        /\ toClient' = [toClient EXCEPT ![c] = Tail(@)]
        /\ UNCHANGED toServer
  /\ UNCHANGED <<setup, cst, netVars, clients, free_cl, mx, threadVars,
                 pingerVars, mainVars, cancelled, srv, out, historyVars>>
-----------------------------------------------------------------------------
(***************************************************************************)
(* The client.                                                             *)
(***************************************************************************)
serverVars == <<setup, fd, polled, clients, free_cl, mx, threadVars,
                pingerVars, mainVars, cancelled, srv, out, historyVars>>

(* How the stream of c has ended: the server closed its end, or was reset  *)
(* because the server ended with data unread or before it accepted c.      *)
Reset(c) == \/ sock[c] = "reset"
            \/ sock[c] = "pending" /\ ~(Up /\ Listening)
            \/ sock[c] = "open" /\ ~Up /\ toServer[c] # <<>>
Closed(c) == \/ sock[c] = "closed"
             \/ sock[c] = "open" /\ ~Up /\ toServer[c] = <<>>

(* connect finds the server; a datagram between hosts need not.            *)
Found(c) == (Up /\ Listening) \/ (Datagram /\ Via[c] = "net")

Connect(c) ==
  /\ c \in setup.clients /\ cst[c] = "new"
  /\ IF Found(c)
     THEN /\ cst' = [cst EXCEPT ![c] = "connected"]
          /\ sock' = IF Datagram THEN sock ELSE [sock EXCEPT ![c] = "pending"]
     ELSE /\ cst' = [cst EXCEPT ![c] = "gone"]
          /\ UNCHANGED sock
  /\ UNCHANGED <<toServer, toClient, serverVars>>

(* send_sm by the client.  On a stream that has ended it fails or raises   *)
(* SIGPIPE, through a local socket always, which ends the client.          *)
Arrives(c) == IF Datagram THEN Found(c) ELSE ~Reset(c) /\ ~Closed(c)
ClientSends(c, m) ==
  toServer' = IF Arrives(c) THEN [toServer EXCEPT ![c] = Append(@, m)]
              ELSE toServer
AfterSend(c) == IF Datagram \/ Arrives(c) THEN {"running"}
                ELSE IF Via[c] = "net" THEN {"running", "gone"} ELSE {"gone"}

RegisterMe(c) ==
  /\ cst[c] = "connected"
  /\ \E end \in IF Datagram /\ ~Arrives(c) THEN {"gone"} ELSE AfterSend(c) :
       cst' = [cst EXCEPT ![c] = end]
  /\ ClientSends(c, Msg("REGISTER"))
  /\ UNCHANGED <<toClient, sock, serverVars>>

(* exit: cleanup unregisters the client unless the server said goodbye.    *)
ClientExits(c, send_unregister) ==
  /\ cst' = [cst EXCEPT ![c] = "gone"]
  /\ IF send_unregister THEN ClientSends(c, Msg("UNREGISTER"))
                        ELSE UNCHANGED toServer
  /\ UNCHANGED <<sock, serverVars>>

ReceiveRequest(c) ==
  /\ cst[c] = "running"
  /\ toClient[c] # <<>>
  /\ toClient' = [toClient EXCEPT ![c] = Tail(@)]
  /\ LET m == Head(toClient[c])
     IN  \/ /\ m.type \in {"PING", "REQUEST"}
            /\ ClientSends(c, [m EXCEPT !.type = IF m.type = "PING" THEN "PONG"
                                                ELSE "RESPONSE"])
            /\ \E end \in AfterSend(c) : cst' = [cst EXCEPT ![c] = end]
            /\ UNCHANGED <<sock, serverVars>>
         \/ m.type = "NAMEINUSE" /\ ClientExits(c, TRUE)
         \/ m.type = "SHUTDOWN" /\ ClientExits(c, FALSE)

(* Mutant: the end of the stream is an error like any other: try again.    *)
ServerClosedIgnored(c) ==
  /\ ~Datagram
  /\ cst[c] = "running"
  /\ toClient[c] = <<>>
  /\ Closed(c)
  /\ UNCHANGED vars

(* receive_sm finds the end of the stream: errno is 0.                     *)
ServerClosed(c) ==
  /\ ~Datagram
  /\ cst[c] = "running"
  /\ toClient[c] = <<>>
  /\ Closed(c)
  /\ ClientExits(c, TRUE)
  /\ UNCHANGED toClient

(* receive_sm finds the connection reset: errno is ECONNRESET and remains  *)
(* so, and the client tries again for ever.                                *)
ConnectionReset(c) ==
  /\ ~Datagram
  /\ cst[c] = "running"
  /\ toClient[c] = <<>>
  /\ Reset(c)
  /\ cst' = [cst EXCEPT ![c] = "retry"]
  /\ UNCHANGED <<toServer, toClient, sock, serverVars>>

(* SIGINT or SIGTERM.                                                      *)
ClientInterrupted(c) ==
  /\ c \in setup.leavers
  /\ cst[c] \in {"connected", "running", "retry"}
  /\ ClientExits(c, TRUE)
  /\ UNCHANGED toClient

Crash(c) ==
  /\ setup.crashes
  /\ cst[c] \in {"connected", "running", "retry"}
  /\ ClientExits(c, FALSE)
  /\ UNCHANGED toClient

ClientStep(c) == \/ Connect(c) \/ RegisterMe(c)
                 \/ ReceiveRequest(c)
                 \/ ServerClosed(c) \/ ConnectionReset(c)
-----------------------------------------------------------------------------
(***************************************************************************)
(* The client list.  Each operator is one section under clients_mx.        *)
(***************************************************************************)
Active == {i \in Slots : clients[i].cl_active}

IsNameTaken(c) == \E i \in Active : Name[clients[i].addr] = Name[c]

LowestOf(S) == IF S = {} THEN -1 ELSE CHOOSE i \in S : \A j \in S : i <= j
client_freeid == LowestOf(Slots \ Active)
client_for_addr(c) == LowestOf({i \in Active : clients[i].addr = c})
client_for_sock(x) == LowestOf({i \in Active : clients[i].cl_sock = x})

(* Mutant: the search always starts at the first slot.                     *)
next_free_from_start == LowestOf(Active)

(* First active slot from free_cl on, around the list.                     *)
next_free_client ==
  LET ahead == {k \in free_cl .. free_cl + CLIENTS_MAX - 1 :
                  clients[k % CLIENTS_MAX].cl_active}
  IN  IF ahead = {} THEN -1 ELSE LowestOf(ahead) % CLIENTS_MAX

(* Mutant: the socket is closed and the slot stays active.                 *)
DropOnlyCloses(i) ==
  /\ clients' = clients
  /\ CloseSock(clients[i].cl_sock)

(* The slot becomes inactive and its descriptor is closed.                 *)
Drop(i) ==
  /\ clients' = [clients EXCEPT ![i].cl_active = FALSE]
  /\ CloseSock(clients[i].cl_sock)
-----------------------------------------------------------------------------
(***************************************************************************)
(* The threads that register clients: with streams one accept thread per   *)
(* server socket, with datagrams the listener.                             *)
(***************************************************************************)
Running(t, label) == Up /\ tpc[t] = label
MoveTo(t, label) == tpc' = [tpc EXCEPT ![t] = label]

(* The next iteration of the thread's loop; its variables are local to it. *)
NextIteration(t) ==
  /\ MoveTo(t, Home(t))
  /\ tsock' = [tsock EXCEPT ![t] = 0]
  /\ tcl' = [tcl EXCEPT ![t] = Nobody]
  /\ IF t = "listener" THEN msg' = NoMsg /\ lid' = -1
                       ELSE UNCHANGED <<msg, lid>>

otherVars == <<setup, pingerVars, mainVars, cancelled, out>>

(* accept gives the lowest descriptor that is free, and fails if none is.  *)
Accept(t, c) ==
  /\ Running(t, "accept") /\ t \in Accepters /\ Listening
  /\ Via[c] = t /\ sock[c] = "pending"
  /\ LET x == LowestOf({y \in Descriptors : fd[y] = Nobody})
     IN  /\ x \in Descriptors
         /\ fd' = [fd EXCEPT ![x] = c]
         /\ tsock' = [tsock EXCEPT ![t] = x]
  /\ sock' = [sock EXCEPT ![c] = "open"]
  /\ MoveTo(t, "recv")
  /\ UNCHANGED <<clientVars, polled, clients, free_cl, mx, tcl, msg, lid,
                 otherVars, srv, historyVars>>

(* The first message must be REGISTER; anything else is ignored.           *)
ReceiveName(t) ==
  /\ Running(t, "recv") /\ t \in Accepters
  /\ LET c == fd[tsock[t]]
     IN  /\ ServerReceives(c)
         /\ IF Head(toServer[c]).type = "REGISTER"
            THEN /\ tcl' = [tcl EXCEPT ![t] = c]
                 /\ MoveTo(t, "check") /\ UNCHANGED <<tsock, msg, lid>>
            ELSE NextIteration(t)
  /\ UNCHANGED <<cst, toClient, netVars, clients, free_cl, mx, otherVars, srv,
                 historyVars>>

(* Nothing comes in 5 seconds, or nothing can come any more.  The socket   *)
(* stays open and nobody reads it.                                         *)
Silent(x) == fd[x] # Nobody => toServer[fd[x]] = <<>>

ReceiveTimeout(t) ==
  /\ Running(t, "recv")
  /\ Silent(tsock[t])
  /\ NextIteration(t)
  /\ UNCHANGED <<clientVars, netVars, clients, free_cl, mx, otherVars, srv,
                 historyVars>>

(* Whom a thread's answer to REGISTER reaches.                             *)
Caller(t) == IF Datagram THEN tcl[t] ELSE fd[tsock[t]]

(* register_client, first section: is_name_taken.                          *)
CheckName(t) ==
  /\ Running(t, "check") /\ mx = "free"
  /\ IF IsNameTaken(tcl[t])
     THEN ServerSends(Caller(t), Msg("NAMEINUSE")) /\ NextIteration(t)
     ELSE /\ MoveTo(t, "insert")
          /\ UNCHANGED <<toClient, srv, tsock, tcl, msg, lid>>
  /\ UNCHANGED <<cst, toServer, netVars, clients, free_cl, mx, otherVars,
                 historyVars>>

(* add_to_poll: epoll_ctl refuses a descriptor that is closed or there     *)
(* already, and the server exits.                                          *)
AddToPoll(x) ==
  IF Datagram THEN UNCHANGED <<polled, srv>>
  ELSE IF fd[x] # Nobody /\ x \notin polled
       THEN polled' = polled \cup {x} /\ srv' = srv
       ELSE polled' = polled /\ srv' = "down"

(* register_client, second section: a slot is filled.                      *)
Insert(t) ==
  /\ Running(t, "insert") /\ mx = "free"
  /\ client_freeid >= 0
  /\ clients' = [clients EXCEPT ![client_freeid] =
                   [cl_active |-> TRUE, addr |-> tcl[t],
                    cl_sock |-> tsock[t], cl_inactivity |-> 0]]
  /\ AddToPoll(tsock[t])
  /\ missed' = [missed EXCEPT ![client_freeid] = 0]
  /\ NextIteration(t)
  /\ UNCHANGED <<clientVars, sock, fd, free_cl, mx, otherVars, misclosed>>

TooManyConnections(t) ==
  /\ Running(t, "insert") /\ mx = "free"
  /\ client_freeid < 0
  /\ NextIteration(t)
  /\ UNCHANGED <<clientVars, netVars, clients, free_cl, mx, otherVars, srv,
                 historyVars>>

RegisterStep(t) == \/ \E c \in Clients : Accept(t, c)
                   \/ ReceiveName(t) \/ ReceiveTimeout(t)
                   \/ CheckName(t) \/ Insert(t) \/ TooManyConnections(t)
-----------------------------------------------------------------------------
(***************************************************************************)
(* The listener.                                                           *)
(***************************************************************************)
(* epoll_wait, over streams: data or the end of the stream is there.       *)
WaitForMessage(x) ==
  /\ Running("listener", "wait") /\ ~Datagram
  /\ x \in polled
  /\ toServer[fd[x]] # <<>> \/ cst[fd[x]] = "gone"
  /\ tsock' = [tsock EXCEPT !["listener"] = x]
  /\ MoveTo("listener", "recv")
  /\ UNCHANGED <<clientVars, netVars, clients, free_cl, mx, tcl, msg, lid,
                 otherVars, srv, historyVars>>

(* receive_sm, from whom the descriptor belongs to by now; a datagram is   *)
(* received at once.                                                       *)
ReceiveMessage(c) ==
  /\ IF Datagram THEN Running("listener", "wait") /\ Listening
     ELSE Running("listener", "recv") /\ c = fd[tsock["listener"]]
  /\ ServerReceives(c)
  /\ msg' = Head(toServer[c])
  /\ tcl' = [tcl EXCEPT !["listener"] = c]
  /\ MoveTo("listener", "lookup")
  /\ UNCHANGED <<cst, toClient, netVars, clients, free_cl, mx, tsock, lid,
                 otherVars, srv, historyVars>>

(* client_for_sock, client_for_addr.  A REGISTER that comes to the         *)
(* listener is handled over streams, too.                                  *)
LookUp ==
  /\ Running("listener", "lookup") /\ mx = "free"
  /\ LET client_id == IF Datagram THEN client_for_addr(tcl["listener"])
                      ELSE client_for_sock(tsock["listener"])
     IN  IF client_id < 0 /\ msg.type \notin {"REGISTER", "UNREGISTER"}
         THEN NextIteration("listener")
         ELSE /\ lid' = client_id
              /\ MoveTo("listener", IF msg.type = "REGISTER" THEN "check"
                                    ELSE "handle")
              /\ UNCHANGED <<tsock, tcl, msg>>
  /\ UNCHANGED <<clientVars, netVars, clients, free_cl, mx, otherVars, srv,
                 historyVars>>

(* unregister_client, on the slot that was looked up before.  If the slot  *)
(* has been dropped meanwhile its number is closed for the second time,    *)
(* and may be that of another connection.                                  *)
HandleUnregister ==
  /\ Running("listener", "handle") /\ mx = "free"
  /\ msg.type = "UNREGISTER"
  /\ IF lid >= 0
     THEN /\ Drop(lid)
          /\ misclosed' = (misclosed \/ /\ ~Datagram /\ lid \notin Active
                                        /\ fd[clients[lid].cl_sock] # Nobody)
     ELSE UNCHANGED <<clients, netVars, misclosed>>
  /\ NextIteration("listener")
  /\ UNCHANGED <<clientVars, free_cl, mx, otherVars, srv, missed>>

(* handle_pong does not take the mutex.                                    *)
HandlePong ==
  /\ Running("listener", "handle")
  /\ msg.type = "PONG"
  /\ clients' = [clients EXCEPT ![lid].cl_inactivity = 0]
  /\ NextIteration("listener")
  /\ UNCHANGED <<clientVars, netVars, free_cl, mx, otherVars, srv, historyVars>>

(* Mutant: the number printed is that of the prompt, not of the response.  *)
HandleResponseMisnumbered ==
  /\ Running("listener", "handle")
  /\ msg.type = "RESPONSE"
  /\ out' = out \cup {request_id}
  /\ NextIteration("listener")
  /\ UNCHANGED <<setup, clientVars, netVars, clients, free_cl, mx, pingerVars,
                 mainVars, cancelled, srv, historyVars>>

HandleResponse ==
  /\ Running("listener", "handle")
  /\ msg.type = "RESPONSE"
  /\ out' = out \cup {msg.id}
  /\ NextIteration("listener")
  /\ UNCHANGED <<setup, clientVars, netVars, clients, free_cl, mx, pingerVars,
                 mainVars, cancelled, srv, historyVars>>

ListenerStep == \/ \E x \in Descriptors : WaitForMessage(x)
                \/ \E c \in Clients : ReceiveMessage(c)
                \/ LookUp
                \/ HandleUnregister \/ HandlePong \/ HandleResponse
-----------------------------------------------------------------------------
(***************************************************************************)
(* The pinger.  One round goes through all slots under the mutex.          *)
(***************************************************************************)
PingerAt(label) == Up /\ ppc = label

StartRound ==
  /\ PingerAt("sleep") /\ mx = "free"
  /\ mx' = "pinger" /\ ppc' = "slot"
  /\ UNCHANGED <<setup, clientVars, netVars, clients, free_cl, threadVars, pi,
                 pread, mainVars, cancelled, srv, out, historyVars>>

EndRound ==
  /\ PingerAt("slot") /\ pi = CLIENTS_MAX
  /\ mx' = "free" /\ ppc' = "sleep" /\ pi' = 0
  /\ UNCHANGED <<setup, clientVars, netVars, clients, free_cl, threadVars,
                 pread, mainVars, cancelled, srv, out, historyVars>>

SkipSlot ==
  /\ PingerAt("slot") /\ pi \in Slots \ Active
  /\ pi' = pi + 1
  /\ UNCHANGED <<setup, clientVars, netVars, clients, free_cl, mx, threadVars,
                 ppc, pread, mainVars, cancelled, srv, out, historyVars>>

TimedOut(i) == clients[i].cl_inactivity > INACTIVITY_MAX

DropInactive ==
  /\ PingerAt("slot") /\ pi \in Active
  /\ TimedOut(pi)
  /\ Drop(pi)
  /\ pi' = pi + 1
  /\ UNCHANGED <<setup, clientVars, free_cl, mx, threadVars, ppc, pread,
                 mainVars, cancelled, srv, out, historyVars>>

(* cl_inactivity++ is a read and a write, with HandlePong in between.      *)
ReadInactivity ==
  /\ PingerAt("slot") /\ pi \in Active
  /\ ~TimedOut(pi)
  /\ pread' = clients[pi].cl_inactivity
  /\ ppc' = "ping"
  /\ UNCHANGED <<setup, clientVars, netVars, clients, free_cl, mx, threadVars,
                 pi, mainVars, cancelled, srv, out, historyVars>>

(* Mutant: the pinger does not count its pings.                            *)
PingUncounted ==
  /\ PingerAt("ping")
  /\ ServerSends(Peer(pi), Msg("PING"))
  /\ ppc' = "slot" /\ pi' = pi + 1 /\ pread' = 0
  /\ UNCHANGED <<setup, cst, toServer, netVars, clients, free_cl, mx,
                 threadVars, mainVars, cancelled, out, historyVars>>

Ping ==
  /\ PingerAt("ping")
  /\ clients' = [clients EXCEPT ![pi].cl_inactivity = pread + 1]
  /\ ServerSends(Peer(pi), Msg("PING"))
  /\ ppc' = "slot" /\ pi' = pi + 1 /\ pread' = 0
  /\ UNCHANGED <<setup, cst, toServer, netVars, free_cl, mx, threadVars,
                 mainVars, cancelled, out, historyVars>>

PingerStep == \/ StartRound \/ EndRound \/ SkipSlot \/ DropInactive
              \/ ReadInactivity \/ Ping
-----------------------------------------------------------------------------
(***************************************************************************)
(* The main thread: the operator's requests and the shutdown.              *)
(***************************************************************************)
MainAt(label) == Up /\ mpc = label

(* read_request with a well-formed line; next_free_client picks a slot.    *)
ReadRequest ==
  /\ MainAt("prompt") /\ mx = "free"
  /\ request_id < setup.requests
  /\ next_free_client >= 0
  /\ clid' = next_free_client
  /\ free_cl' = next_free_client + 1
  /\ missed' = [i \in Slots |-> IF i \in Active \ {clid'} THEN missed[i] + 1
                                ELSE 0]
  /\ mpc' = "send"
  /\ UNCHANGED <<setup, clientVars, netVars, clients, mx, threadVars,
                 pingerVars, request_id, cancelled, srv, out, misclosed>>

(* send_request uses the slot without the mutex; if it fails the request   *)
(* keeps its number for the next line.                                     *)
SendRequest ==
  /\ MainAt("send")
  /\ ServerSends(Peer(clid), [type |-> "REQUEST", id |-> request_id])
  /\ request_id' = IF Peer(clid) = Nobody THEN request_id ELSE request_id + 1
  /\ mpc' = "prompt" /\ clid' = -1
  /\ UNCHANGED <<setup, cst, toServer, netVars, clients, free_cl, mx,
                 threadVars, pingerVars, cancelled, out, historyVars>>

(* SIGINT or SIGTERM: exit runs cleanup.                                   *)
Signal ==
  /\ setup.shutdown /\ Up
  /\ mpc \in {"prompt", "send"}
  /\ mpc' = "cancel_pinger"
  /\ UNCHANGED <<setup, clientVars, netVars, clients, free_cl, mx, threadVars,
                 pingerVars, clid, request_id, cancelled, srv, out, historyVars>>

(* The threads are not waited for: the joins time out in 1970.             *)
Cancel(from, threads, to) ==
  /\ MainAt(from)
  /\ cancelled' = cancelled \cup threads
  /\ mpc' = to
  /\ UNCHANGED <<setup, clientVars, netVars, clients, free_cl, mx, threadVars,
                 pingerVars, request_id, srv, out, historyVars>>

CancelPinger == Cancel("cancel_pinger", {"pinger"}, "cancel_accept")
                /\ UNCHANGED clid
CancelAccept == Cancel("cancel_accept", Accepters, "teardown") /\ clid' = 0

(* teardown_clients, slot clid, without the mutex: first the slot becomes  *)
(* inactive, then its client is told and its socket closed.                *)
TeardownSlot ==
  /\ MainAt("teardown") /\ clid \in Slots
  /\ IF clid \in Active
     THEN /\ clients' = [clients EXCEPT ![clid].cl_active = FALSE]
          /\ mpc' = "tell" /\ UNCHANGED clid
     ELSE clid' = clid + 1 /\ UNCHANGED <<clients, mpc>>
  /\ UNCHANGED <<setup, clientVars, netVars, free_cl, mx, threadVars,
                 pingerVars, request_id, cancelled, srv, out, historyVars>>

TellClient ==
  /\ MainAt("tell")
  /\ ServerSends(Peer(clid), Msg("SHUTDOWN"))
  /\ CloseSock(clients[clid].cl_sock)
  /\ mpc' = "teardown" /\ clid' = clid + 1
  /\ UNCHANGED <<setup, cst, toServer, clients, free_cl, mx, threadVars,
                 pingerVars, request_id, cancelled, out, historyVars>>

TeardownSocks ==
  /\ MainAt("teardown") /\ clid = CLIENTS_MAX
  /\ mpc' = "cancel_listener"
  /\ UNCHANGED <<setup, clientVars, netVars, clients, free_cl, mx, threadVars,
                 pingerVars, clid, request_id, cancelled, srv, out, historyVars>>

CancelListener == Cancel("cancel_listener", {"listener"}, "destroy")
                  /\ UNCHANGED clid

(* teardown_client_mutex and the end of the process.                       *)
Destroy ==
  /\ MainAt("destroy")
  /\ srv' = "down"
  /\ UNCHANGED <<setup, clientVars, netVars, clients, free_cl, mx, threadVars,
                 pingerVars, mainVars, cancelled, out, historyVars>>

(* A cancelled thread ends where it waits or, the pinger, where it prints  *)
(* or sends, with the mutex it holds.                                      *)
ThreadEnds(t) ==
  /\ Up /\ t \in cancelled
  /\ \/ /\ t = "pinger" /\ ppc # "ended"
        /\ ppc' = "ended"
        /\ UNCHANGED tpc
     \/ /\ t # "pinger" /\ tpc[t] \in {Home(t), "recv"}
        /\ MoveTo(t, "ended")
        /\ UNCHANGED ppc
  /\ UNCHANGED <<setup, clientVars, netVars, clients, free_cl, mx, tsock,
                 tcl, msg, lid, pi, pread, mainVars, cancelled, srv, out, historyVars>>

ShutdownStep == \/ CancelPinger \/ CancelAccept \/ TeardownSlot \/ TellClient
                \/ TeardownSocks \/ CancelListener \/ Destroy
-----------------------------------------------------------------------------
Next ==
  \/ \E c \in Clients : \/ ClientStep(c) \/ ClientInterrupted(c) \/ Crash(c)
                        \/ LoseDatagram(c)
  \/ \E t \in Registrars : RegisterStep(t)
  \/ ListenerStep \/ PingerStep
  \/ ReadRequest \/ SendRequest \/ Signal \/ ShutdownStep
  \/ \E t \in Registrars \cup {"pinger"} : ThreadEnds(t)

(* Threads and live clients go on; nothing forces signals, crashes, losses *)
(* or the operator's input.  A thread that needs clients_mx again and      *)
(* again gets it: between two rounds the pinger sleeps for seconds.        *)
Fairness == /\ \A c \in Clients : WF_vars(ClientStep(c))
            /\ \A t \in {"net", "local"} : SF_vars(RegisterStep(t))
            /\ SF_vars(ListenerStep \/ RegisterStep("listener"))
            /\ WF_vars(PingerStep)
            /\ WF_vars(SendRequest)
            /\ WF_vars(ShutdownStep)

Spec == Init /\ [][Next]_vars /\ Fairness
-----------------------------------------------------------------------------
Message == [type : Types, id : 0 .. MaxRequests]

(* Type correctness; cl_inactivity never exceeds the limit by more than    *)
(* one, and free_cl by none.                                               *)
TypeOK ==
  /\ cst \in [Clients -> {"new", "connected", "running", "retry", "gone"}]
  /\ toServer \in [Clients -> Seq(Message)]
  /\ toClient \in [Clients -> Seq(Message)]
  /\ sock \in [Clients -> {"none", "pending", "open", "closed", "reset"}]
  /\ fd \in [Descriptors -> Clients \cup {Nobody}]
  /\ polled \subseteq Descriptors
  /\ clients \in [Slots -> [cl_active : BOOLEAN,
                            addr : Clients \cup {Nobody},
                            cl_sock : 0 .. MaxDescriptors,
                            cl_inactivity : 0 .. INACTIVITY_MAX + 1]]
  /\ free_cl \in 0 .. CLIENTS_MAX
  /\ mx \in {"free", "pinger"}
  /\ tpc \in [Registrars -> {"accept", "recv", "check", "insert", "wait",
                             "lookup", "handle", "ended"}]
  /\ tsock \in [Registrars -> 0 .. MaxDescriptors]
  /\ tcl \in [Registrars -> Clients \cup {Nobody}]
  /\ msg \in Message
  /\ lid \in Slots \cup {-1}
  /\ ppc \in {"sleep", "slot", "ping", "ended"}
  /\ pi \in 0 .. CLIENTS_MAX
  /\ pread \in 0 .. INACTIVITY_MAX
  /\ mpc \in {"prompt", "send", "cancel_pinger", "cancel_accept", "teardown",
              "tell", "cancel_listener", "destroy"}
  /\ clid \in -1 .. CLIENTS_MAX
  /\ request_id \in 0 .. MaxRequests
  /\ cancelled \subseteq Registrars \cup {"pinger"}
  /\ srv \in {"up", "down"}
  /\ out \subseteq 0 .. MaxRequests
  /\ missed \in [Slots -> Nat]
  /\ misclosed \in BOOLEAN

(* Two clients in the list never have the same name: a second one is       *)
(* refused, "name '%s' taken" (server_cllist.c:87-123).                    *)
NamesUnique ==
  \A i, j \in Active :
    i # j => Name[clients[i].addr] # Name[clients[j].addr]

(* Descriptor x is the connection of the client in slot i, and polled.     *)
OwnSocket(i) == /\ fd[clients[i].cl_sock] = clients[i].addr
                /\ clients[i].cl_sock \in polled

(* Until the server is shut down an active slot has the open, polled       *)
(* descriptor of the client that was registered in it, no two slots are of *)
(* one client, and indices and counters stay in their ranges, whatever the *)
(* threads that drop slots and reuse them do in between                    *)
(* (server_cllist.c:107-115, 129-137, server_pinger.c:26-30).  One thing   *)
(* alone ends this: an UNREGISTER looked up before the slot was dropped,   *)
(* which closes the number again when it is that of another client         *)
(* (server_listen.c:65, 83).                                               *)
ActiveSlotsOpen ==
  /\ TypeOK
  /\ mpc \in {"prompt", "send"} /\ ~misclosed =>
       /\ \A i \in Active : Datagram \/ OwnSocket(i)
       /\ \A i, j \in Active : i # j => clients[i].addr # clients[j].addr

(* No active client is passed over by CONF_CLIENTS_MAX requests in a row,  *)
(* however others come and go (server_cllist.c:166-188).                   *)
NobodyPassedOver == \A i \in Active : missed[i] < CLIENTS_MAX

Registered(c) == \E i \in Active : clients[i].addr = c

(* Over datagrams a registered client that dies without a word is dropped  *)
(* in the end (server_pinger.c:22-31), and the server lives: "after        *)
(* sending 3 pings and not receiving a single pong, the client is          *)
(* disconnected" (config.h:10-12).                                         *)
SilentClientsDropped ==
  \A c \in Clients :
    Datagram /\ cst[c] = "gone" /\ Registered(c)
      ~> srv = "up" /\ ~Registered(c)

Requested(c, n) == \E k \in 1 .. Len(toClient[c]) :
                     toClient[c][k] = [type |-> "REQUEST", id |-> n]

(* A request that was sent is answered and printed, unless its client goes *)
(* away or is dropped, or the network loses datagrams (client.c:165-201,   *)
(* server_listen.c:25-36).                                                 *)
RequestsSettled ==
  \A c \in Clients, n \in 0 .. MaxRequests - 1 :
    (~Datagram \/ Via[c] = "local") /\ Requested(c, n)
      ~> \/ n \in out
         \/ cst[c] = "gone" \/ srv = "down"
         \/ ~Registered(c)

(* With streams every client ends when the server has ended, whether it    *)
(* was told, was only waiting to be registered or comes late               *)
(* (client.c:148-153, 191-194); but one whose last message the server left *)
(* unread, or which it never accepted, may try to receive for ever         *)
(* (client.c:148-156).                                                     *)
ClientsEndWithServer ==
  ~Datagram /\ srv = "down" ~>
    \A c \in setup.clients :
      \/ cst[c] = "gone"
      \/ cst[c] = "retry" /\ (toServer[c] # <<>> \/ sock[c] = "pending")
=============================================================================
