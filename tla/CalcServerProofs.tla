-------------------------- MODULE CalcServerProofs --------------------------
(***************************************************************************)
(* The client list of the cw10 server, proved for any clients, names, list *)
(* size and number of descriptors, with streams and with datagrams,        *)
(* crashes, losses and the shutdown: IInv, below, is inductive.  After the *)
(* lemmas on the operators there is one lemma for each part of IInv, with  *)
(* one step for each action, or group of actions, that can disturb it.     *)
(***************************************************************************)
EXTENDS CalcServer, WellFoundedInduction, TLAPS

(***************************************************************************)
(* The inductive invariant behind ActiveSlotsOpen and NobodyPassedOver: a  *)
(* client sends one REGISTER, and once a thread has received it that       *)
(* thread alone registers the client, in one slot.                         *)
(***************************************************************************)
Unlisted(c) == \A i \in Slots : clients[i].addr # c

(* The REGISTER of c has been received or lost, and there is no other.     *)
Enrolled(c) ==
  /\ cst[c] \in {"running", "retry", "gone"}
  /\ \A k \in 1 .. Len(toServer[c]) : toServer[c][k].type # "REGISTER"

(* A client sends nothing before its REGISTER.                             *)
RegisterFirst ==
  \A c \in Clients :
    /\ cst[c] \in {"new", "connected"} => toServer[c] = <<>>
    /\ \A k \in 2 .. Len(toServer[c]) : toServer[c][k].type # "REGISTER"

Registering(t) ==
  \/ tpc[t] \in {"check", "insert"}
  \/ t = "listener" /\ tpc[t] = "lookup" /\ msg.type = "REGISTER"

(* Each thread has its own places; a client that is being registered is in *)
(* no slot, and no other thread registers it.                              *)
ThreadsInv ==
  /\ tpc["listener"] # "accept"
  /\ tpc["listener"] = "handle" => lid \in Slots \/ msg.type = "UNREGISTER"
  /\ \A t \in {"net", "local"} :
       tpc[t] \in {"accept", "recv", "check", "insert", "ended"}
  /\ \A t \in Registrars : ~Datagram /\ tpc[t] \notin {Home(t), "ended"} =>
       tsock[t] \in Descriptors
  /\ \A t \in Registrars : Registering(t) =>
       /\ tcl[t] \in Clients
       /\ Enrolled(tcl[t]) /\ Unlisted(tcl[t])
       /\ \A u \in Registrars \ {t} : Registering(u) => tcl[u] # tcl[t]

(* No two slots, in use or not, are of one client, and those that were     *)
(* used are of enrolled clients.                                           *)
SlotsInv ==
  /\ \A i, j \in Slots : clients[i].addr = clients[j].addr
                         /\ clients[i].addr # Nobody => i = j
  /\ \A i \in Active : clients[i].addr # Nobody
  /\ \A i \in Slots : clients[i].addr # Nobody => Enrolled(clients[i].addr)

(* Until a late UNREGISTER closes another's descriptor: an active slot has *)
(* its client's, what is polled belongs to an active slot, and a thread    *)
(* that registers a client has the client's own.                           *)
OwnInv ==
  ~Datagram /\ mpc \in {"prompt", "send"} /\ ~misclosed =>
    /\ \A i \in Active : OwnSocket(i)
    /\ \A x \in polled : \E i \in Active : clients[i].cl_sock = x
    /\ \A t \in Registrars : Registering(t) => fd[tsock[t]] = tcl[t]

(* What the loops and the operator's requests use as an index is one.      *)
IndexInv ==
  /\ setup \in Setups
  /\ ppc = "ping" => pi \in Slots
  /\ mpc \in {"send", "tell"} => clid \in Slots
  /\ mpc = "teardown" => clid >= 0
  /\ request_id <= setup.requests
  /\ mpc = "send" => request_id < setup.requests

(* Slots that next_free_client looks at before slot i.                     *)
Ahead(i) == IF i >= free_cl THEN i - free_cl ELSE i + CLIENTS_MAX - free_cl

(* Every request that passes slot i over brings its turn nearer.           *)
TurnsCome == \A i \in Active : missed[i] + Ahead(i) < CLIENTS_MAX

(* The parts of TypeOK.                                                     *)
NetTypes ==
  /\ cst \in [Clients -> {"new", "connected", "running", "retry", "gone"}]
  /\ toServer \in [Clients -> Seq(Message)]
  /\ toClient \in [Clients -> Seq(Message)]
  /\ sock \in [Clients -> {"none", "pending", "open", "closed", "reset"}]
  /\ fd \in [Descriptors -> Clients \cup {Nobody}]
  /\ polled \subseteq Descriptors
ListTypes ==
  /\ clients \in [Slots -> [cl_active : BOOLEAN,
                            addr : Clients \cup {Nobody},
                            cl_sock : 0 .. MaxDescriptors,
                            cl_inactivity : 0 .. INACTIVITY_MAX + 1]]
  /\ free_cl \in 0 .. CLIENTS_MAX
  /\ missed \in [Slots -> Nat]
  /\ misclosed \in BOOLEAN
ThreadTypes ==
  /\ tpc \in [Registrars -> {"accept", "recv", "check", "insert", "wait",
                             "lookup", "handle", "ended"}]
  /\ tsock \in [Registrars -> 0 .. MaxDescriptors]
  /\ tcl \in [Registrars -> Clients \cup {Nobody}]
  /\ msg \in Message
  /\ lid \in Slots \cup {-1}
LoopTypes ==
  /\ mx \in {"free", "pinger"}
  /\ ppc \in {"sleep", "slot", "ping", "ended"}
  /\ pi \in 0 .. CLIENTS_MAX
  /\ pread \in 0 .. INACTIVITY_MAX
  /\ mpc \in {"prompt", "send", "cancel_pinger", "cancel_accept", "teardown",
              "tell", "cancel_listener", "destroy"}
  /\ clid \in -1 .. CLIENTS_MAX
  /\ request_id \in 0 .. MaxRequests
  /\ cancelled \subseteq Registrars \cup {"pinger"}
  /\ srv \in {"up", "down"}
  /\ out \subseteq 0 .. MaxRequests

IInv == /\ TypeOK /\ IndexInv /\ RegisterFirst
        /\ ThreadsInv /\ SlotsInv /\ OwnInv /\ TurnsCome
-----------------------------------------------------------------------------
\* The lowest of a set of numbers, or -1.
LEMMA LowestIsLowest ==
  ASSUME NEW S, S \subseteq Nat
  PROVE  /\ S = {} => LowestOf(S) = -1
         /\ S # {} => LowestOf(S) \in S /\ \A j \in S : LowestOf(S) <= j
<1>1. CASE S = {}
  BY <1>1 DEF LowestOf
<1>2. CASE S # {}
  <2>1. PICK i \in S : \A j \in S : ~(<<j, i>> \in OpToRel(<, Nat))
    BY <1>2, NatLessThanWellFounded, WFMin
  <2>2. \A j, k \in Nat : j < k => <<j, k>> \in OpToRel(<, Nat)
    BY DEF OpToRel
  <2>3. \A j \in S : ~(j < i)
    BY <2>1, <2>2, Zenon
  <2>4. \A j \in S : i <= j
    BY <2>3
  <2>5. LowestOf(S) = CHOOSE k \in S : \A j \in S : k <= j
    BY <1>2 DEF LowestOf
  <2> QED BY <1>2, <2>4, <2>5
<1> QED BY <1>1, <1>2

\* A queue with one message more, at its end.
LEMMA Appended ==
  ASSUME NEW M, NEW q \in Seq(M), NEW m \in M
  PROVE  /\ Append(q, m) \in Seq(M)
         /\ Len(Append(q, m)) = Len(q) + 1
         /\ \A k \in 1 .. Len(q) : Append(q, m)[k] = q[k]
         /\ Append(q, m)[Len(q) + 1] = m
  OBVIOUS

\* A queue without its first message.
LEMMA Taken ==
  ASSUME NEW M, NEW q \in Seq(M), q # <<>>
  PROVE  /\ Head(q) = q[1] /\ q[1] \in M /\ Len(q) \in Nat \ {0}
         /\ Tail(q) \in Seq(M)
         /\ Len(Tail(q)) = Len(q) - 1
         /\ \A k \in 1 .. Len(q) - 1 : Tail(q)[k] = q[k + 1]
  OBVIOUS

\* What the setup of a behaviour is.
LEMMA SetupFacts ==
  ASSUME setup \in Setups
  PROVE  /\ CLIENTS_MAX \in Nat \ {0} /\ Datagram \in BOOLEAN
         /\ setup.requests \in 0 .. MaxRequests
         /\ Slots \subseteq Nat /\ 0 \in Slots
  BY SetupAssumption DEF CLIENTS_MAX, Datagram, Slots

\* The list is searched once around, from the place the last search ended.
LEMMA Around ==
  ASSUME NEW n \in Nat \ {0}, NEW k \in 0 .. 2 * n - 1
  PROVE  k % n = IF k < n THEN k ELSE k - n
  OBVIOUS

\* The parts of TypeOK are all of it.
LEMMA TypeParts ==
  TypeOK <=> NetTypes /\ ListTypes /\ ThreadTypes /\ LoopTypes
  BY DEF TypeOK, NetTypes, ListTypes, ThreadTypes, LoopTypes

\* What the parts of the invariant say of the names that all steps use.
LEMMA Basics ==
  ASSUME IInv
  PROVE  /\ NetTypes /\ ListTypes /\ ThreadTypes /\ LoopTypes
         /\ IndexInv /\ RegisterFirst /\ ThreadsInv /\ SlotsInv /\ OwnInv
         /\ TurnsCome
         /\ CLIENTS_MAX \in Nat \ {0} /\ Slots = 0 .. CLIENTS_MAX - 1
         /\ Slots \subseteq Nat
         /\ setup.requests \in 0 .. MaxRequests
         /\ Datagram \in BOOLEAN
  BY TypeParts, SetupFacts DEF IInv, IndexInv, Slots

\* What a step keeps that keeps the setup.
LEMMA SameSetup ==
  ASSUME setup' = setup
  PROVE  /\ Slots' = Slots /\ CLIENTS_MAX' = CLIENTS_MAX
         /\ Datagram' = Datagram
         /\ Active' = {i \in Slots : clients'[i].cl_active}
  BY DEF Slots, CLIENTS_MAX, Datagram, Active

(***************************************************************************)
(* The messages of a client: what has been sent and received of its        *)
(* REGISTER.                                                               *)
(***************************************************************************)
\* The queue of a client after it has sent m, if it arrives, another message
\* than REGISTER.
LEMMA Sent ==
  ASSUME NetTypes, RegisterFirst, NEW c \in Clients, NEW m \in Message,
         m.type # "REGISTER", ClientSends(c, m)
  PROVE  \E q \in Seq(Message) :
           /\ toServer' = [toServer EXCEPT ![c] = q]
           /\ \A k \in 2 .. Len(q) : q[k].type # "REGISTER"
           /\ Enrolled(c) => \A k \in 1 .. Len(q) : q[k].type # "REGISTER"
<1>b. toServer \in [Clients -> Seq(Message)] /\ toServer[c] \in Seq(Message)
  BY DEF NetTypes
<1>1. CASE Arrives(c)
  <2> DEFINE q == Append(toServer[c], m)
  <2>1. /\ q \in Seq(Message) /\ toServer' = [toServer EXCEPT ![c] = q]
        /\ Len(q) = Len(toServer[c]) + 1 /\ Len(toServer[c]) \in Nat
        /\ \A k \in 1 .. Len(toServer[c]) : q[k] = toServer[c][k]
        /\ q[Len(toServer[c]) + 1] = m
    BY <1>1, <1>b, Appended DEF ClientSends
  <2> HIDE DEF q
  <2>2. ASSUME NEW k \in 2 .. Len(q)
        PROVE  k = Len(toServer[c]) + 1 \/ k \in 2 .. Len(toServer[c])
    BY <2>1
  <2>3. \A k \in 2 .. Len(toServer[c]) : toServer[c][k].type # "REGISTER"
    BY DEF RegisterFirst
  <2>4. \A k \in 2 .. Len(q) : q[k].type # "REGISTER"
    BY <2>1, <2>2, <2>3
  <2>5. Enrolled(c) => \A k \in 1 .. Len(q) : q[k].type # "REGISTER"
    BY <2>1, SMTT(30) DEF Enrolled
  <2> QED BY <2>1, <2>4, <2>5
<1>2. CASE ~Arrives(c)
  <2>1. toServer' = [toServer EXCEPT ![c] = toServer[c]]
    BY <1>2, <1>b DEF ClientSends
  <2>2. Enrolled(c) => \A k \in 1 .. Len(toServer[c]) :
                         toServer[c][k].type # "REGISTER"
    BY DEF Enrolled
  <2> QED BY <1>b, <2>1, <2>2 DEF RegisterFirst
<1> QED BY <1>1, <1>2

\* Where a step of client c leads, and what its queue to the server is then.
Speaks(c, x, q) ==
  /\ cst' = [cst EXCEPT ![c] = x]
  /\ toServer' = [toServer EXCEPT ![c] = q]
  /\ x = "connected" => q = <<>>
  /\ \A k \in 2 .. Len(q) : q[k].type # "REGISTER"
  /\ Enrolled(c) => /\ x # "connected"
                    /\ \A k \in 1 .. Len(q) : q[k].type # "REGISTER"

\* exit of a client, with or without UNREGISTER.
LEMMA ExitSpeaks ==
  ASSUME NetTypes, RegisterFirst, NEW c \in Clients, NEW u \in BOOLEAN,
         ClientExits(c, u)
  PROVE  /\ UNCHANGED serverVars /\ sock' = sock
         /\ \E q \in Seq(Message) : Speaks(c, "gone", q)
<1>1. /\ UNCHANGED serverVars /\ sock' = sock
      /\ cst' = [cst EXCEPT ![c] = "gone"]
  BY DEF ClientExits
<1>2. CASE u
  <2>1. Msg("UNREGISTER") \in Message /\ Msg("UNREGISTER").type # "REGISTER"
    BY LimitAssumption DEF Msg, Message, Types
  <2>2. ClientSends(c, Msg("UNREGISTER"))
    BY <1>2 DEF ClientExits
  <2>3. PICK q \in Seq(Message) :
          /\ toServer' = [toServer EXCEPT ![c] = q]
          /\ \A k \in 2 .. Len(q) : q[k].type # "REGISTER"
          /\ Enrolled(c) => \A k \in 1 .. Len(q) : q[k].type # "REGISTER"
    BY <2>1, <2>2, Sent
  <2> QED BY <1>1, <2>3 DEF Speaks
<1>3. CASE ~u
  <2>1. /\ toServer[c] \in Seq(Message)
        /\ toServer' = [toServer EXCEPT ![c] = toServer[c]]
    BY <1>3 DEF ClientExits, NetTypes
  <2>2. Enrolled(c) => \A k \in 1 .. Len(toServer[c]) :
                         toServer[c][k].type # "REGISTER"
    BY DEF Enrolled
  <2> QED BY <1>1, <2>1, <2>2 DEF Speaks, RegisterFirst
<1> QED BY <1>1, <1>2, <1>3

ClientPlaces == {"connected", "running", "retry", "gone"}
\* What a client's own steps do.
LEMMA ClientMoves ==
  ASSUME IInv, NEW c \in Clients,
         ClientStep(c) \/ ClientInterrupted(c) \/ Crash(c)
  PROVE  /\ UNCHANGED serverVars
         /\ toClient' \in [Clients -> Seq(Message)]
         /\ sock' \in [Clients -> {"none", "pending", "open", "closed", "reset"}]
         /\ \E x \in ClientPlaces, q \in Seq(Message) : Speaks(c, x, q)
<1>a. NetTypes /\ RegisterFirst
  BY Basics
<1>b. /\ cst \in [Clients -> {"new", "connected", "running", "retry", "gone"}]
      /\ toServer \in [Clients -> Seq(Message)]
      /\ toServer[c] \in Seq(Message)
      /\ toClient \in [Clients -> Seq(Message)]
      /\ sock \in [Clients -> {"none", "pending", "open", "closed", "reset"}]
  BY <1>a DEF NetTypes
<1>s. /\ \A k \in 2 .. Len(toServer[c]) : toServer[c][k].type # "REGISTER"
      /\ Enrolled(c) => \A k \in 1 .. Len(toServer[c]) :
                          toServer[c][k].type # "REGISTER"
  BY <1>a DEF RegisterFirst, Enrolled
<1>1. CASE Connect(c)
  <2>1. /\ cst[c] = "new" /\ toServer' = [toServer EXCEPT ![c] = toServer[c]]
        /\ \/ cst' = [cst EXCEPT ![c] = "connected"]
           \/ cst' = [cst EXCEPT ![c] = "gone"]
        /\ \/ sock' = sock \/ sock' = [sock EXCEPT ![c] = "pending"]
        /\ UNCHANGED serverVars /\ toClient' = toClient
    BY <1>1, <1>b DEF Connect
  <2>2. toServer[c] = <<>> /\ ~Enrolled(c)
    BY <1>a, <2>1 DEF RegisterFirst, Enrolled
  <2>3. \E x \in {"connected", "gone"} : Speaks(c, x, toServer[c])
    BY <1>s, <2>1, <2>2 DEF Speaks
  <2> QED BY <1>b, <2>1, <2>3 DEF ClientPlaces
<1>2. CASE RegisterMe(c)
  <2> DEFINE r == Append(toServer[c], Msg("REGISTER"))
  <2>1. /\ cst[c] = "connected"
        /\ \/ cst' = [cst EXCEPT ![c] = "running"]
           \/ cst' = [cst EXCEPT ![c] = "gone"]
        /\ UNCHANGED serverVars /\ toClient' = toClient /\ sock' = sock
        /\ ClientSends(c, Msg("REGISTER"))
    BY <1>2 DEF RegisterMe, AfterSend
  <2>2. toServer[c] = <<>> /\ ~Enrolled(c)
    BY <1>a, <2>1 DEF RegisterFirst, Enrolled
  <2>3. Msg("REGISTER") \in Message
    BY LimitAssumption DEF Msg, Message, Types
  <2>4. r \in Seq(Message) /\ Len(r) = 1
    BY <2>2, <2>3
  <2>5. \/ toServer' = [toServer EXCEPT ![c] = r]
        \/ toServer' = [toServer EXCEPT ![c] = toServer[c]]
    BY <1>b, <2>1 DEF ClientSends
  <2> HIDE DEF r
  <2>6. \A k \in 2 .. Len(r) : r[k].type # "REGISTER"
    BY <2>4
  <2>7. \E x \in {"running", "gone"}, q \in Seq(Message) : Speaks(c, x, q)
    BY <1>b, <1>s, <2>1, <2>2, <2>4, <2>5, <2>6 DEF Speaks
  <2> QED BY <1>b, <2>1, <2>7 DEF ClientPlaces
<1>3. CASE ReceiveRequest(c)
  <2> DEFINE m == Head(toClient[c])
  <2>1. /\ cst[c] = "running" /\ toClient[c] # <<>> /\ toClient[c] \in Seq(Message)
        /\ toClient' = [toClient EXCEPT ![c] = Tail(toClient[c])]
    BY <1>3, <1>b DEF ReceiveRequest
  <2>2. m \in Message /\ Tail(toClient[c]) \in Seq(Message)
    BY <2>1, Taken
  <2>3. toClient' \in [Clients -> Seq(Message)]
    BY <1>b, <2>1, <2>2
  <2>4. \/ \E r \in Message : /\ r.type # "REGISTER" /\ ClientSends(c, r)
                              /\ \E x \in {"running", "gone"} :
                                   cst' = [cst EXCEPT ![c] = x]
                              /\ UNCHANGED <<sock, serverVars>>
        \/ \E u \in BOOLEAN : ClientExits(c, u)
    <3> DEFINE r == [m EXCEPT !.type = IF m.type = "PING" THEN "PONG"
                                       ELSE "RESPONSE"]
    <3>1. r \in Message /\ r.type # "REGISTER"
      <4>1. m.id \in 0 .. MaxRequests /\ m = [type |-> m.type, id |-> m.id]
        BY <2>2 DEF Message
      <4> HIDE DEF m
      <4>2. \/ r = [type |-> "PONG", id |-> m.id]
            \/ r = [type |-> "RESPONSE", id |-> m.id]
        BY <4>1
      <4> QED BY <4>1, <4>2 DEF Message, Types
    <3>2. CASE ClientSends(c, r) /\ (\E end \in AfterSend(c) : cst' = [cst EXCEPT ![c] = end])
               /\ UNCHANGED <<sock, serverVars>>
      <4>1. AfterSend(c) \subseteq {"running", "gone"}
        BY DEF AfterSend
      <4> HIDE DEF r
      <4> QED BY <3>1, <3>2, <4>1
    <3> QED BY <1>3, <3>2 DEF ReceiveRequest
  <2>5. CASE \E r \in Message : /\ r.type # "REGISTER" /\ ClientSends(c, r)
                                /\ \E x \in {"running", "gone"} :
                                     cst' = [cst EXCEPT ![c] = x]
                                /\ UNCHANGED <<sock, serverVars>>
    <3>1. PICK r \in Message : /\ r.type # "REGISTER" /\ ClientSends(c, r)
                               /\ \E x \in {"running", "gone"} :
                                    cst' = [cst EXCEPT ![c] = x]
                               /\ UNCHANGED <<sock, serverVars>>
      BY <2>5
    <3>2. PICK q \in Seq(Message) :
            /\ toServer' = [toServer EXCEPT ![c] = q]
            /\ \A k \in 2 .. Len(q) : q[k].type # "REGISTER"
            /\ Enrolled(c) => \A k \in 1 .. Len(q) : q[k].type # "REGISTER"
      BY <1>a, <3>1, Sent
    <3>3. \E x \in {"running", "gone"} : Speaks(c, x, q)
      BY <3>1, <3>2 DEF Speaks
    <3> QED BY <1>b, <2>3, <3>1, <3>3 DEF ClientPlaces
  <2>6. CASE \E u \in BOOLEAN : ClientExits(c, u)
    BY <1>a, <1>b, <2>3, <2>6, ExitSpeaks DEF ClientPlaces
  <2> QED BY <2>4, <2>5, <2>6
<1>4. CASE ServerClosed(c) \/ ClientInterrupted(c) \/ Crash(c)
  <2>1. (\E u \in BOOLEAN : ClientExits(c, u)) /\ toClient' = toClient
    BY <1>4 DEF ServerClosed, ClientInterrupted, Crash
  <2> QED BY <1>a, <1>b, <2>1, ExitSpeaks DEF ClientPlaces
<1>5. CASE ConnectionReset(c)
  <2>1. /\ cst[c] = "running" /\ cst' = [cst EXCEPT ![c] = "retry"]
        /\ toServer' = [toServer EXCEPT ![c] = toServer[c]]
        /\ UNCHANGED serverVars /\ toClient' = toClient /\ sock' = sock
    BY <1>5, <1>b DEF ConnectionReset
  <2>2. Speaks(c, "retry", toServer[c])
    BY <1>s, <2>1 DEF Speaks
  <2> QED BY <1>b, <2>1, <2>2 DEF ClientPlaces
<1> QED BY <1>1, <1>2, <1>3, <1>4, <1>5 DEF ClientStep

(***************************************************************************)
(* What all steps must see to.                                             *)
(***************************************************************************)
\* A client that is in the list keeps being enrolled.
Mail == /\ RegisterFirst'
        /\ \A c \in Clients : Enrolled(c) =>
             /\ cst'[c] \in {"running", "retry", "gone"}
             /\ \A k \in 1 .. Len(toServer'[c]) :
                  toServer'[c][k].type # "REGISTER"

\* A client's step.
LEMMA ClientMail ==
  ASSUME IInv, NEW c \in Clients, NEW x \in ClientPlaces,
         NEW q \in Seq(Message), Speaks(c, x, q)
  PROVE  /\ Mail
         /\ cst' \in [Clients -> {"new", "connected", "running", "retry", "gone"}]
         /\ toServer' \in [Clients -> Seq(Message)]
<1>1. /\ cst \in [Clients -> {"new", "connected", "running", "retry", "gone"}]
      /\ toServer \in [Clients -> Seq(Message)]
      /\ RegisterFirst
  BY Basics DEF NetTypes
<1>2. /\ cst' \in [Clients -> {"new", "connected", "running", "retry", "gone"}]
      /\ toServer' \in [Clients -> Seq(Message)]
  BY <1>1 DEF Speaks, ClientPlaces
<1>3. /\ cst'[c] = x /\ toServer'[c] = q
      /\ \A d \in Clients \ {c} : cst'[d] = cst[d] /\ toServer'[d] = toServer[d]
  BY <1>1 DEF Speaks
<1>4. RegisterFirst'
  BY <1>1, <1>3 DEF RegisterFirst, Speaks, ClientPlaces
<1>5. ASSUME NEW d \in Clients, Enrolled(d)
      PROVE  /\ cst'[d] \in {"running", "retry", "gone"}
             /\ \A k \in 1 .. Len(toServer'[d]) :
                  toServer'[d][k].type # "REGISTER"
  <2>1. CASE d = c
    BY <1>3, <1>5, <2>1 DEF Speaks, ClientPlaces
  <2>2. CASE d # c
    BY <1>3, <1>5, <2>2 DEF Enrolled
  <2> QED BY <2>1, <2>2
<1> QED BY <1>2, <1>4, <1>5 DEF Mail

\* A message taken from a queue: if it was REGISTER its client was in no slot,
\* and is enrolled from now on.
LEMMA MailTaken ==
  ASSUME IInv, NEW c \in Clients, cst' = cst, toServer[c] # <<>>,
         toServer' = [toServer EXCEPT ![c] = Tail(@)]
  PROVE  /\ Mail
         /\ toServer' \in [Clients -> Seq(Message)]
         /\ Head(toServer[c]) \in Message
         /\ Head(toServer[c]).type = "REGISTER" =>
              /\ ~Enrolled(c)
              /\ cst'[c] \in {"running", "retry", "gone"}
              /\ \A k \in 1 .. Len(toServer'[c]) :
                   toServer'[c][k].type # "REGISTER"
<1>1. /\ cst \in [Clients -> {"new", "connected", "running", "retry", "gone"}]
      /\ toServer \in [Clients -> Seq(Message)]
      /\ RegisterFirst
  BY Basics DEF NetTypes
<1> DEFINE q == toServer[c]
           r == Tail(q)
<1>2. /\ q \in Seq(Message) /\ q # <<>>
      /\ \A d \in Clients \ {c} : toServer'[d] = toServer[d]
      /\ toServer'[c] = r
  BY <1>1
<1>3. /\ Head(q) = q[1] /\ q[1] \in Message /\ Len(q) \in Nat \ {0}
      /\ r \in Seq(Message) /\ Len(r) = Len(q) - 1
      /\ \A k \in 1 .. Len(q) - 1 : r[k] = q[k + 1]
  <2> HIDE DEF q
  <2> QED BY <1>2, Taken
<1>4. /\ \A k \in 2 .. Len(q) : q[k].type # "REGISTER"
      /\ cst[c] \in {"running", "retry", "gone"}
  BY <1>1, <1>2 DEF RegisterFirst
<1> HIDE DEF r, q
<1>5. \A k \in 1 .. Len(r) : r[k].type # "REGISTER"
  <2> SUFFICES ASSUME NEW k \in 1 .. Len(r) PROVE r[k].type # "REGISTER"
    OBVIOUS
  <2>1. k + 1 \in 2 .. Len(q) /\ r[k] = q[k + 1]
    BY <1>3
  <2> QED BY <1>4, <2>1
<1>6. \A k \in 2 .. Len(r) : r[k].type # "REGISTER"
  BY <1>5, <1>3
<1>7. RegisterFirst'
  <2> SUFFICES ASSUME NEW d \in Clients
               PROVE  /\ cst'[d] \in {"new", "connected"} => toServer'[d] = <<>>
                      /\ \A k \in 2 .. Len(toServer'[d]) :
                           toServer'[d][k].type # "REGISTER"
    BY DEF RegisterFirst
  <2>1. CASE d = c
    BY <1>2, <1>4, <1>6, <2>1
  <2>2. CASE d # c
    BY <1>1, <1>2, <2>2 DEF RegisterFirst
  <2> QED BY <2>1, <2>2
<1>8. ASSUME NEW d \in Clients, Enrolled(d)
      PROVE  /\ cst'[d] \in {"running", "retry", "gone"}
             /\ \A k \in 1 .. Len(toServer'[d]) :
                  toServer'[d][k].type # "REGISTER"
  <2>1. CASE d = c
    BY <1>2, <1>4, <1>5, <2>1
  <2>2. CASE d # c
    BY <1>2, <1>8, <2>2 DEF Enrolled
  <2> QED BY <2>1, <2>2
<1>9. q[1].type = "REGISTER" => ~Enrolled(c)
  BY <1>3 DEF Enrolled, q
<1>10. toServer' \in [Clients -> Seq(Message)]
  BY <1>1, <1>3 DEF r, q
<1> QED BY <1>2, <1>3, <1>4, <1>5, <1>7, <1>8, <1>9, <1>10 DEF Mail, q

\* A step that leaves the clients' messages alone.
LEMMA MailKept ==
  ASSUME IInv, cst' = cst, toServer' = toServer
  PROVE  Mail
<1>1. RegisterFirst
  BY Basics
<1> QED BY <1>1 DEF Mail, RegisterFirst, Enrolled

\* A thread may register c: nobody else does.
MayRegister(t, c) ==
  /\ c \in Clients
  /\ cst'[c] \in {"running", "retry", "gone"}
  /\ \A k \in 1 .. Len(toServer'[c]) : toServer'[c][k].type # "REGISTER"
  /\ Unlisted(c)
  /\ \A u \in Registrars \ {t} : Registering(u) => tcl[u] # c

\* A client whose REGISTER was just received.
LEMMA FirstComer ==
  ASSUME IInv, NEW t \in Registrars, NEW c \in Clients, ~Enrolled(c),
         cst'[c] \in {"running", "retry", "gone"},
         \A k \in 1 .. Len(toServer'[c]) : toServer'[c][k].type # "REGISTER"
  PROVE  MayRegister(t, c)
<1>1. ThreadsInv /\ SlotsInv
  BY Basics
<1>2. Unlisted(c)
  BY <1>1, ClientAssumption DEF SlotsInv, Unlisted
<1>3. \A u \in Registrars \ {t} : Registering(u) => tcl[u] # c
  BY <1>1 DEF ThreadsInv
<1> QED BY <1>2, <1>3 DEF MayRegister

\* A thread that goes on with the client it registers.
LEMMA GoesOn ==
  ASSUME IInv, Mail, NEW t \in Registrars, Registering(t)
  PROVE  MayRegister(t, tcl[t])
<1>1. ThreadsInv
  BY Basics
<1>2. /\ tcl[t] \in Clients /\ Enrolled(tcl[t]) /\ Unlisted(tcl[t])
      /\ \A u \in Registrars \ {t} : Registering(u) => tcl[u] # tcl[t]
  BY <1>1 DEF ThreadsInv
<1>3. PICK c \in Clients : c = tcl[t]
  BY <1>2
<1> QED BY <1>2, <1>3 DEF Mail, MayRegister

\* Thread t alone may have moved, to a place of its own; if it registers, then
\* client c.
Moves(t, c) ==
  /\ \A u \in Registrars \ {t} : /\ tpc'[u] = tpc[u] /\ tcl'[u] = tcl[u]
                                 /\ tsock'[u] = tsock[u]
  /\ t # "listener" => msg' = msg /\ lid' = lid
  /\ t = "listener" => /\ tpc'[t] # "accept"
                       /\ tpc'[t] = "handle" =>
                            lid' \in Slots \/ msg'.type = "UNREGISTER"
  /\ t # "listener" =>
       tpc'[t] \in {"accept", "recv", "check", "insert", "ended"}
  /\ ~Datagram /\ tpc'[t] \notin {Home(t), "ended"} => tsock'[t] \in Descriptors
  /\ Registering(t)' => tcl'[t] = c /\ MayRegister(t, c)

\* The list: a client that is new in it is the one thread t registered.
Lists(t) ==
  /\ setup' = setup
  /\ \A i \in Slots :
       \/ /\ clients'[i].addr = clients[i].addr
          /\ clients'[i].cl_active => clients[i].cl_active
       \/ /\ Registering(t) /\ ~Registering(t)'
          /\ clients'[i].addr = tcl[t]
          /\ \A j \in Slots \ {i} :
               clients'[j].addr = tcl[t] => clients[j].addr = tcl[t]

LEMMA RegistrationKept ==
  ASSUME IInv, Mail, NEW t \in Registrars, NEW c, Moves(t, c), Lists(t)
  PROVE  ThreadsInv' /\ SlotsInv'
<1>a. ThreadsInv /\ SlotsInv
  BY Basics
<1>b. /\ setup' = setup
      /\ Slots' = Slots /\ Datagram' = Datagram
      /\ Active' = {i \in Slots : clients'[i].cl_active}
  BY SameSetup DEF Lists
<1>t. /\ Registering(t) => /\ tcl[t] \in Clients /\ Enrolled(tcl[t])
                           /\ Unlisted(tcl[t]) /\ tcl[t] # Nobody
                           /\ \A u \in Registrars \ {t} :
                                Registering(u) => tcl[u] # tcl[t]
  BY <1>a, ClientAssumption DEF ThreadsInv
<1>e. ASSUME NEW d \in Clients, Enrolled(d)
      PROVE  /\ cst'[d] \in {"running", "retry", "gone"}
             /\ \A k \in 1 .. Len(toServer'[d]) :
                  toServer'[d][k].type # "REGISTER"
  BY <1>e DEF Mail
<1>1. ThreadsInv'
  <2>1. ASSUME NEW u \in Registrars, u # t, Registering(u)'
        PROVE  /\ Registering(u) /\ tcl'[u] = tcl[u]
               /\ tcl[u] \in Clients /\ Enrolled(tcl[u]) /\ Unlisted(tcl[u])
               /\ \A w \in Registrars \ {u} : Registering(w) => tcl[w] # tcl[u]
    <3>1. tpc'[u] = tpc[u] /\ tcl'[u] = tcl[u]
      BY <2>1 DEF Moves
    <3>2. u = "listener" => msg' = msg
      BY <2>1 DEF Moves
    <3>3. Registering(u)
      BY <2>1, <3>1, <3>2 DEF Registering
    <3> QED BY <1>a, <3>1, <3>3 DEF ThreadsInv
  <2>2. ASSUME NEW u \in Registrars, Registering(u)'
        PROVE  \E d \in Clients :
                 /\ tcl'[u] = d
                 /\ cst'[d] \in {"running", "retry", "gone"}
                 /\ \A k \in 1 .. Len(toServer'[d]) :
                      toServer'[d][k].type # "REGISTER"
                 /\ \A i \in Slots : clients'[i].addr # d
    <3>1. CASE u = t
      <4>1. tcl'[t] = c /\ MayRegister(t, c)
        BY <2>2, <3>1 DEF Moves
      <4>2. \A i \in Slots : clients'[i].addr = clients[i].addr
        BY <2>2, <3>1 DEF Lists
      <4> QED BY <3>1, <4>1, <4>2 DEF MayRegister, Unlisted
    <3>2. CASE u # t
      <4>1. PICK d \in Clients : d = tcl[u]
        BY <2>1, <2>2, <3>2
      <4>2. /\ tcl'[u] = d /\ Enrolled(d) /\ Unlisted(d)
            /\ Registering(t) => tcl[t] # d
        BY <2>1, <2>2, <3>2, <4>1
      <4>3. \A i \in Slots : clients'[i].addr # d
        BY <4>2 DEF Lists, Unlisted
      <4> QED BY <1>e, <4>2, <4>3
    <3> QED BY <3>1, <3>2
  <2>3. ASSUME NEW u \in Registrars, Registering(u)'
        PROVE  tcl'[u] \in Clients /\ Enrolled(tcl[u])' /\ Unlisted(tcl[u])'
    <3>1. PICK d \in Clients :
            /\ tcl'[u] = d
            /\ cst'[d] \in {"running", "retry", "gone"}
            /\ \A k \in 1 .. Len(toServer'[d]) :
                 toServer'[d][k].type # "REGISTER"
            /\ \A i \in Slots : clients'[i].addr # d
      BY <2>2, <2>3
    <3> QED BY <1>b, <3>1 DEF Enrolled, Unlisted
  <2>4. ASSUME NEW u \in Registrars, NEW w \in Registrars \ {u},
               Registering(u)', Registering(w)'
        PROVE  tcl'[w] # tcl'[u]
    <3>1. CASE u # t /\ w # t
      BY <2>1, <2>4, <3>1
    <3>2. CASE u = t
      <4>1. Registering(w) /\ tcl'[w] = tcl[w]
        BY <2>1, <2>4, <3>2
      <4> QED BY <2>4, <3>2, <4>1 DEF Moves, MayRegister
    <3>3. CASE w = t
      <4>1. Registering(u) /\ tcl'[u] = tcl[u]
        BY <2>1, <2>4, <3>3
      <4> QED BY <2>4, <3>3, <4>1 DEF Moves, MayRegister
    <3> QED BY <3>1, <3>2, <3>3
  <2>5. /\ tpc'["listener"] # "accept"
        /\ tpc'["listener"] = "handle" => lid' \in Slots \/ msg'.type = "UNREGISTER"
        /\ \A u \in {"net", "local"} :
             tpc'[u] \in {"accept", "recv", "check", "insert", "ended"}
        /\ \A u \in Registrars : ~Datagram /\ tpc'[u] \notin {Home(u), "ended"} =>
             tsock'[u] \in Descriptors
    BY <1>a DEF Moves, ThreadsInv, Registrars
  <2> QED
    BY <1>b, <2>3, <2>4, <2>5 DEF ThreadsInv, Descriptors, Home
<1>2. SlotsInv'
  <2>1. ASSUME NEW i \in Slots, NEW j \in Slots,
               clients'[i].addr = clients'[j].addr, clients'[i].addr # Nobody
        PROVE  i = j
    BY <1>a, <1>t, <2>1 DEF Lists, SlotsInv, Unlisted
  <2>2. ASSUME NEW i \in Slots, clients'[i].cl_active
        PROVE  clients'[i].addr # Nobody
    BY <1>a, <1>t, <2>2 DEF Lists, SlotsInv, Active
  <2>3. ASSUME NEW i \in Slots, clients'[i].addr # Nobody
        PROVE  /\ cst'[clients'[i].addr] \in {"running", "retry", "gone"}
               /\ \A k \in 1 .. Len(toServer'[clients'[i].addr]) :
                    toServer'[clients'[i].addr][k].type # "REGISTER"
    <3>1. clients'[i].addr \in Clients /\ Enrolled(clients'[i].addr)
      <4>1. clients[i].addr \in Clients \cup {Nobody}
        BY Basics DEF ListTypes
      <4>2. CASE clients'[i].addr = clients[i].addr
        BY <1>a, <2>3, <4>1, <4>2 DEF SlotsInv
      <4>3. CASE Registering(t) /\ clients'[i].addr = tcl[t]
        BY <1>t, <4>3
      <4> QED BY <4>2, <4>3 DEF Lists
    <3>2. PICK d \in Clients : d = clients'[i].addr
      BY <3>1
    <3> QED BY <1>e, <3>1, <3>2
  <2> QED
    BY <1>b, <2>1, <2>2, <2>3 DEF SlotsInv, Enrolled
<1> QED BY <1>1, <1>2

\* As long as free_cl stays and no slot is passed over, turns come as before.
LEMMA TurnsKept ==
  ASSUME IInv, setup' = setup, free_cl' = free_cl,
         \A i \in Slots : clients'[i].cl_active =>
           \/ missed'[i] = 0
           \/ clients[i].cl_active /\ missed'[i] = missed[i]
  PROVE  TurnsCome'
<1>a. /\ TurnsCome /\ free_cl \in 0 .. CLIENTS_MAX
      /\ CLIENTS_MAX \in Nat \ {0} /\ Slots = 0 .. CLIENTS_MAX - 1
  BY Basics DEF ListTypes
<1>b. /\ Slots' = Slots /\ CLIENTS_MAX' = CLIENTS_MAX
      /\ Active' = {i \in Slots : clients'[i].cl_active}
  BY SameSetup
<1> SUFFICES ASSUME NEW i \in Slots, clients'[i].cl_active
             PROVE  missed'[i] + Ahead(i)' < CLIENTS_MAX
  BY <1>b DEF TurnsCome
<1>1. Ahead(i)' = Ahead(i)
  BY <1>b DEF Ahead
<1>2. CASE missed'[i] = 0
  BY <1>a, <1>1, <1>2 DEF Ahead
<1>3. CASE clients[i].cl_active /\ missed'[i] = missed[i]
  BY <1>a, <1>1, <1>3 DEF TurnsCome, Active
<1> QED BY <1>2, <1>3

\* The main thread is as near to its shutdown as before, or nearer.
Forward == /\ misclosed' = misclosed
           /\ mpc' \in {"prompt", "send"} => mpc \in {"prompt", "send"}

\* Every slot keeps its client and its descriptor; before the shutdown, the
\* slots in use are the same, nothing is closed, and a thread that registers
\* a client has the client's descriptor.
Calm(t, c) ==
  /\ Forward
  /\ \A i \in Slots : /\ clients'[i].addr = clients[i].addr
                      /\ clients'[i].cl_active => clients[i].cl_active
  /\ mpc' \in {"prompt", "send"} =>
       /\ polled' = polled
       /\ \A i \in Slots : /\ clients'[i].cl_sock = clients[i].cl_sock
                           /\ clients'[i].cl_active = clients[i].cl_active
       /\ \A x \in Descriptors : fd'[x] = fd[x] \/ fd[x] = Nobody
       /\ ~Datagram /\ ~misclosed /\ Registering(t)' => fd'[tsock'[t]] = c

LEMMA OwnCalm ==
  ASSUME IInv, setup' = setup, NEW t \in Registrars, NEW c,
         Moves(t, c), Calm(t, c)
  PROVE  OwnInv'
<1>a. OwnInv /\ ThreadsInv /\ SlotsInv /\ polled \subseteq Descriptors
  BY Basics DEF NetTypes
<1>b. /\ Slots' = Slots /\ Datagram' = Datagram
      /\ Active' = {i \in Slots : clients'[i].cl_active}
  BY SameSetup
<1> SUFFICES ASSUME ~Datagram, mpc' \in {"prompt", "send"}, ~misclosed
             PROVE  /\ \A i \in Active' : OwnSocket(i)'
                    /\ \A x \in polled' : \E i \in Active' : clients'[i].cl_sock = x
                    /\ \A u \in Registrars :
                         Registering(u)' => fd'[tsock'[u]] = tcl'[u]
  BY <1>b DEF OwnInv, Calm, Forward
<1>c. /\ \A i \in Active : OwnSocket(i)
      /\ \A x \in polled : \E i \in Active : clients[i].cl_sock = x
      /\ \A u \in Registrars : Registering(u) => fd[tsock[u]] = tcl[u]
  BY <1>a DEF OwnInv, Calm, Forward
<1>d. /\ polled' = polled
      /\ \A i \in Slots : /\ clients'[i].cl_sock = clients[i].cl_sock
                          /\ clients'[i].addr = clients[i].addr
                          /\ clients'[i].cl_active = clients[i].cl_active
      /\ \A x \in Descriptors : fd'[x] = fd[x] \/ fd[x] = Nobody
      /\ Registering(t)' => fd'[tsock'[t]] = c
  BY DEF Calm
<1>e. Active' = Active
  BY <1>b, <1>d DEF Active
<1>1. ASSUME NEW i \in Active PROVE OwnSocket(i)'
  <2>1. /\ fd[clients[i].cl_sock] = clients[i].addr
        /\ clients[i].cl_sock \in Descriptors /\ clients[i].addr # Nobody
        /\ clients[i].cl_sock \in polled /\ i \in Slots
    BY <1>a, <1>c, <1>1 DEF OwnSocket, SlotsInv, Active
  <2> QED BY <1>d, <2>1 DEF OwnSocket
<1>2. ASSUME NEW x \in polled' PROVE \E i \in Active' : clients'[i].cl_sock = x
  BY <1>c, <1>d, <1>e DEF Active
<1>3. ASSUME NEW u \in Registrars, Registering(u)' PROVE fd'[tsock'[u]] = tcl'[u]
  <2>1. CASE u = t
    BY <1>3, <1>d, <2>1 DEF Moves
  <2>2. CASE u # t
    <3>1. tpc'[u] = tpc[u] /\ tcl'[u] = tcl[u] /\ tsock'[u] = tsock[u]
      BY <2>2 DEF Moves
    <3>2. u = "listener" => msg' = msg
      BY <2>2 DEF Moves
    <3>3. Registering(u)
      BY <1>3, <3>1, <3>2 DEF Registering
    <3>4. tsock[u] \in Descriptors /\ tcl[u] # Nobody
      <4>1. tpc[u] \notin {Home(u), "ended"}
        BY <3>3 DEF Registering, Home
      <4> QED BY <1>a, <3>3, <4>1, ClientAssumption DEF ThreadsInv
    <3> QED BY <1>c, <1>d, <3>1, <3>3, <3>4
  <2> QED BY <2>1, <2>2
<1> QED BY <1>e, <1>1, <1>2, <1>3

\* A step that is calm keeps the invariant, if it keeps types and indices.
LEMMA CalmKeeps ==
  ASSUME IInv, Mail, setup' = setup, NEW t \in Registrars, NEW c,
         Moves(t, c), Calm(t, c),
         NetTypes', ListTypes', ThreadTypes', LoopTypes', IndexInv',
         UNCHANGED <<free_cl, missed>> \/ TurnsCome'
  PROVE  IInv'
<1>1. Lists(t)
  BY DEF Lists, Calm
<1>2. ThreadsInv' /\ SlotsInv'
  BY <1>1, RegistrationKept
<1>3. OwnInv'
  BY OwnCalm
<1>4. TypeOK'
  BY DEF TypeOK, NetTypes, ListTypes, ThreadTypes, LoopTypes
<1>5. TurnsCome'
  <2>1. \A i \in Slots : clients'[i].cl_active => clients[i].cl_active
    BY DEF Calm
  <2> QED BY <2>1, TurnsKept
<1> QED BY <1>2, <1>3, <1>4, <1>5 DEF IInv, Mail

\* Threads that all stay where they are.
LEMMA StayPut ==
  ASSUME IInv, Mail, setup' = setup, UNCHANGED threadVars
  PROVE  /\ Moves("net", tcl["net"])
         /\ ThreadTypes'
<1>f. /\ tpc' = tpc /\ tsock' = tsock /\ tcl' = tcl /\ msg' = msg /\ lid' = lid
  BY DEF threadVars
<1>a. ThreadsInv /\ ThreadTypes
  BY Basics
<1>b. Slots' = Slots /\ Datagram' = Datagram
  BY SameSetup
<1>1. Registering("net")' <=> Registering("net")
  BY <1>f DEF Registering
<1>2. Registering("net") => MayRegister("net", tcl["net"])
  BY GoesOn DEF Registrars
<1>3. "net" \in Registrars /\ "net" # "listener"
  BY DEF Registrars
<1>4. Moves("net", tcl["net"])
  BY <1>a, <1>f, <1>1, <1>2, <1>3 DEF Moves, ThreadsInv
<1> QED BY <1>a, <1>b, <1>f, <1>4 DEF ThreadTypes

\* A step that leaves threads and list alone, and sends to a client at most.
quietVars == <<setup, cst, toServer, netVars, clients, free_cl, threadVars,
               historyVars>>
LEMMA QuietKeeps ==
  ASSUME IInv, UNCHANGED quietVars, toClient' \in [Clients -> Seq(Message)],
         LoopTypes', IndexInv', Forward
  PROVE  IInv'
<1>f. /\ setup' = setup /\ cst' = cst /\ toServer' = toServer
      /\ sock' = sock /\ fd' = fd /\ polled' = polled /\ clients' = clients
      /\ free_cl' = free_cl /\ UNCHANGED threadVars
      /\ missed' = missed /\ misclosed' = misclosed
  BY DEF quietVars, netVars, historyVars
<1>1. Mail
  BY <1>f, MailKept
<1>2. Moves("net", tcl["net"]) /\ ThreadTypes' /\ "net" \in Registrars
  BY <1>1, <1>f, StayPut DEF Registrars
<1>3. NetTypes' /\ ListTypes'
  <2>1. NetTypes /\ ListTypes
    BY Basics
  <2> QED BY <1>f, <2>1, SameSetup DEF NetTypes, ListTypes
<1>4. Calm("net", tcl["net"])
  <2>1. OwnInv
    BY Basics
  <2>2. Registering("net")' <=> Registering("net")
    BY <1>f DEF Registering, threadVars
  <2>3. tsock' = tsock
    BY <1>f DEF threadVars
  <2> QED BY <1>2, <1>f, <2>1, <2>2, <2>3 DEF Calm, Forward, OwnInv
<1> QED BY <1>1, <1>2, <1>3, <1>4, <1>f, CalmKeeps

(***************************************************************************)
(* Sockets and descriptors.                                                *)
(***************************************************************************)
\* What send_sm of the server does to the types.
LEMMA ServerSendsType ==
  ASSUME IInv, NEW c, NEW m \in Message, ServerSends(c, m)
  PROVE  /\ toClient' \in [Clients -> Seq(Message)]
         /\ srv' \in {"up", "down"}
<1>1. toClient \in [Clients -> Seq(Message)] /\ srv \in {"up", "down"}
  BY Basics DEF NetTypes, LoopTypes
<1>2. CASE toClient' = [toClient EXCEPT ![c] = Append(@, m)] /\ srv' = srv
  <2>1. ASSUME c \in Clients
        PROVE  Append(toClient[c], m) \in Seq(Message)
    BY <1>1, <2>1, Appended
  <2> QED BY <1>1, <1>2, <2>1
<1>3. CASE toClient' = toClient /\ srv' \in {srv, "down"}
  BY <1>1, <1>3
<1> QED BY <1>1, <1>2, <1>3 DEF ServerSends

\* A close empties one descriptor, at most.
LEMMA CloseSockEffect ==
  ASSUME IInv, NEW x, CloseSock(x)
  PROVE  /\ sock' \in [Clients -> {"none", "pending", "open", "closed", "reset"}]
         /\ fd' \in [Descriptors -> Clients \cup {Nobody}]
         /\ polled' \subseteq Descriptors
         /\ \A y \in Descriptors \ {x} : fd'[y] = fd[y]
         /\ \A y \in Descriptors \ {x} : y \in polled <=> y \in polled'
         /\ fd[x] = Nobody => fd' = fd /\ polled' = polled
         /\ fd[x] # Nobody /\ ~Datagram => x \notin polled'
<1>1. /\ sock \in [Clients -> {"none", "pending", "open", "closed", "reset"}]
      /\ fd \in [Descriptors -> Clients \cup {Nobody}]
      /\ polled \subseteq Descriptors
  BY Basics DEF NetTypes
<1>2. CASE Datagram \/ fd[x] = Nobody
  BY <1>1, <1>2 DEF CloseSock, netVars
<1>3. CASE ~(Datagram \/ fd[x] = Nobody)
  <2>1. /\ fd' = [fd EXCEPT ![x] = Nobody]
        /\ polled' = polled \ {x}
        /\ \E end \in {"closed", "reset"} : sock' = [sock EXCEPT ![fd[x]] = end]
    BY <1>3 DEF CloseSock
  <2> QED BY <1>1, <1>3, <2>1
<1> QED BY <1>2, <1>3

(***************************************************************************)
(* Clients and the network.                                                *)
(***************************************************************************)
LEMMA ClientKeeps ==
  ASSUME IInv, NEW c \in Clients,
         ClientStep(c) \/ ClientInterrupted(c) \/ Crash(c)
  PROVE  IInv'
<1>1. /\ UNCHANGED serverVars
      /\ toClient' \in [Clients -> Seq(Message)]
      /\ sock' \in [Clients -> {"none", "pending", "open", "closed", "reset"}]
      /\ \E x \in ClientPlaces, q \in Seq(Message) : Speaks(c, x, q)
  BY ClientMoves
<1>2. PICK x \in ClientPlaces, q \in Seq(Message) : Speaks(c, x, q)
  BY <1>1
<1>3. /\ Mail
      /\ cst' \in [Clients -> {"new", "connected", "running", "retry", "gone"}]
      /\ toServer' \in [Clients -> Seq(Message)]
  BY <1>2, ClientMail
<1>f. /\ setup' = setup /\ fd' = fd /\ polled' = polled /\ clients' = clients
      /\ free_cl' = free_cl /\ mx' = mx /\ UNCHANGED threadVars
      /\ ppc' = ppc /\ pi' = pi /\ pread' = pread
      /\ mpc' = mpc /\ clid' = clid /\ request_id' = request_id
      /\ cancelled' = cancelled /\ srv' = srv /\ out' = out
      /\ missed' = missed /\ misclosed' = misclosed
  BY <1>1 DEF serverVars, pingerVars, mainVars, historyVars
<1>4. Moves("net", tcl["net"]) /\ ThreadTypes' /\ "net" \in Registrars
  BY <1>3, <1>f, StayPut DEF Registrars
<1>5. NetTypes' /\ ListTypes' /\ LoopTypes' /\ IndexInv'
  <2>1. NetTypes /\ ListTypes /\ LoopTypes /\ IndexInv
    BY Basics
  <2> QED BY <1>1, <1>3, <1>f, <2>1, SameSetup
          DEF NetTypes, ListTypes, LoopTypes, IndexInv
<1>6. Calm("net", tcl["net"])
  <2>1. OwnInv
    BY Basics
  <2>2. Registering("net")' <=> Registering("net")
    BY <1>f DEF Registering, threadVars
  <2>3. tsock' = tsock
    BY <1>f DEF threadVars
  <2> QED BY <1>4, <1>f, <2>1, <2>2, <2>3 DEF Calm, Forward, OwnInv
<1> QED BY <1>3, <1>4, <1>5, <1>6, <1>f, CalmKeeps

LEMMA LoseDatagramKeeps ==
  ASSUME IInv, NEW c \in Clients, LoseDatagram(c)
  PROVE  IInv'
<1>1. NetTypes
  BY Basics
<1>f. /\ setup' = setup /\ cst' = cst /\ sock' = sock /\ fd' = fd
      /\ polled' = polled /\ clients' = clients
      /\ free_cl' = free_cl /\ mx' = mx /\ UNCHANGED threadVars
      /\ ppc' = ppc /\ pi' = pi /\ pread' = pread
      /\ mpc' = mpc /\ clid' = clid /\ request_id' = request_id
      /\ cancelled' = cancelled /\ srv' = srv /\ out' = out
      /\ missed' = missed /\ misclosed' = misclosed
  BY DEF LoseDatagram, netVars, pingerVars, mainVars, historyVars
<1>2. /\ Mail /\ toServer' \in [Clients -> Seq(Message)]
      /\ toClient' \in [Clients -> Seq(Message)]
  <2>1. CASE /\ toServer[c] # <<>> /\ toClient' = toClient
             /\ toServer' = [toServer EXCEPT ![c] = Tail(@)]
    BY <1>1, <1>f, <2>1, MailTaken DEF NetTypes
  <2>2. CASE /\ toClient[c] # <<>> /\ toServer' = toServer
             /\ toClient' = [toClient EXCEPT ![c] = Tail(@)]
    <3>1. toClient[c] \in Seq(Message) /\ toClient \in [Clients -> Seq(Message)]
      BY <1>1 DEF NetTypes
    <3>2. Tail(toClient[c]) \in Seq(Message)
      BY <2>2, <3>1, Taken
    <3> QED BY <1>1, <1>f, <2>2, <3>1, <3>2, MailKept DEF NetTypes
  <2> QED BY <2>1, <2>2 DEF LoseDatagram
<1>4. Moves("net", tcl["net"]) /\ ThreadTypes' /\ "net" \in Registrars
  BY <1>2, <1>f, StayPut DEF Registrars
<1>5. NetTypes' /\ ListTypes' /\ LoopTypes' /\ IndexInv'
  <2>1. NetTypes /\ ListTypes /\ LoopTypes /\ IndexInv
    BY Basics
  <2> QED BY <1>2, <1>f, <2>1, SameSetup
          DEF NetTypes, ListTypes, LoopTypes, IndexInv
<1>6. Calm("net", tcl["net"])
  <2>1. Datagram
    BY DEF LoseDatagram
  <2> QED BY <1>f, <2>1 DEF Calm, Forward
<1> QED BY <1>2, <1>4, <1>5, <1>6, <1>f, CalmKeeps

(***************************************************************************)
(* The pinger and the main thread.                                         *)
(***************************************************************************)
\* The steps that change neither the list nor the sockets.
LEMMA LoopsKeep ==
  ASSUME IInv,
         \/ StartRound \/ EndRound \/ SkipSlot \/ ReadInactivity
         \/ SendRequest \/ Signal \/ CancelPinger \/ CancelAccept
         \/ TeardownSocks \/ CancelListener \/ Destroy
  PROVE  IInv'
<1>a. /\ NetTypes /\ ListTypes /\ LoopTypes /\ IndexInv
      /\ CLIENTS_MAX \in Nat \ {0} /\ Slots = 0 .. CLIENTS_MAX - 1
      /\ setup.requests \in 0 .. MaxRequests
  BY Basics
<1>q. ASSUME UNCHANGED quietVars, toClient' \in [Clients -> Seq(Message)],
             LoopTypes', IndexInv', Forward
      PROVE  IInv'
  BY <1>q, QuietKeeps
<1>t. toClient \in [Clients -> Seq(Message)]
  BY <1>a DEF NetTypes
<1>1. CASE StartRound \/ EndRound \/ SkipSlot
  <2>1. /\ UNCHANGED quietVars /\ toClient' = toClient /\ mpc' = mpc /\ clid' = clid
        /\ misclosed' = misclosed /\ pread' = pread /\ cancelled' = cancelled
        /\ request_id' = request_id /\ srv' = srv /\ out' = out /\ setup' = setup
        /\ mx' \in {"free", "pinger"} /\ ppc' \in {"sleep", "slot"}
        /\ pi' = pi \/ pi' = 0 \/ (pi \in Slots /\ pi' = pi + 1)
    BY <1>1, <1>a DEF StartRound, EndRound, SkipSlot, PingerAt, quietVars,
       clientVars, netVars, historyVars, mainVars, LoopTypes
  <2>2. LoopTypes' /\ IndexInv'
    BY <1>a, <2>1, SameSetup DEF LoopTypes, IndexInv
  <2> QED BY <1>q, <1>t, <2>1, <2>2 DEF Forward
<1>2. CASE ReadInactivity
  <2>1. /\ UNCHANGED quietVars /\ toClient' = toClient /\ mpc' = mpc /\ clid' = clid
        /\ misclosed' = misclosed /\ cancelled' = cancelled /\ mx' = mx
        /\ request_id' = request_id /\ srv' = srv /\ out' = out /\ setup' = setup
        /\ ppc' = "ping" /\ pi' = pi /\ pi \in Slots
        /\ pread' = clients[pi].cl_inactivity
        /\ ~(clients[pi].cl_inactivity > INACTIVITY_MAX)
    BY <1>2 DEF ReadInactivity, PingerAt, quietVars, TimedOut, Active,
       clientVars, netVars, historyVars, mainVars
  <2>2. pread' \in 0 .. INACTIVITY_MAX
    BY <1>a, <2>1, LimitAssumption DEF ListTypes
  <2>3. LoopTypes' /\ IndexInv'
    BY <1>a, <2>1, <2>2, SameSetup DEF LoopTypes, IndexInv
  <2> QED BY <1>q, <1>t, <2>1, <2>3 DEF Forward
<1>3. CASE SendRequest
  <2>1. /\ UNCHANGED quietVars /\ pi' = pi /\ ppc' = ppc
        /\ misclosed' = misclosed /\ pread' = pread /\ cancelled' = cancelled
        /\ out' = out /\ setup' = setup /\ mx' = mx
        /\ request_id' = request_id \/ request_id' = request_id + 1
        /\ mpc = "send" /\ mpc' = "prompt" /\ clid' = -1
        /\ ServerSends(Peer(clid), [type |-> "REQUEST", id |-> request_id])
    BY <1>3 DEF SendRequest, MainAt, quietVars, netVars, historyVars, pingerVars
  <2>2. [type |-> "REQUEST", id |-> request_id] \in Message
    BY <1>a DEF LoopTypes, Message, Types
  <2>3. toClient' \in [Clients -> Seq(Message)] /\ srv' \in {"up", "down"}
    BY <2>1, <2>2, ServerSendsType
  <2>4. request_id < setup.requests /\ request_id \in Nat
    BY <1>a, <2>1 DEF LoopTypes, IndexInv
  <2>5. /\ request_id' \in 0 .. MaxRequests
        /\ request_id' <= setup.requests
    BY <1>a, <2>1, <2>4, LimitAssumption
  <2>6. LoopTypes' /\ IndexInv'
    BY <1>a, <2>1, <2>3, <2>5, SameSetup DEF LoopTypes, IndexInv
  <2> QED BY <1>q, <2>1, <2>3, <2>6 DEF Forward
<1>4. CASE Signal \/ CancelPinger \/ CancelAccept \/ TeardownSocks \/ CancelListener
  <2>1. /\ UNCHANGED quietVars /\ toClient' = toClient /\ pi' = pi /\ ppc' = ppc
        /\ misclosed' = misclosed /\ pread' = pread
        /\ cancelled' \subseteq Registrars \cup {"pinger"}
        /\ request_id' = request_id /\ srv' = srv /\ out' = out /\ setup' = setup
        /\ mx' = mx
        /\ mpc' \in {"cancel_pinger", "cancel_accept", "teardown",
                     "cancel_listener", "destroy"}
        /\ clid' = clid \/ clid' = 0
        /\ mpc' = "teardown" => clid' = 0
    BY <1>4, <1>a DEF Signal, CancelPinger, CancelAccept, CancelListener, Cancel,
       TeardownSocks, MainAt, quietVars, clientVars, netVars, historyVars,
       pingerVars, LoopTypes, Accepters, Registrars
  <2>2. LoopTypes' /\ IndexInv'
    BY <1>a, <2>1, SameSetup DEF LoopTypes, IndexInv
  <2> QED BY <1>q, <1>t, <2>1, <2>2 DEF Forward
<1>5. CASE Destroy
  <2>1. /\ UNCHANGED quietVars /\ toClient' = toClient /\ pi' = pi /\ ppc' = ppc
        /\ misclosed' = misclosed /\ pread' = pread /\ cancelled' = cancelled
        /\ request_id' = request_id /\ srv' = "down" /\ out' = out /\ setup' = setup
        /\ mx' = mx /\ mpc' = mpc /\ clid' = clid
    BY <1>5 DEF Destroy, MainAt, quietVars, clientVars, netVars, historyVars,
       pingerVars, mainVars
  <2>2. LoopTypes' /\ IndexInv'
    BY <1>a, <2>1, SameSetup DEF LoopTypes, IndexInv
  <2> QED BY <1>q, <1>t, <2>1, <2>2 DEF Forward
<1> QED BY <1>1, <1>2, <1>3, <1>4, <1>5

\* A ping: the slot keeps its client and its descriptor.
LEMMA PingKeeps ==
  ASSUME IInv, Ping
  PROVE  IInv'
<1>a. /\ NetTypes /\ ListTypes /\ LoopTypes /\ IndexInv /\ OwnInv
      /\ CLIENTS_MAX \in Nat \ {0} /\ Slots = 0 .. CLIENTS_MAX - 1
  BY Basics
<1>f. /\ setup' = setup /\ cst' = cst /\ toServer' = toServer /\ sock' = sock
      /\ fd' = fd /\ polled' = polled /\ free_cl' = free_cl /\ mx' = mx
      /\ UNCHANGED threadVars
      /\ mpc' = mpc /\ clid' = clid /\ request_id' = request_id
      /\ cancelled' = cancelled /\ out' = out
      /\ missed' = missed /\ misclosed' = misclosed
      /\ ppc = "ping" /\ ppc' = "slot" /\ pi' = pi + 1 /\ pread' = 0
      /\ clients' = [clients EXCEPT ![pi].cl_inactivity = pread + 1]
      /\ ServerSends(Peer(pi), Msg("PING"))
  BY DEF Ping, PingerAt, netVars, mainVars, historyVars
<1>1. Msg("PING") \in Message
  BY LimitAssumption DEF Msg, Message, Types
<1>2. toClient' \in [Clients -> Seq(Message)] /\ srv' \in {"up", "down"}
  BY <1>1, <1>f, ServerSendsType
<1>3. pi \in Slots /\ pread + 1 \in 0 .. INACTIVITY_MAX + 1
  BY <1>a, <1>f, LimitAssumption DEF IndexInv, LoopTypes
<1>r. clients \in [Slots -> [cl_active : BOOLEAN,
                             addr : Clients \cup {Nobody},
                             cl_sock : 0 .. MaxDescriptors,
                             cl_inactivity : 0 .. INACTIVITY_MAX + 1]]
  BY <1>a DEF ListTypes
<1>4. /\ clients' \in [Slots -> [cl_active : BOOLEAN,
                             addr : Clients \cup {Nobody},
                             cl_sock : 0 .. MaxDescriptors,
                             cl_inactivity : 0 .. INACTIVITY_MAX + 1]]
      /\ \A i \in Slots : /\ clients'[i].addr = clients[i].addr
                          /\ clients'[i].cl_sock = clients[i].cl_sock
                          /\ clients'[i].cl_active = clients[i].cl_active
  BY <1>f, <1>r, <1>3
<1>5. Mail
  BY <1>f, MailKept
<1>6. Moves("net", tcl["net"]) /\ ThreadTypes' /\ "net" \in Registrars
  BY <1>5, <1>f, StayPut DEF Registrars
<1>7. NetTypes' /\ ListTypes'
  BY <1>a, <1>f, <1>2, <1>4, SameSetup DEF NetTypes, ListTypes
<1>8. LoopTypes' /\ IndexInv'
  <2>1. pi' \in 0 .. CLIENTS_MAX /\ pread' \in 0 .. INACTIVITY_MAX
    BY <1>a, <1>f, <1>3, LimitAssumption
  <2> QED BY <1>a, <1>f, <1>2, <2>1, SameSetup DEF LoopTypes, IndexInv
<1>9. Calm("net", tcl["net"])
  <2>1. Registering("net")' <=> Registering("net")
    BY <1>f DEF Registering, threadVars
  <2>2. tsock' = tsock
    BY <1>f DEF threadVars
  <2> QED BY <1>a, <1>6, <1>f, <1>4, <2>1, <2>2 DEF Calm, Forward, OwnInv
<1> QED BY <1>5, <1>6, <1>7, <1>8, <1>9, <1>f, CalmKeeps

\* teardown_clients: what it closes is closed for good.
LEMMA TeardownKeeps ==
  ASSUME IInv, TeardownSlot \/ TellClient
  PROVE  IInv'
<1>a. /\ NetTypes /\ ListTypes /\ LoopTypes /\ IndexInv
      /\ CLIENTS_MAX \in Nat \ {0} /\ Slots = 0 .. CLIENTS_MAX - 1
  BY Basics
<1>r. clients \in [Slots -> [cl_active : BOOLEAN,
                             addr : Clients \cup {Nobody},
                             cl_sock : 0 .. MaxDescriptors,
                             cl_inactivity : 0 .. INACTIVITY_MAX + 1]]
  BY <1>a DEF ListTypes
<1>f. /\ setup' = setup /\ cst' = cst /\ toServer' = toServer
      /\ free_cl' = free_cl /\ mx' = mx /\ UNCHANGED threadVars
      /\ ppc' = ppc /\ pi' = pi /\ pread' = pread
      /\ request_id' = request_id /\ cancelled' = cancelled /\ out' = out
      /\ missed' = missed /\ misclosed' = misclosed
      /\ mpc' \in {"teardown", "tell"}
      /\ clid \in Slots
      /\ clid' = clid \/ clid' = clid + 1
  BY <1>a DEF TeardownSlot, TellClient, MainAt, clientVars, netVars, pingerVars,
     mainVars, historyVars, IndexInv
<1>1. /\ toClient' \in [Clients -> Seq(Message)] /\ srv' \in {"up", "down"}
      /\ sock' \in [Clients -> {"none", "pending", "open", "closed", "reset"}]
      /\ fd' \in [Descriptors -> Clients \cup {Nobody}]
      /\ polled' \subseteq Descriptors
      /\ clients' = clients
         \/ clients' = [clients EXCEPT ![clid].cl_active = FALSE]
  <2>1. CASE TeardownSlot
    <3>1. /\ toClient' = toClient /\ srv' = srv /\ sock' = sock /\ fd' = fd
          /\ polled' = polled
          /\ clients' = clients
             \/ clients' = [clients EXCEPT ![clid].cl_active = FALSE]
      BY <2>1 DEF TeardownSlot, clientVars, netVars
    <3> QED BY <1>a, <3>1 DEF NetTypes, LoopTypes
  <2>2. CASE TellClient
    <3>1. /\ ServerSends(Peer(clid), Msg("SHUTDOWN"))
          /\ CloseSock(clients[clid].cl_sock) /\ clients' = clients
      BY <2>2 DEF TellClient
    <3>2. Msg("SHUTDOWN") \in Message
      BY LimitAssumption DEF Msg, Message, Types
    <3> QED BY <3>1, <3>2, ServerSendsType, CloseSockEffect
  <2> QED BY <2>1, <2>2
<1>4. /\ clients' \in [Slots -> [cl_active : BOOLEAN,
                             addr : Clients \cup {Nobody},
                             cl_sock : 0 .. MaxDescriptors,
                             cl_inactivity : 0 .. INACTIVITY_MAX + 1]]
      /\ \A i \in Slots : /\ clients'[i].addr = clients[i].addr
                          /\ clients'[i].cl_active => clients[i].cl_active
  <2>1. CASE clients' = clients
    BY <1>r, <2>1
  <2>2. CASE clients' = [clients EXCEPT ![clid].cl_active = FALSE]
    BY <1>f, <1>r, <2>2
  <2> QED BY <1>1, <2>1, <2>2
<1>5. Mail
  BY <1>f, MailKept
<1>6. Moves("net", tcl["net"]) /\ ThreadTypes' /\ "net" \in Registrars
  BY <1>5, <1>f, StayPut DEF Registrars
<1>7. NetTypes' /\ ListTypes'
  BY <1>a, <1>f, <1>1, <1>4, SameSetup DEF NetTypes, ListTypes
<1>8. LoopTypes' /\ IndexInv'
  <2>1. clid' \in -1 .. CLIENTS_MAX /\ clid' >= 0
    BY <1>a, <1>f
  <2>2. mpc' = "tell" => clid' \in Slots
    BY <1>f DEF TeardownSlot, TellClient, MainAt
  <2> QED BY <1>a, <1>f, <1>1, <2>1, <2>2, SameSetup DEF LoopTypes, IndexInv
<1>9. Calm("net", tcl["net"])
  BY <1>f, <1>4 DEF Calm, Forward
<1> QED BY <1>5, <1>6, <1>7, <1>8, <1>9, <1>f, CalmKeeps

\* A slot that is dropped leaves the descriptors of the others alone, unless
\* the step says so; thread t is not registering any more.
LEMMA OwnDrop ==
  ASSUME IInv, setup' = setup, mpc' = mpc, NEW i \in Slots, Drop(i),
         NEW t \in Registrars, NEW c, Moves(t, c),
         Registering(t)' => /\ Registering(t) /\ tcl'[t] = tcl[t]
                            /\ tsock'[t] = tsock[t],
         misclosed => misclosed',
         ~Datagram /\ i \notin Active /\ fd[clients[i].cl_sock] # Nobody
           => misclosed'
  PROVE  OwnInv'
<1>a. OwnInv /\ ThreadsInv /\ SlotsInv /\ polled \subseteq Descriptors
  BY Basics DEF NetTypes
<1>b. /\ Slots' = Slots /\ Datagram' = Datagram
      /\ Active' = {j \in Slots : clients'[j].cl_active}
  BY SameSetup
<1>r. clients \in [Slots -> [cl_active : BOOLEAN,
                             addr : Clients \cup {Nobody},
                             cl_sock : 0 .. MaxDescriptors,
                             cl_inactivity : 0 .. INACTIVITY_MAX + 1]]
  BY Basics DEF ListTypes
<1> DEFINE x == clients[i].cl_sock
<1>x. /\ \A y \in Descriptors \ {x} : fd'[y] = fd[y]
      /\ \A y \in Descriptors \ {x} : y \in polled <=> y \in polled'
      /\ fd[x] = Nobody => fd' = fd /\ polled' = polled
      /\ fd[x] # Nobody /\ ~Datagram => x \notin polled'
      /\ polled' \subseteq Descriptors
  BY CloseSockEffect DEF Drop
<1> SUFFICES ASSUME ~Datagram, mpc \in {"prompt", "send"}, ~misclosed'
             PROVE  /\ \A j \in Active' : OwnSocket(j)'
                    /\ \A y \in polled' : \E j \in Active' : clients'[j].cl_sock = y
                    /\ \A u \in Registrars :
                         Registering(u)' => fd'[tsock'[u]] = tcl'[u]
  BY <1>b DEF OwnInv
<1>c. /\ \A j \in Active : OwnSocket(j)
      /\ \A y \in polled : \E j \in Active : clients[j].cl_sock = y
      /\ \A u \in Registrars : Registering(u) => fd[tsock[u]] = tcl[u]
      /\ ~misclosed
  BY <1>a DEF OwnInv
<1>d. /\ \A j \in Slots : /\ clients'[j].cl_sock = clients[j].cl_sock
                          /\ clients'[j].addr = clients[j].addr
      /\ \A j \in Slots \ {i} : clients'[j].cl_active = clients[j].cl_active
      /\ ~clients'[i].cl_active
  BY <1>r DEF Drop
<1>e. Active' = Active \ {i}
  BY <1>b, <1>d DEF Active
<1>f. i \notin Active => fd[x] = Nobody
  OBVIOUS
<1>g. ASSUME NEW j \in Active
      PROVE  /\ fd[clients[j].cl_sock] = clients[j].addr
             /\ clients[j].cl_sock \in Descriptors /\ clients[j].addr # Nobody
             /\ clients[j].cl_sock \in polled /\ j \in Slots
  BY <1>a, <1>c, <1>g DEF OwnSocket, SlotsInv, Active
<1>1. ASSUME NEW j \in Active' PROVE OwnSocket(j)'
  <2>1. /\ fd[clients[j].cl_sock] = clients[j].addr
        /\ clients[j].cl_sock \in Descriptors /\ clients[j].addr # Nobody
        /\ clients[j].cl_sock \in polled /\ j \in Slots /\ j # i
    BY <1>e, <1>g, <1>1
  <2>2. clients[j].cl_sock # x \/ fd[x] = Nobody
    <3>1. CASE i \in Active
      <4>1. clients[i].addr # clients[j].addr
        BY <1>a, <2>1 DEF SlotsInv
      <4> QED BY <1>g, <2>1, <3>1, <4>1
    <3> QED BY <1>f, <3>1
  <2>3. fd'[clients[j].cl_sock] = clients[j].addr /\ clients[j].cl_sock \in polled'
    BY <1>x, <2>1, <2>2
  <2> QED BY <1>d, <2>1, <2>3 DEF OwnSocket
<1>2. ASSUME NEW y \in polled' PROVE \E j \in Active' : clients'[j].cl_sock = y
  <2>1. y \in polled /\ (y # x \/ fd[x] = Nobody)
    BY <1>x, <1>2
  <2>2. PICK j \in Active : clients[j].cl_sock = y
    BY <1>c, <2>1
  <2>3. j # i
    BY <1>g, <2>1, <2>2
  <2> QED BY <1>d, <1>e, <2>2, <2>3 DEF Active
<1>3. ASSUME NEW u \in Registrars, Registering(u)' PROVE fd'[tsock'[u]] = tcl'[u]
  <2>1. Registering(u) /\ tcl'[u] = tcl[u] /\ tsock'[u] = tsock[u]
    <3>1. CASE u # t
      BY <1>3, <3>1 DEF Moves, Registering
    <3> QED BY <1>3, <3>1
  <2>2. /\ tcl[u] # Nobody /\ Unlisted(tcl[u]) /\ fd[tsock[u]] = tcl[u]
        /\ tsock[u] \in Descriptors
    <3>1. tpc[u] \notin {Home(u), "ended"}
      BY <2>1 DEF Registering, Home
    <3> QED BY <1>a, <1>c, <2>1, <3>1, ClientAssumption DEF ThreadsInv
  <2>3. tsock[u] # x \/ fd[x] = Nobody
    <3>1. CASE i \in Active
      BY <1>g, <2>2, <3>1 DEF Unlisted
    <3> QED BY <1>f, <3>1
  <2> QED BY <1>x, <2>1, <2>2, <2>3
<1> QED BY <1>1, <1>2, <1>3

(***************************************************************************)
(* The threads that register clients, and the listener.                    *)
(***************************************************************************)
Places == {"accept", "recv", "check", "insert", "wait", "lookup", "handle",
           "ended"}

\* Thread t moves to place p, with descriptor x and client d.
LEMMA MovesTo ==
  ASSUME IInv, setup' = setup, NEW t \in Registrars, NEW p \in Places,
         NEW x \in 0 .. MaxDescriptors, NEW d \in Clients \cup {Nobody},
         tpc' = [tpc EXCEPT ![t] = p], tsock' = [tsock EXCEPT ![t] = x],
         tcl' = [tcl EXCEPT ![t] = d],
         msg' \in Message, lid' \in Slots \cup {-1},
         t # "listener" =>
           /\ msg' = msg /\ lid' = lid
           /\ p \in {"accept", "recv", "check", "insert", "ended"},
         t = "listener" =>
           /\ p # "accept"
           /\ p = "handle" => lid' \in Slots \/ msg'.type = "UNREGISTER",
         ~Datagram /\ p \notin {Home(t), "ended"} => x \in Descriptors,
         Registering(t)' => MayRegister(t, d)
  PROVE  Moves(t, d) /\ ThreadTypes' /\ tsock'[t] = x
<1>a. ThreadTypes
  BY Basics
<1>b. Slots' = Slots
  BY SameSetup
<1>1. /\ tpc'[t] = p /\ tsock'[t] = x /\ tcl'[t] = d
      /\ \A u \in Registrars \ {t} : /\ tpc'[u] = tpc[u] /\ tcl'[u] = tcl[u]
                                     /\ tsock'[u] = tsock[u]
  BY <1>a DEF ThreadTypes
<1>2. ThreadTypes'
  BY <1>a, <1>b DEF ThreadTypes, Places
<1> QED BY <1>1, <1>2 DEF Moves

\* A thread goes on to its next iteration.
LEMMA GoesHome ==
  ASSUME IInv, setup' = setup, NEW t \in Registrars, NextIteration(t)
  PROVE  Moves(t, Nobody) /\ ThreadTypes' /\ ~Registering(t)'
<1>a. ThreadTypes
  BY Basics
<1>f. /\ tpc' = [tpc EXCEPT ![t] = Home(t)] /\ tsock' = [tsock EXCEPT ![t] = 0]
      /\ tcl' = [tcl EXCEPT ![t] = Nobody]
      /\ t = "listener" => msg' = NoMsg /\ lid' = -1
      /\ t # "listener" => msg' = msg /\ lid' = lid
  BY DEF NextIteration, MoveTo
<1>1. NoMsg \in Message /\ 0 \in 0 .. MaxDescriptors
  BY LimitAssumption DEF NoMsg, Msg, Message, Types
<1>2. msg' \in Message /\ lid' \in Slots \cup {-1}
  BY <1>a, <1>f, <1>1 DEF ThreadTypes
<1>3. /\ Home(t) \in Places
      /\ t = "listener" => Home(t) = "wait"
      /\ t # "listener" => Home(t) = "accept"
  BY DEF Home, Places
<1>4. tpc'[t] = Home(t)
  BY <1>a, <1>f DEF ThreadTypes
<1>5. ~Registering(t)'
  BY <1>3, <1>4 DEF Registering
<1> QED BY <1>1, <1>2, <1>3, <1>5, <1>f, MovesTo

\* A step of thread t that leaves sockets and list alone, but for the counter
\* of a slot, and takes or sends one message at most.
threadKept == <<setup, cst, netVars, free_cl, mx, pingerVars, mainVars,
                cancelled, historyVars>>
LEMMA ThreadKeeps ==
  ASSUME IInv, Mail, NEW t \in Registrars, NEW c, Moves(t, c), ThreadTypes',
         UNCHANGED threadKept,
         \/ clients' = clients
         \/ \E i \in Slots : clients' = [clients EXCEPT ![i].cl_inactivity = 0],
         toServer' \in [Clients -> Seq(Message)],
         toClient' \in [Clients -> Seq(Message)],
         srv' \in {"up", "down"}, out' \subseteq 0 .. MaxRequests,
         ~Datagram /\ ~misclosed /\ mpc \in {"prompt", "send"} /\ Registering(t)'
           => fd[tsock'[t]] = c
  PROVE  IInv'
<1>a. NetTypes /\ ListTypes /\ LoopTypes /\ IndexInv
  BY Basics
<1>f. /\ setup' = setup /\ cst' = cst /\ sock' = sock
      /\ fd' = fd /\ polled' = polled /\ free_cl' = free_cl /\ mx' = mx
      /\ ppc' = ppc /\ pi' = pi /\ pread' = pread
      /\ mpc' = mpc /\ clid' = clid /\ request_id' = request_id
      /\ cancelled' = cancelled /\ missed' = missed /\ misclosed' = misclosed
  BY DEF threadKept, netVars, pingerVars, mainVars, historyVars
<1>r. clients \in [Slots -> [cl_active : BOOLEAN,
                             addr : Clients \cup {Nobody},
                             cl_sock : 0 .. MaxDescriptors,
                             cl_inactivity : 0 .. INACTIVITY_MAX + 1]]
  BY <1>a DEF ListTypes
<1>1. /\ clients' \in [Slots -> [cl_active : BOOLEAN,
                             addr : Clients \cup {Nobody},
                             cl_sock : 0 .. MaxDescriptors,
                             cl_inactivity : 0 .. INACTIVITY_MAX + 1]]
      /\ \A i \in Slots : /\ clients'[i].addr = clients[i].addr
                          /\ clients'[i].cl_sock = clients[i].cl_sock
                          /\ clients'[i].cl_active = clients[i].cl_active
  <2>1. CASE clients' = clients
    BY <1>r, <2>1
  <2>2. CASE \E i \in Slots : clients' = [clients EXCEPT ![i].cl_inactivity = 0]
    <3>1. 0 \in 0 .. INACTIVITY_MAX + 1
      BY LimitAssumption
    <3>2. PICK k \in Slots : clients' = [clients EXCEPT ![k].cl_inactivity = 0]
      BY <2>2
    <3> QED BY <1>r, <3>1, <3>2
  <2> QED BY <2>1, <2>2
<1>2. NetTypes' /\ ListTypes' /\ LoopTypes' /\ IndexInv'
  BY <1>a, <1>f, <1>1, SameSetup DEF NetTypes, ListTypes, LoopTypes, IndexInv
<1>3. Calm(t, c)
  BY <1>f, <1>1 DEF Calm, Forward
<1> QED BY <1>2, <1>3, <1>f, CalmKeeps

\* The steps after which a thread is at its next iteration.
LEMMA IterationsKeep ==
  ASSUME IInv, NEW t \in Registrars, NextIteration(t), UNCHANGED threadKept,
         \/ clients' = clients
         \/ \E i \in Slots : clients' = [clients EXCEPT ![i].cl_inactivity = 0],
         \/ toServer' = toServer
         \/ \E c \in Clients : toServer[c] # <<>>
              /\ toServer' = [toServer EXCEPT ![c] = Tail(@)],
         toClient' \in [Clients -> Seq(Message)],
         srv' \in {"up", "down"}, out' \subseteq 0 .. MaxRequests
  PROVE  IInv'
<1>a. NetTypes
  BY Basics
<1>f. setup' = setup /\ cst' = cst
  BY DEF threadKept
<1>1. Mail /\ toServer' \in [Clients -> Seq(Message)]
  BY <1>a, <1>f, MailKept, MailTaken DEF NetTypes
<1>2. Moves(t, Nobody) /\ ThreadTypes' /\ ~Registering(t)'
  BY <1>f, GoesHome
<1> QED BY <1>1, <1>2, ThreadKeeps

\* A thread ends.
LEMMA ThreadEndsKeeps ==
  ASSUME IInv, NEW t \in Registrars \cup {"pinger"}, ThreadEnds(t)
  PROVE  IInv'
<1>a. NetTypes /\ ThreadTypes /\ LoopTypes /\ IndexInv
  BY Basics
<1>f. /\ UNCHANGED <<setup, clientVars, netVars, clients, free_cl, mx, mainVars,
                     cancelled, srv, out, historyVars>>
      /\ tsock' = tsock /\ tcl' = tcl /\ msg' = msg /\ lid' = lid
      /\ pi' = pi /\ pread' = pread
  BY DEF ThreadEnds
<1>g. /\ setup' = setup /\ cst' = cst /\ toServer' = toServer
      /\ toClient' = toClient /\ mpc' = mpc /\ clid' = clid
      /\ request_id' = request_id /\ misclosed' = misclosed
  BY <1>f DEF clientVars, mainVars, historyVars
<1>1. CASE t = "pinger"
  <2>1. ppc' = "ended" /\ tpc' = tpc
    BY <1>1 DEF ThreadEnds
  <2>2. UNCHANGED quietVars
    BY <1>f, <1>g, <2>1 DEF quietVars, threadVars
  <2>3. LoopTypes' /\ IndexInv'
    BY <1>a, <1>f, <1>g, <2>1, SameSetup DEF LoopTypes, IndexInv
  <2> QED BY <1>a, <1>g, <2>2, <2>3, QuietKeeps DEF Forward, NetTypes
<1>2. CASE t # "pinger"
  <2>1. t \in Registrars /\ tpc' = [tpc EXCEPT ![t] = "ended"] /\ ppc' = ppc
    BY <1>2 DEF ThreadEnds, MoveTo
  <2>2. Mail
    BY <1>g, MailKept
  <2>3. /\ tsock[t] \in 0 .. MaxDescriptors /\ tcl[t] \in Clients \cup {Nobody}
        /\ tsock' = [tsock EXCEPT ![t] = tsock[t]]
        /\ tcl' = [tcl EXCEPT ![t] = tcl[t]]
        /\ msg' \in Message /\ lid' \in Slots \cup {-1}
        /\ tpc'[t] = "ended"
    BY <1>a, <1>f, <2>1 DEF ThreadTypes
  <2>4. ~Registering(t)'
    BY <2>3 DEF Registering
  <2>5. Moves(t, tcl[t]) /\ ThreadTypes'
    <3> DEFINE x == tsock[t]
               d == tcl[t]
    <3>1. x \in 0 .. MaxDescriptors /\ d \in Clients \cup {Nobody}
      BY <2>3
    <3>2. tsock' = [tsock EXCEPT ![t] = x] /\ tcl' = [tcl EXCEPT ![t] = d]
      BY <2>3
    <3>3. "ended" \in Places
      BY DEF Places
    <3> HIDE DEF x, d
    <3>4. Moves(t, d) /\ ThreadTypes'
      BY <1>f, <1>g, <2>1, <2>3, <2>4, <3>1, <3>2, <3>3, MovesTo
    <3> QED BY <3>4 DEF d
  <2>6. UNCHANGED threadKept
    BY <1>f, <1>g, <2>1 DEF threadKept, pingerVars
  <2> QED BY <1>a, <1>f, <1>g, <2>1, <2>2, <2>4, <2>5, <2>6, ThreadKeeps
          DEF NetTypes, LoopTypes
<1> QED BY <1>1, <1>2

\* accept, of a client whose stream is pending: an unused descriptor is its.
LEMMA AcceptKeeps ==
  ASSUME IInv, NEW t \in Registrars, NEW c \in Clients, Accept(t, c)
  PROVE  IInv'
<1>a. NetTypes /\ ListTypes /\ ThreadTypes /\ LoopTypes /\ IndexInv /\ ThreadsInv
  BY Basics
<1> DEFINE free == {y \in Descriptors : fd[y] = Nobody}
           x == LowestOf(free)
<1>f. /\ setup' = setup /\ cst' = cst /\ toServer' = toServer
      /\ toClient' = toClient /\ polled' = polled /\ clients' = clients
      /\ free_cl' = free_cl /\ mx' = mx /\ tcl' = tcl /\ msg' = msg /\ lid' = lid
      /\ ppc' = ppc /\ pi' = pi /\ pread' = pread /\ mpc' = mpc /\ clid' = clid
      /\ request_id' = request_id /\ cancelled' = cancelled /\ srv' = srv
      /\ out' = out /\ missed' = missed /\ misclosed' = misclosed
      /\ t # "listener"
      /\ tpc' = [tpc EXCEPT ![t] = "recv"]
      /\ sock' = [sock EXCEPT ![c] = "open"]
      /\ x \in Descriptors /\ fd' = [fd EXCEPT ![x] = c]
      /\ tsock' = [tsock EXCEPT ![t] = x]
  BY DEF Accept, Accepters, MoveTo, clientVars, otherVars, pingerVars, mainVars,
     historyVars
<1>1. x \in free
  <2>1. free \subseteq Nat
    BY DEF Descriptors
  <2>2. free # {}
    <3>1. -1 \notin Descriptors
      BY DEF Descriptors
    <3> HIDE DEF free
    <3> QED BY <1>f, <2>1, <3>1, LowestIsLowest
  <2> HIDE DEF free
  <2> QED BY <2>1, <2>2, LowestIsLowest
<1>2. fd[x] = Nobody
  BY <1>1
<1> HIDE DEF x
<1>3. Mail
  BY <1>f, MailKept
<1>4. tcl[t] \in Clients \cup {Nobody} /\ tcl' = [tcl EXCEPT ![t] = tcl[t]]
      /\ tpc'[t] = "recv" /\ x \in 0 .. MaxDescriptors
      /\ msg' \in Message /\ lid' \in Slots \cup {-1}
  BY <1>a, <1>f DEF ThreadTypes, Descriptors
<1>5. ~Registering(t)'
  BY <1>4 DEF Registering
<1>6. Moves(t, tcl[t]) /\ ThreadTypes'
  <2> DEFINE d == tcl[t]
  <2>1. d \in Clients \cup {Nobody} /\ tcl' = [tcl EXCEPT ![t] = d]
    BY <1>4
  <2>2. "recv" \in Places
    BY DEF Places
  <2> HIDE DEF d
  <2>3. Moves(t, d) /\ ThreadTypes'
    BY <1>f, <1>4, <1>5, <2>1, <2>2, MovesTo
  <2> QED BY <2>3 DEF d
<1>7. NetTypes' /\ ListTypes' /\ LoopTypes' /\ IndexInv'
  BY <1>a, <1>f, SameSetup DEF NetTypes, ListTypes, LoopTypes, IndexInv
<1>8. Calm(t, tcl[t])
  <2>1. \A y \in Descriptors : fd'[y] = fd[y] \/ fd[y] = Nobody
    BY <1>a, <1>f, <1>2 DEF NetTypes
  <2> QED BY <1>f, <1>5, <2>1 DEF Calm, Forward
<1> QED BY <1>3, <1>6, <1>7, <1>8, <1>f, CalmKeeps

\* A thread receives the first message of the connection it accepted.
LEMMA ReceiveNameKeeps ==
  ASSUME IInv, NEW t \in Registrars, ReceiveName(t)
  PROVE  IInv'
<1>a. NetTypes /\ ThreadTypes /\ LoopTypes /\ ThreadsInv
  BY Basics
<1> DEFINE c == fd[tsock[t]]
<1>f. /\ setup' = setup /\ cst' = cst /\ toClient' = toClient
      /\ clients' = clients /\ srv' = srv /\ out' = out /\ fd' = fd
      /\ UNCHANGED threadKept
      /\ tpc[t] = "recv" /\ t \in Accepters
      /\ c # Nobody /\ toServer[c] # <<>>
      /\ toServer' = [toServer EXCEPT ![c] = Tail(@)]
      /\ IF Head(toServer[c]).type = "REGISTER"
         THEN /\ tpc' = [tpc EXCEPT ![t] = "check"]
              /\ tcl' = [tcl EXCEPT ![t] = c]
              /\ UNCHANGED <<tsock, msg, lid>>
         ELSE NextIteration(t)
  BY DEF ReceiveName, Running, MoveTo, ServerReceives, netVars, otherVars,
     threadKept
<1>1. t \in {"net", "local"} /\ t # "listener" /\ ~Datagram
  BY <1>f DEF Accepters
<1>2. tsock[t] \in Descriptors /\ c \in Clients
  <2>1. tsock[t] \in Descriptors
    BY <1>a, <1>f, <1>1 DEF ThreadsInv, Home
  <2> QED BY <1>a, <1>f, <2>1 DEF NetTypes
<1> HIDE DEF c
<1>3. /\ Mail
      /\ toServer' \in [Clients -> Seq(Message)]
      /\ Head(toServer[c]).type = "REGISTER" => MayRegister(t, c)
  BY <1>f, <1>2, MailTaken, FirstComer
<1>4. toClient' \in [Clients -> Seq(Message)] /\ srv' \in {"up", "down"}
      /\ out' \subseteq 0 .. MaxRequests
  BY <1>a, <1>f DEF NetTypes, LoopTypes
<1>5. CASE Head(toServer[c]).type = "REGISTER"
  <2> DEFINE x == tsock[t]
  <2>1. /\ x \in Descriptors /\ x \in 0 .. MaxDescriptors
        /\ tsock' = [tsock EXCEPT ![t] = x]
        /\ msg' = msg /\ lid' = lid /\ msg' \in Message /\ lid' \in Slots \cup {-1}
        /\ tpc' = [tpc EXCEPT ![t] = "check"] /\ tcl' = [tcl EXCEPT ![t] = c]
    BY <1>a, <1>f, <1>2, <1>5 DEF ThreadTypes
  <2>2. "check" \in Places
    BY DEF Places
  <2>3. fd[x] = c
    BY DEF c
  <2> HIDE DEF x
  <2>4. Moves(t, c) /\ ThreadTypes' /\ tsock'[t] = x
    BY <1>f, <1>1, <1>2, <1>3, <1>5, <2>1, <2>2, MovesTo
  <2> QED BY <1>3, <1>4, <1>f, <2>3, <2>4, ThreadKeeps
<1>6. CASE Head(toServer[c]).type # "REGISTER"
  <2>1. NextIteration(t)
    BY <1>f, <1>6
  <2>2. \E d \in Clients : /\ toServer[d] # <<>>
                           /\ toServer' = [toServer EXCEPT ![d] = Tail(@)]
    BY <1>f, <1>2
  <2> QED BY <1>4, <1>f, <2>1, <2>2, IterationsKeep
<1> QED BY <1>5, <1>6

\* Nothing is received, or the list is full.
LEMMA GivesUpKeeps ==
  ASSUME IInv, NEW t \in Registrars, ReceiveTimeout(t) \/ TooManyConnections(t)
  PROVE  IInv'
<1>1. /\ NextIteration(t) /\ UNCHANGED threadKept /\ clients' = clients
      /\ toServer' = toServer /\ toClient' = toClient /\ srv' = srv /\ out' = out
  BY DEF ReceiveTimeout, TooManyConnections, threadKept, clientVars, otherVars
<1>2. toClient' \in [Clients -> Seq(Message)] /\ srv' \in {"up", "down"}
      /\ out' \subseteq 0 .. MaxRequests
  BY <1>1, Basics DEF NetTypes, LoopTypes
<1> QED BY <1>1, <1>2, IterationsKeep

\* A name is taken, or the thread goes on to fill a slot.
LEMMA CheckNameKeeps ==
  ASSUME IInv, NEW t \in Registrars, CheckName(t)
  PROVE  IInv'
<1>a. NetTypes /\ ThreadTypes /\ LoopTypes /\ ThreadsInv /\ OwnInv
  BY Basics
<1>f. /\ setup' = setup /\ cst' = cst /\ toServer' = toServer
      /\ clients' = clients /\ out' = out /\ fd' = fd /\ mpc' = mpc
      /\ UNCHANGED threadKept /\ tpc[t] = "check"
      /\ \/ ServerSends(Caller(t), Msg("NAMEINUSE")) /\ NextIteration(t)
         \/ /\ tpc' = [tpc EXCEPT ![t] = "insert"]
            /\ UNCHANGED <<toClient, srv, tsock, tcl, msg, lid>>
  BY DEF CheckName, Running, MoveTo, netVars, otherVars, threadKept, mainVars
<1>1. out' \subseteq 0 .. MaxRequests
  BY <1>a, <1>f DEF LoopTypes
<1>2. CASE ServerSends(Caller(t), Msg("NAMEINUSE")) /\ NextIteration(t)
  <2>1. Msg("NAMEINUSE") \in Message
    BY LimitAssumption DEF Msg, Message, Types
  <2>2. toClient' \in [Clients -> Seq(Message)] /\ srv' \in {"up", "down"}
    BY <1>2, <2>1, ServerSendsType
  <2> QED BY <1>1, <1>2, <1>f, <2>2, IterationsKeep
<1>3. CASE /\ tpc' = [tpc EXCEPT ![t] = "insert"]
           /\ UNCHANGED <<toClient, srv, tsock, tcl, msg, lid>>
  <2> DEFINE x == tsock[t]
             d == tcl[t]
  <2>1. Mail
    BY <1>f, MailKept
  <2>2. Registering(t)
    BY <1>f DEF Registering
  <2>3. MayRegister(t, d) /\ d \in Clients
    BY <1>a, <2>1, <2>2, GoesOn DEF ThreadsInv
  <2>4. ~Datagram => x \in Descriptors
    BY <1>a, <1>f DEF ThreadsInv, Home
  <2>5. /\ x \in 0 .. MaxDescriptors
        /\ tsock' = [tsock EXCEPT ![t] = x] /\ tcl' = [tcl EXCEPT ![t] = d]
        /\ msg' = msg /\ lid' = lid /\ msg' \in Message /\ lid' \in Slots \cup {-1}
    BY <1>a, <1>3 DEF ThreadTypes
  <2>6. "insert" \in Places
    BY DEF Places
  <2>7. ~Datagram /\ ~misclosed /\ mpc \in {"prompt", "send"} => fd[x] = d
    BY <1>a, <2>2 DEF OwnInv
  <2>8. /\ toServer' \in [Clients -> Seq(Message)]
        /\ toClient' \in [Clients -> Seq(Message)] /\ srv' \in {"up", "down"}
    BY <1>a, <1>f, <1>3 DEF NetTypes, LoopTypes
  <2> HIDE DEF x, d
  <2>9. Moves(t, d) /\ ThreadTypes' /\ tsock'[t] = x
    BY <1>f, <1>3, <2>3, <2>4, <2>5, <2>6, MovesTo
  <2> QED BY <1>1, <1>f, <2>1, <2>7, <2>8, <2>9, ThreadKeeps
<1> QED BY <1>2, <1>3, <1>f

\* The listener sees a descriptor that has data or has been closed.
LEMMA WaitForMessageKeeps ==
  ASSUME IInv, NEW x \in Descriptors, WaitForMessage(x)
  PROVE  IInv'
<1>a. NetTypes /\ ThreadTypes /\ LoopTypes
  BY Basics
<1>f. /\ setup' = setup /\ cst' = cst /\ toServer' = toServer
      /\ toClient' = toClient
      /\ clients' = clients /\ srv' = srv /\ out' = out
      /\ UNCHANGED threadKept
      /\ tpc' = [tpc EXCEPT !["listener"] = "recv"]
      /\ tsock' = [tsock EXCEPT !["listener"] = x]
      /\ tcl' = tcl /\ msg' = msg /\ lid' = lid
  BY DEF WaitForMessage, MoveTo, clientVars, otherVars, threadKept
<1> DEFINE d == tcl["listener"]
<1>1. "listener" \in Registrars /\ "recv" \in Places
  BY DEF Registrars, Places
<1>2. /\ x \in 0 .. MaxDescriptors /\ d \in Clients \cup {Nobody}
      /\ tcl' = [tcl EXCEPT !["listener"] = d] /\ tpc'["listener"] = "recv"
      /\ msg' \in Message /\ lid' \in Slots \cup {-1}
  BY <1>a, <1>f, <1>1 DEF ThreadTypes, Descriptors
<1>3. ~Registering("listener")'
  BY <1>2 DEF Registering
<1>4. Mail
  BY <1>f, MailKept
<1>5. /\ toServer' \in [Clients -> Seq(Message)]
      /\ toClient' \in [Clients -> Seq(Message)] /\ srv' \in {"up", "down"}
      /\ out' \subseteq 0 .. MaxRequests
  BY <1>a, <1>f DEF NetTypes, LoopTypes
<1> HIDE DEF d
<1>6. Moves("listener", d) /\ ThreadTypes'
  BY <1>f, <1>1, <1>2, <1>3, MovesTo
<1> QED BY <1>1, <1>3, <1>4, <1>5, <1>6, <1>f, ThreadKeeps

\* The listener receives a message.
LEMMA ReceiveMessageKeeps ==
  ASSUME IInv, NEW c \in Clients, ReceiveMessage(c)
  PROVE  IInv'
<1>a. NetTypes /\ ThreadTypes /\ LoopTypes /\ ThreadsInv
  BY Basics
<1>f. /\ setup' = setup /\ cst' = cst /\ toClient' = toClient
      /\ clients' = clients /\ srv' = srv /\ out' = out
      /\ UNCHANGED threadKept
      /\ toServer[c] # <<>> /\ toServer' = [toServer EXCEPT ![c] = Tail(@)]
      /\ msg' = Head(toServer[c])
      /\ tpc' = [tpc EXCEPT !["listener"] = "lookup"]
      /\ tcl' = [tcl EXCEPT !["listener"] = c]
      /\ tsock' = tsock /\ lid' = lid
      /\ ~Datagram => /\ tpc["listener"] = "recv"
                      /\ c = fd[tsock["listener"]]
  BY DEF ReceiveMessage, Running, MoveTo, ServerReceives, netVars, otherVars,
     threadKept
<1> DEFINE x == tsock["listener"]
<1>1. "listener" \in Registrars /\ "lookup" \in Places /\ Home("listener") = "wait"
  BY DEF Registrars, Places, Home
<1>2. /\ x \in 0 .. MaxDescriptors /\ tsock' = [tsock EXCEPT !["listener"] = x]
      /\ lid' \in Slots \cup {-1} /\ tpc'["listener"] = "lookup"
      /\ ~Datagram => x \in Descriptors /\ fd[x] = c
  BY <1>a, <1>f, <1>1 DEF ThreadTypes, ThreadsInv
<1>3. /\ Mail /\ msg' \in Message
      /\ toServer' \in [Clients -> Seq(Message)]
      /\ msg'.type = "REGISTER" => MayRegister("listener", c)
  BY <1>f, <1>1, MailTaken, FirstComer
<1>4. Registering("listener")' => MayRegister("listener", c)
  BY <1>2, <1>3 DEF Registering
<1>5. toClient' \in [Clients -> Seq(Message)] /\ srv' \in {"up", "down"}
      /\ out' \subseteq 0 .. MaxRequests
  BY <1>a, <1>f DEF NetTypes, LoopTypes
<1> HIDE DEF x
<1>6. Moves("listener", c) /\ ThreadTypes' /\ tsock'["listener"] = x
  BY <1>f, <1>1, <1>2, <1>3, <1>4, MovesTo
<1> QED BY <1>1, <1>2, <1>3, <1>5, <1>6, <1>f, ThreadKeeps

\* The listener looks the sender up.
LEMMA LookUpKeeps ==
  ASSUME IInv, LookUp
  PROVE  IInv'
<1>a. NetTypes /\ ListTypes /\ ThreadTypes /\ LoopTypes /\ ThreadsInv /\ OwnInv
      /\ Slots \subseteq Nat
  BY Basics
<1> DEFINE id == IF Datagram THEN client_for_addr(tcl["listener"])
                 ELSE client_for_sock(tsock["listener"])
           p == IF msg.type = "REGISTER" THEN "check" ELSE "handle"
           x == tsock["listener"]
           d == tcl["listener"]
<1>f. /\ setup' = setup /\ cst' = cst /\ toServer' = toServer
      /\ toClient' = toClient /\ fd' = fd
      /\ clients' = clients /\ srv' = srv /\ out' = out
      /\ UNCHANGED threadKept /\ tpc["listener"] = "lookup"
  BY DEF LookUp, Running, clientVars, netVars, otherVars, threadKept
<1>g. \/ NextIteration("listener")
      \/ /\ ~(id < 0 /\ msg.type \notin {"REGISTER", "UNREGISTER"})
         /\ lid' = id /\ tpc' = [tpc EXCEPT !["listener"] = p]
         /\ UNCHANGED <<tsock, tcl, msg>>
  BY DEF LookUp, MoveTo
<1>1. "listener" \in Registrars /\ p \in Places /\ Home("listener") = "wait"
      /\ p \in {"check", "handle"}
  BY DEF Registrars, Places, Home
<1>2. /\ toServer' \in [Clients -> Seq(Message)]
      /\ toClient' \in [Clients -> Seq(Message)] /\ srv' \in {"up", "down"}
      /\ out' \subseteq 0 .. MaxRequests
  BY <1>a, <1>f DEF NetTypes, LoopTypes
<1>3. CASE NextIteration("listener")
  BY <1>1, <1>2, <1>3, <1>f, IterationsKeep
<1>4. CASE /\ ~(id < 0 /\ msg.type \notin {"REGISTER", "UNREGISTER"})
           /\ lid' = id /\ tpc' = [tpc EXCEPT !["listener"] = p]
           /\ UNCHANGED <<tsock, tcl, msg>>
  <2>1. id \in Slots \cup {-1}
    <3>1. ASSUME NEW S, S \subseteq Slots
          PROVE  LowestOf(S) \in Slots \cup {-1}
      BY <1>a, <3>1, LowestIsLowest
    <3> QED BY <3>1 DEF client_for_addr, client_for_sock, Active
  <2> HIDE DEF id
  <2>2. Mail
    BY <1>f, MailKept
  <2>3. /\ x \in 0 .. MaxDescriptors /\ d \in Clients \cup {Nobody}
        /\ tsock' = [tsock EXCEPT !["listener"] = x]
        /\ tcl' = [tcl EXCEPT !["listener"] = d]
        /\ msg' = msg /\ msg' \in Message /\ lid' \in Slots \cup {-1}
        /\ tpc'["listener"] = p
    BY <1>a, <1>1, <1>4, <2>1 DEF ThreadTypes
  <2>4. p = "handle" => lid' \in Slots \/ msg'.type = "UNREGISTER"
    BY <1>4, <1>a, <2>1, <2>3
  <2>5. ~Datagram => x \in Descriptors
    BY <1>a, <1>f, <1>1 DEF ThreadsInv
  <2>6. Registering("listener")' =>
          /\ Registering("listener") /\ MayRegister("listener", d)
          /\ ~Datagram /\ ~misclosed /\ mpc \in {"prompt", "send"} => fd[x] = d
    <3> SUFFICES ASSUME Registering("listener")'
                 PROVE  /\ Registering("listener")
                        /\ MayRegister("listener", d)
                        /\ ~Datagram /\ ~misclosed /\ mpc \in {"prompt", "send"}
                             => fd[x] = d
      OBVIOUS
    <3>1. Registering("listener")
      <4>1. p # "handle"
        BY <2>3 DEF Registering
      <4>2. msg.type = "REGISTER"
        BY <4>1
      <4> QED BY <1>f, <4>2 DEF Registering
    <3>2. MayRegister("listener", d)
      BY <1>1, <2>2, <3>1, GoesOn
    <3> QED BY <1>1, <1>a, <3>1, <3>2 DEF OwnInv
  <2> HIDE DEF p, x, d
  <2>7. Moves("listener", d) /\ ThreadTypes' /\ tsock'["listener"] = x
    BY <1>f, <1>1, <1>4, <2>3, <2>4, <2>5, <2>6, MovesTo
  <2> QED BY <1>1, <1>2, <1>f, <2>2, <2>6, <2>7, ThreadKeeps
<1> QED BY <1>3, <1>4, <1>g

\* The listener handles a pong or a response.
LEMMA HandleKeeps ==
  ASSUME IInv, HandlePong \/ HandleResponse
  PROVE  IInv'
<1>a. NetTypes /\ ThreadTypes /\ LoopTypes /\ ThreadsInv
  BY Basics
<1>1. "listener" \in Registrars
  BY DEF Registrars
<1>2. CASE HandlePong
  <2>1. /\ NextIteration("listener") /\ UNCHANGED threadKept
        /\ toServer' = toServer /\ toClient' = toClient /\ srv' = srv
        /\ out' = out
        /\ clients' = [clients EXCEPT ![lid].cl_inactivity = 0]
        /\ tpc["listener"] = "handle" /\ msg.type = "PONG"
    BY <1>2 DEF HandlePong, Running, threadKept, clientVars, otherVars
  <2>2. lid \in Slots
    BY <1>a, <2>1 DEF ThreadsInv
  <2> QED BY <1>1, <1>a, <2>1, <2>2, IterationsKeep DEF NetTypes, LoopTypes
<1>3. CASE HandleResponse
  <2>1. /\ NextIteration("listener") /\ UNCHANGED threadKept
        /\ toServer' = toServer /\ toClient' = toClient /\ srv' = srv
        /\ clients' = clients /\ out' = out \cup {msg.id}
    BY <1>3 DEF HandleResponse, threadKept, clientVars
  <2>2. msg.id \in 0 .. MaxRequests
    BY <1>a DEF ThreadTypes, Message
  <2>3. out' \subseteq 0 .. MaxRequests
    BY <1>a, <2>1, <2>2 DEF LoopTypes
  <2> QED BY <1>1, <1>a, <2>1, <2>3, IterationsKeep DEF NetTypes, LoopTypes
<1> QED BY <1>2, <1>3

\* A slot is dropped.
LEMMA DropKeeps ==
  ASSUME IInv, NEW i \in Slots, Drop(i), NEW t \in Registrars, NEW c,
         Moves(t, c), ThreadTypes', LoopTypes', IndexInv',
         UNCHANGED <<setup, clientVars, free_cl, mpc, missed>>,
         Registering(t)' => /\ Registering(t) /\ tcl'[t] = tcl[t]
                            /\ tsock'[t] = tsock[t],
         misclosed' \in BOOLEAN, misclosed => misclosed',
         ~Datagram /\ i \notin Active /\ fd[clients[i].cl_sock] # Nobody
           => misclosed'
  PROVE  IInv'
<1>a. NetTypes /\ ListTypes /\ ThreadTypes
  BY Basics
<1>f. cst' = cst /\ toServer' = toServer /\ toClient' = toClient
  BY DEF clientVars
<1>r. clients \in [Slots -> [cl_active : BOOLEAN,
                             addr : Clients \cup {Nobody},
                             cl_sock : 0 .. MaxDescriptors,
                             cl_inactivity : 0 .. INACTIVITY_MAX + 1]]
  BY <1>a DEF ListTypes
<1>1. /\ clients' \in [Slots -> [cl_active : BOOLEAN,
                             addr : Clients \cup {Nobody},
                             cl_sock : 0 .. MaxDescriptors,
                             cl_inactivity : 0 .. INACTIVITY_MAX + 1]]
      /\ \A j \in Slots : /\ clients'[j].addr = clients[j].addr
                          /\ clients'[j].cl_active => clients[j].cl_active
  <2>1. clients' = [clients EXCEPT ![i].cl_active = FALSE]
    BY DEF Drop
  <2> QED BY <1>r, <2>1
<1>2. Mail
  BY <1>f, MailKept
<1>3. ThreadsInv' /\ SlotsInv'
  <2>1. Lists(t)
    BY <1>1 DEF Lists
  <2> QED BY <1>2, <2>1, RegistrationKept
<1>4. OwnInv'
  BY OwnDrop
<1>5. NetTypes' /\ ListTypes'
  <2>1. /\ sock' \in [Clients -> {"none", "pending", "open", "closed", "reset"}]
        /\ fd' \in [Descriptors -> Clients \cup {Nobody}]
        /\ polled' \subseteq Descriptors
    BY CloseSockEffect DEF Drop
  <2> QED BY <1>a, <1>f, <1>1, <2>1, SameSetup DEF NetTypes, ListTypes
<1>6. TypeOK'
  BY <1>5 DEF TypeOK, NetTypes, ListTypes, ThreadTypes, LoopTypes
<1>7. TurnsCome'
  BY <1>1, TurnsKept
<1> QED BY <1>2, <1>3, <1>4, <1>6, <1>7 DEF IInv, Mail

\* unregister_client in the listener, on a slot that may be empty by now.
LEMMA HandleUnregisterKeeps ==
  ASSUME IInv, HandleUnregister
  PROVE  IInv'
<1>a. NetTypes /\ ListTypes /\ ThreadTypes /\ LoopTypes /\ IndexInv
  BY Basics
<1>f. /\ setup' = setup /\ UNCHANGED clientVars /\ free_cl' = free_cl
      /\ UNCHANGED otherVars /\ mx' = mx /\ srv' = srv /\ missed' = missed
      /\ NextIteration("listener")
  BY DEF HandleUnregister, otherVars
<1>g. /\ toServer' = toServer /\ toClient' = toClient /\ out' = out
      /\ mpc' = mpc /\ clid' = clid /\ request_id' = request_id
      /\ cancelled' = cancelled /\ ppc' = ppc /\ pi' = pi /\ pread' = pread
  BY <1>f DEF clientVars, otherVars, pingerVars, mainVars
<1>1. "listener" \in Registrars
  BY DEF Registrars
<1>2. Moves("listener", Nobody) /\ ThreadTypes' /\ ~Registering("listener")'
  BY <1>1, <1>f, GoesHome
<1>3. LoopTypes' /\ IndexInv'
  BY <1>a, <1>f, <1>g, SameSetup DEF LoopTypes, IndexInv
<1>4. CASE lid >= 0
  <2>1. lid \in Slots
    BY <1>a, <1>4 DEF ThreadTypes
  <2>2. /\ Drop(lid)
        /\ misclosed' = (misclosed \/ /\ ~Datagram /\ lid \notin Active
                                      /\ fd[clients[lid].cl_sock] # Nobody)
    BY <1>4 DEF HandleUnregister
  <2>3. /\ misclosed' \in BOOLEAN /\ misclosed => misclosed'
        /\ ~Datagram /\ lid \notin Active /\ fd[clients[lid].cl_sock] # Nobody
             => misclosed'
    BY <2>2, Zenon
  <2> QED BY <1>1, <1>2, <1>3, <1>f, <1>g, <2>1, <2>2, <2>3, DropKeeps
<1>5. CASE ~(lid >= 0)
  <2>1. UNCHANGED <<clients, netVars, misclosed>>
    BY <1>5 DEF HandleUnregister
  <2>2. UNCHANGED threadKept /\ clients' = clients
    BY <1>f, <2>1 DEF threadKept, clientVars, otherVars, historyVars
  <2> QED BY <1>1, <1>a, <1>f, <1>g, <2>2, IterationsKeep DEF NetTypes, LoopTypes
<1> QED BY <1>4, <1>5

\* The pinger drops a slot.
LEMMA DropInactiveKeeps ==
  ASSUME IInv, DropInactive
  PROVE  IInv'
<1>a. NetTypes /\ ListTypes /\ LoopTypes /\ IndexInv
      /\ CLIENTS_MAX \in Nat \ {0} /\ Slots = 0 .. CLIENTS_MAX - 1
  BY Basics
<1>f. /\ setup' = setup /\ UNCHANGED clientVars /\ free_cl' = free_cl /\ mx' = mx
      /\ UNCHANGED threadVars /\ ppc' = ppc /\ pread' = pread
      /\ mpc' = mpc /\ clid' = clid /\ request_id' = request_id
      /\ cancelled' = cancelled /\ srv' = srv /\ out' = out
      /\ missed' = missed /\ misclosed' = misclosed
      /\ pi \in Active /\ Drop(pi) /\ pi' = pi + 1 /\ ppc = "slot"
  BY DEF DropInactive, PingerAt, mainVars, historyVars
<1>1. pi \in Slots /\ pi' \in 0 .. CLIENTS_MAX
  BY <1>a, <1>f DEF Active
<1>2. Mail
  BY <1>f, MailKept DEF clientVars
<1>3. Moves("net", tcl["net"]) /\ ThreadTypes' /\ "net" \in Registrars
  BY <1>2, <1>f, StayPut DEF Registrars
<1>4. LoopTypes' /\ IndexInv'
  BY <1>a, <1>f, <1>1, SameSetup DEF LoopTypes, IndexInv
<1>5. Registering("net")' => /\ Registering("net") /\ tcl'["net"] = tcl["net"]
                             /\ tsock'["net"] = tsock["net"]
  BY <1>f DEF Registering, threadVars
<1>6. misclosed \in BOOLEAN
  BY <1>a DEF ListTypes
<1> QED BY <1>1, <1>3, <1>4, <1>5, <1>6, <1>f, DropKeeps

\* A free slot is filled.  Its descriptor is in no other slot, so epoll_ctl
\* takes it, unless an UNREGISTER has closed it since.
LEMMA InsertKeeps ==
  ASSUME IInv, NEW t \in Registrars, Insert(t)
  PROVE  IInv'
<1>a. /\ NetTypes /\ ListTypes /\ ThreadTypes /\ LoopTypes /\ IndexInv
      /\ ThreadsInv /\ SlotsInv /\ OwnInv
      /\ CLIENTS_MAX \in Nat \ {0} /\ Slots = 0 .. CLIENTS_MAX - 1
      /\ Slots \subseteq Nat
  BY Basics
<1> DEFINE n == client_freeid
           c == tcl[t]
           x == tsock[t]
<1>f. /\ setup' = setup /\ cst' = cst /\ toServer' = toServer
      /\ toClient' = toClient /\ sock' = sock /\ fd' = fd
      /\ free_cl' = free_cl /\ mx' = mx
      /\ ppc' = ppc /\ pi' = pi /\ pread' = pread /\ mpc' = mpc /\ clid' = clid
      /\ request_id' = request_id /\ cancelled' = cancelled /\ out' = out
      /\ misclosed' = misclosed
      /\ tpc[t] = "insert" /\ NextIteration(t) /\ n >= 0
      /\ clients' = [clients EXCEPT ![n] = [cl_active |-> TRUE, addr |-> c,
                                            cl_sock |-> x, cl_inactivity |-> 0]]
      /\ missed' = [missed EXCEPT ![n] = 0]
      /\ AddToPoll(x)
  BY DEF Insert, Running, clientVars, pingerVars, mainVars, otherVars
<1>n. n \in Slots /\ n \notin Active
  <2>1. (Slots \ Active) \subseteq Nat
    BY <1>a
  <2>2. n \in Slots \ Active
    BY <1>f, <2>1, LowestIsLowest DEF client_freeid
  <2> QED BY <2>2
<1> HIDE DEF n
<1>g. /\ Registering(t) /\ c \in Clients /\ c # Nobody /\ Enrolled(c)
      /\ Unlisted(c)
      /\ \A u \in Registrars \ {t} : Registering(u) => tcl[u] # c
  BY <1>a, <1>f, ClientAssumption DEF Registering, ThreadsInv
<1>x. /\ x \in 0 .. MaxDescriptors
      /\ ~Datagram => x \in Descriptors
      /\ ~Datagram /\ mpc \in {"prompt", "send"} /\ ~misclosed => fd[x] = c
  <2>1. tpc[t] \notin {Home(t), "ended"}
    BY <1>f DEF Home
  <2> QED BY <1>a, <1>g, <2>1 DEF ThreadTypes, ThreadsInv, OwnInv
<1>h. Moves(t, Nobody) /\ ThreadTypes' /\ ~Registering(t)'
  BY <1>f, GoesHome
<1> HIDE DEF c, x
<1>r. clients \in [Slots -> [cl_active : BOOLEAN,
                             addr : Clients \cup {Nobody},
                             cl_sock : 0 .. MaxDescriptors,
                             cl_inactivity : 0 .. INACTIVITY_MAX + 1]]
      /\ missed \in [Slots -> Nat]
  BY <1>a DEF ListTypes
<1>o. /\ clients'[n].addr = c /\ clients'[n].cl_sock = x /\ clients'[n].cl_active
      /\ \A i \in Slots \ {n} : clients'[i] = clients[i]
      /\ missed'[n] = 0
      /\ \A i \in Slots \ {n} : missed'[i] = missed[i]
  BY <1>f, <1>n, <1>r
<1>p. /\ polled' \subseteq Descriptors /\ srv' \in {"up", "down"}
      /\ polled' = polled \/ polled' = polled \cup {x}
      /\ ~Datagram /\ fd[x] # Nobody /\ x \notin polled =>
           polled' = polled \cup {x}
  BY <1>a, <1>f, <1>x DEF AddToPoll, NetTypes, LoopTypes
<1>b. /\ Slots' = Slots /\ Datagram' = Datagram
      /\ Active' = {i \in Slots : clients'[i].cl_active}
  BY <1>f, SameSetup
<1>e. Active' = Active \cup {n}
  BY <1>b, <1>n, <1>o DEF Active
<1>1. Mail
  BY <1>f, MailKept
<1>2. ThreadsInv' /\ SlotsInv'
  <2>1. Lists(t)
    <3>1. \A i \in Slots \ {n} : clients'[i].addr # c
      BY <1>g, <1>o DEF Unlisted
    <3> QED BY <1>f, <1>g, <1>h, <1>o, <3>1 DEF Lists, c
  <2> QED BY <1>1, <1>h, <2>1, RegistrationKept
<1>3. OwnInv'
  <2> SUFFICES ASSUME ~Datagram, mpc \in {"prompt", "send"}, ~misclosed
               PROVE  /\ \A i \in Active' : OwnSocket(i)'
                      /\ \A y \in polled' : \E i \in Active' : clients'[i].cl_sock = y
                      /\ \A u \in Registrars :
                           Registering(u)' => fd'[tsock'[u]] = tcl'[u]
    BY <1>b, <1>f DEF OwnInv
  <2>1. /\ \A i \in Active : OwnSocket(i)
        /\ \A y \in polled : \E i \in Active : clients[i].cl_sock = y
        /\ \A u \in Registrars : Registering(u) => fd[tsock[u]] = tcl[u]
    BY <1>a DEF OwnInv
  <2>2. fd[x] = c /\ x \notin polled
    <3>1. ASSUME x \in polled PROVE FALSE
      <4>1. PICK i \in Active : clients[i].cl_sock = x
        BY <2>1, <3>1
      <4>2. clients[i].addr = c
        BY <1>x, <2>1, <4>1 DEF OwnSocket
      <4> QED BY <1>g, <4>2 DEF Unlisted, Active
    <3> QED BY <1>x, <3>1
  <2>3. polled' = polled \cup {x}
    BY <1>g, <1>p, <2>2
  <2>4. ASSUME NEW i \in Active' PROVE OwnSocket(i)'
    <3>1. CASE i = n
      BY <1>f, <1>o, <2>2, <2>3, <3>1 DEF OwnSocket
    <3>2. CASE i # n
      <4>1. i \in Active /\ clients'[i] = clients[i]
        BY <1>e, <1>o, <2>4, <3>2 DEF Active
      <4> QED BY <1>f, <2>1, <2>3, <4>1 DEF OwnSocket
    <3> QED BY <3>1, <3>2
  <2>5. ASSUME NEW y \in polled' PROVE \E i \in Active' : clients'[i].cl_sock = y
    <3>1. CASE y = x
      BY <1>e, <1>o, <3>1
    <3>2. CASE y # x
      <4>1. PICK i \in Active : clients[i].cl_sock = y
        BY <2>1, <2>3, <2>5, <3>2
      <4>2. i # n /\ i \in Slots
        BY <1>n, <4>1 DEF Active
      <4> QED BY <1>e, <1>o, <4>1, <4>2
    <3> QED BY <3>1, <3>2
  <2>6. ASSUME NEW u \in Registrars, Registering(u)'
        PROVE  fd'[tsock'[u]] = tcl'[u]
    <3>1. u # t
      BY <1>h, <2>6
    <3>2. Registering(u) /\ tcl'[u] = tcl[u] /\ tsock'[u] = tsock[u]
      BY <1>h, <2>6, <3>1 DEF Moves, Registering
    <3> QED BY <1>f, <2>1, <3>2
  <2> QED BY <2>4, <2>5, <2>6
<1>4. NetTypes' /\ ListTypes' /\ LoopTypes' /\ IndexInv'
  <2>1. clients' \in [Slots -> [cl_active : BOOLEAN,
                             addr : Clients \cup {Nobody},
                             cl_sock : 0 .. MaxDescriptors,
                             cl_inactivity : 0 .. INACTIVITY_MAX + 1]]
        /\ missed' \in [Slots -> Nat]
    <3>1. 0 \in 0 .. INACTIVITY_MAX + 1 /\ 0 \in Nat
      BY LimitAssumption
    <3> QED BY <1>f, <1>g, <1>n, <1>r, <1>x, <3>1
  <2> QED BY <1>a, <1>f, <1>p, <2>1, SameSetup
          DEF NetTypes, ListTypes, LoopTypes, IndexInv
<1>5. TurnsCome'
  <2>1. \A i \in Slots : clients'[i].cl_active =>
          \/ missed'[i] = 0
          \/ clients[i].cl_active /\ missed'[i] = missed[i]
    BY <1>o
  <2> QED BY <1>f, <2>1, TurnsKept
<1>6. TypeOK'
  BY <1>4, <1>h DEF TypeOK, NetTypes, ListTypes, ThreadTypes, LoopTypes
<1> QED BY <1>1, <1>2, <1>3, <1>4, <1>5, <1>6 DEF IInv, Mail

\* The operator's next request takes the turn of the nearest slot.
LEMMA ReadRequestKeeps ==
  ASSUME IInv, ReadRequest
  PROVE  IInv'
<1>a. /\ NetTypes /\ ListTypes /\ ThreadTypes /\ LoopTypes /\ IndexInv
      /\ OwnInv /\ TurnsCome
      /\ CLIENTS_MAX \in Nat \ {0} /\ Slots = 0 .. CLIENTS_MAX - 1
  BY Basics
<1>f. /\ setup' = setup /\ cst' = cst /\ toServer' = toServer
      /\ toClient' = toClient /\ sock' = sock /\ fd' = fd /\ polled' = polled
      /\ clients' = clients /\ mx' = mx /\ UNCHANGED threadVars
      /\ ppc' = ppc /\ pi' = pi /\ pread' = pread /\ request_id' = request_id
      /\ cancelled' = cancelled /\ srv' = srv /\ out' = out
      /\ misclosed' = misclosed
      /\ clid' = next_free_client /\ free_cl' = next_free_client + 1
      /\ next_free_client >= 0 /\ request_id < setup.requests
      /\ missed' = [i \in Slots |-> IF i \in Active \ {clid'} THEN missed[i] + 1
                                    ELSE 0]
      /\ mpc = "prompt" /\ mpc' = "send"
  BY DEF ReadRequest, MainAt, clientVars, netVars, pingerVars
<1>c. /\ Slots' = Slots /\ CLIENTS_MAX' = CLIENTS_MAX /\ Active' = Active
  BY <1>f, SameSetup DEF Active
<1> DEFINE ahead == {k \in free_cl .. free_cl + CLIENTS_MAX - 1 :
                       clients[k % CLIENTS_MAX].cl_active}
           low == LowestOf(ahead)
<1>e. free_cl \in 0 .. CLIENTS_MAX /\ missed \in [Slots -> Nat]
  BY <1>a DEF ListTypes
<1>d. /\ low \in ahead /\ next_free_client = low % CLIENTS_MAX
      /\ \A k \in ahead : low <= k
  <2>1. ahead \subseteq Nat
    BY <1>a, <1>e
  <2>2. ahead # {}
    BY <1>f DEF next_free_client
  <2> QED
    BY <2>1, <2>2, LowestIsLowest DEF next_free_client
<1> HIDE DEF low
<1>g. /\ next_free_client \in Slots
      /\ low \in free_cl .. free_cl + CLIENTS_MAX - 1
      /\ next_free_client = IF low < CLIENTS_MAX THEN low ELSE low - CLIENTS_MAX
  <2>1. low \in 0 .. 2 * CLIENTS_MAX - 1
    BY <1>a, <1>d, <1>e
  <2>2. low % CLIENTS_MAX = IF low < CLIENTS_MAX THEN low ELSE low - CLIENTS_MAX
    BY <1>a, <2>1, Around, Zenon
  <2> QED
    BY <1>a, <1>d, <2>1, <2>2
<1>1. TurnsCome'
  <2>1. ASSUME NEW i \in Active
        PROVE  missed'[i] + Ahead(i)' < CLIENTS_MAX
    <3>1. i \in Slots /\ missed[i] \in Nat /\ missed[i] + Ahead(i) < CLIENTS_MAX
      BY <1>a, <1>e, <2>1 DEF Active, TurnsCome
    <3>2. Ahead(i)' = IF i >= free_cl' THEN i - free_cl'
                                      ELSE i + CLIENTS_MAX - free_cl'
      BY <1>c DEF Ahead
    <3>3. CASE i = next_free_client
      <4>1. missed'[i] = 0
        BY <1>f, <3>1, <3>3
      <4> QED BY <1>a, <1>f, <1>g, <3>1, <3>2, <3>3, <4>1
    <3>4. CASE i # next_free_client
      <4>1. missed'[i] = missed[i] + 1
        BY <1>f, <2>1, <3>1, <3>4
      <4> DEFINE k == IF i >= free_cl THEN i ELSE i + CLIENTS_MAX
      <4>2. k \in free_cl .. free_cl + CLIENTS_MAX - 1 /\ k \in 0 .. 2 * CLIENTS_MAX - 1
        BY <1>a, <1>e, <3>1
      <4>3. k % CLIENTS_MAX = i
        <5> HIDE DEF k
        <5>1. k % CLIENTS_MAX = IF k < CLIENTS_MAX THEN k ELSE k - CLIENTS_MAX
          BY <1>a, <4>2, Around, Zenon
        <5> QED BY <1>a, <3>1, <5>1 DEF k
      <4>4. k \in ahead
        BY <2>1, <4>2, <4>3 DEF Active
      <4>5. low <= k
        BY <1>d, <4>4
      <4> HIDE DEF ahead
      <4> QED
        BY <1>a, <1>e, <1>f, <1>g, <3>1, <3>2, <3>4, <4>1, <4>2, <4>5 DEF Ahead
    <3> QED BY <3>3, <3>4
  <2> QED
    BY <1>c, <2>1 DEF TurnsCome
<1> HIDE DEF ahead
<1>2. Mail
  BY <1>f, MailKept
<1>3. Moves("net", tcl["net"]) /\ ThreadTypes' /\ "net" \in Registrars
  BY <1>2, <1>f, StayPut DEF Registrars
<1>4. NetTypes' /\ ListTypes'
  <2>1. free_cl' \in 0 .. CLIENTS_MAX
    BY <1>a, <1>f, <1>g
  <2>2. missed' \in [Slots -> Nat]
    BY <1>a, <1>f, <1>e
  <2> QED BY <1>a, <1>f, <2>1, <2>2, SameSetup DEF NetTypes, ListTypes
<1>5. LoopTypes' /\ IndexInv'
  <2>1. clid' \in Slots /\ clid' \in -1 .. CLIENTS_MAX
    BY <1>a, <1>f, <1>g
  <2> QED BY <1>a, <1>f, <2>1, SameSetup DEF LoopTypes, IndexInv
<1>6. Calm("net", tcl["net"])
  <2>1. Registering("net")' <=> Registering("net")
    BY <1>f DEF Registering, threadVars
  <2>2. tsock' = tsock
    BY <1>f DEF threadVars
  <2> QED BY <1>a, <1>3, <1>f, <2>1, <2>2 DEF Calm, Forward, OwnInv
<1> QED BY <1>1, <1>2, <1>3, <1>4, <1>5, <1>6, <1>f, CalmKeeps

(***************************************************************************)
(* All steps together.                                                     *)
(***************************************************************************)
\* Initially no client has connected and no slot is in use.
LEMMA InitIInv == Init => IInv
<1> SUFFICES ASSUME Init PROVE IInv
  OBVIOUS
<1>0. setup \in Setups
  BY DEF Init
<1>1. /\ CLIENTS_MAX \in Nat \ {0} /\ Slots \subseteq Nat
      /\ Datagram \in BOOLEAN /\ setup.requests \in 0 .. MaxRequests
  BY <1>0, SetupFacts
<1>2. Active = {}
  BY DEF Init, Active
<1>3. NetTypes
  BY DEF Init, NetTypes
<1>4. ListTypes
  <2>1. 0 \in 0 .. INACTIVITY_MAX + 1 /\ 0 \in 0 .. MaxDescriptors
        /\ 0 \in 0 .. CLIENTS_MAX
    BY <1>1, LimitAssumption
  <2> QED BY <2>1 DEF Init, ListTypes
<1>5. ThreadTypes
  <2>1. NoMsg \in Message /\ 0 \in 0 .. MaxDescriptors
    BY LimitAssumption DEF NoMsg, Msg, Message, Types
  <2> QED BY <2>1 DEF Init, ThreadTypes, Home
<1>6. LoopTypes
  BY <1>1, LimitAssumption DEF Init, LoopTypes
<1>7. OwnInv /\ TurnsCome /\ SlotsInv
  <2>1. \A i \in Slots : clients[i].addr = Nobody
    BY DEF Init
  <2>2. \A t \in Registrars : ~Registering(t)
    BY DEF Init, Registering, Home
  <2> QED BY <1>2, <2>1, <2>2 DEF OwnInv, TurnsCome, SlotsInv, Init
<1>8. RegisterFirst
  <2>1. \A c \in Clients : toServer[c] = <<>>
    BY DEF Init
  <2>2. Len(<<>>) = 0 /\ 2 .. 0 = {}
    OBVIOUS
  <2> QED BY <2>1, <2>2 DEF RegisterFirst
<1>9. ThreadsInv
  <2>1. \A t \in Registrars : tpc[t] = Home(t)
    BY DEF Init
  <2>2. \A t \in Registrars : ~Registering(t)
    BY <2>1 DEF Registering, Home
  <2> QED BY <2>1, <2>2 DEF ThreadsInv, Home, Registrars
<1>10. IndexInv
  BY <1>0, <1>1 DEF IndexInv, Init
<1> QED
  BY <1>3, <1>4, <1>5, <1>6, <1>7, <1>8, <1>9, <1>10, TypeParts DEF IInv

\* Every step keeps the invariant, whoever takes it.
LEMMA NextIInv == IInv /\ [Next]_vars => IInv'
<1> SUFFICES ASSUME IInv, [Next]_vars PROVE IInv'
  OBVIOUS
<1>1. ASSUME NEW c \in Clients,
             ClientStep(c) \/ ClientInterrupted(c) \/ Crash(c)
      PROVE  IInv'
  BY <1>1, ClientKeeps
<1>2. ASSUME NEW c \in Clients, LoseDatagram(c) PROVE IInv'
  BY <1>2, LoseDatagramKeeps
<1>3. ASSUME NEW t \in Registrars, RegisterStep(t) PROVE IInv'
  BY <1>3, AcceptKeeps, ReceiveNameKeeps, GivesUpKeeps, CheckNameKeeps,
     InsertKeeps DEF RegisterStep
<1>4. CASE ListenerStep
  BY <1>4, WaitForMessageKeeps, ReceiveMessageKeeps, LookUpKeeps,
     HandleUnregisterKeeps, HandleKeeps DEF ListenerStep
<1>5. CASE PingerStep
  BY <1>5, LoopsKeep, DropInactiveKeeps, PingKeeps DEF PingerStep
<1>6. CASE ReadRequest \/ SendRequest \/ Signal \/ ShutdownStep
  BY <1>6, ReadRequestKeeps, LoopsKeep, TeardownKeeps DEF ShutdownStep
<1>7. ASSUME NEW t \in Registrars \cup {"pinger"}, ThreadEnds(t) PROVE IInv'
  BY <1>7, ThreadEndsKeeps
<1>8. CASE UNCHANGED vars
  <2>1. /\ UNCHANGED quietVars /\ toClient' = toClient /\ misclosed' = misclosed
        /\ mx' = mx /\ ppc' = ppc /\ pi' = pi /\ pread' = pread
        /\ mpc' = mpc /\ clid' = clid /\ request_id' = request_id
        /\ cancelled' = cancelled /\ srv' = srv /\ out' = out /\ setup' = setup
    BY <1>8 DEF vars, quietVars, clientVars, netVars, threadVars, pingerVars,
       mainVars, historyVars
  <2>2. NetTypes /\ LoopTypes /\ IndexInv
    BY Basics
  <2>3. LoopTypes' /\ IndexInv'
    BY <2>1, <2>2, SameSetup DEF LoopTypes, IndexInv
  <2> QED BY <2>1, <2>2, <2>3, QuietKeeps DEF NetTypes, Forward
<1> QED
  BY <1>1, <1>2, <1>3, <1>4, <1>5, <1>6, <1>7, <1>8 DEF Next

\* IInv holds in every state of every behaviour, for any clients, any size of
\* the list, any number of descriptors and both builds, with crashes, lost
\* datagrams, late UNREGISTERs and the shutdown.
THEOREM Invariance == Spec => []IInv
  BY InitIInv, NextIInv, PTL DEF Spec

\* Until the shutdown every active slot has the open, polled descriptor of the
\* client registered in it, and no two slots are of one client: dropping slots
\* in the pinger and in the listener, reusing them in register_client and
\* reusing descriptors in accept (server_pinger.c:26-30,
\* server_cllist.c:107-137) break it in one way only, by an UNREGISTER whose
\* slot was dropped after the lookup (server_listen.c:65, 83).
THEOREM SlotsAlwaysOpen == Spec => []ActiveSlotsOpen
<1>1. IInv => ActiveSlotsOpen
  <2> SUFFICES ASSUME IInv, mpc \in {"prompt", "send"}, ~misclosed
               PROVE  /\ TypeOK
                      /\ \A i \in Active : Datagram \/ OwnSocket(i)
                      /\ \A i, j \in Active : i # j => clients[i].addr # clients[j].addr
    BY DEF ActiveSlotsOpen, IInv
  <2>1. TypeOK /\ OwnInv /\ SlotsInv
    BY DEF IInv
  <2> QED BY <2>1 DEF OwnInv, SlotsInv, Active
<1> QED
  BY <1>1, Invariance, PTL

\* next_free_client (server_cllist.c:166-188) passes no active client over
\* CONF_CLIENTS_MAX times in a row, whoever registers and leaves meanwhile:
\* missed[i] and the number of slots that come before slot i stay together
\* below the size of the list.
THEOREM NobodyEverPassedOver == Spec => []NobodyPassedOver
<1>1. IInv => NobodyPassedOver
  <2> SUFFICES ASSUME IInv, NEW i \in Active
               PROVE  missed[i] < CLIENTS_MAX
    BY DEF NobodyPassedOver
  <2>1. /\ missed \in [Slots -> Nat] /\ free_cl \in 0 .. CLIENTS_MAX
        /\ missed[i] + Ahead(i) < CLIENTS_MAX
        /\ CLIENTS_MAX \in Nat /\ Slots \subseteq Nat
    BY Basics DEF ListTypes, TurnsCome
  <2>2. i \in Slots /\ i \in Nat
    BY <2>1 DEF Active
  <2>3. Ahead(i) \in Nat
    BY <2>1, <2>2 DEF Ahead
  <2> QED
    BY <2>1, <2>2, <2>3
<1> QED
  BY <1>1, Invariance, PTL
=============================================================================
