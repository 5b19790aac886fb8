---------------------------- MODULE MCCalcServer ----------------------------
(***************************************************************************)
(* Instances of CalcServer for TLC.  Names and sockets are given in the    *)
(* order in which the clients are numbered.                                *)
(***************************************************************************)
EXTENDS CalcServer

Numbered == CHOOSE s \in [1 .. Cardinality(Clients) -> Clients] :
              \A i, j \in DOMAIN s : i # j => s[i] # s[j]
Number(c) == CHOOSE i \in DOMAIN Numbered : Numbered[i] = c

\* Clients 1 and 2 come with the same name, through different sockets if there
\* are only these two.
SameNames == [c \in Clients |-> IF Number(c) = 3 THEN "bob" ELSE "ann"]
OwnNames == [c \in Clients |-> c]
TwoSockets == [c \in Clients |-> IF Number(c) = 1 THEN "local" ELSE "net"]
LastLocal ==
  [c \in Clients |-> IF Number(c) = Cardinality(Clients) THEN "local" ELSE "net"]

Undisturbed(datagram, clients_max, comers, requests) ==
  [datagram |-> datagram, clients_max |-> clients_max, clients |-> comers,
   requests |-> requests, leavers |-> comers, crashes |-> FALSE,
   shutdown |-> FALSE]

\* Streams and two slots; nobody dies and nobody stops the server.
TwoSlots(comers, leavers, requests) ==
  [Undisturbed(FALSE, 2, comers, requests) EXCEPT !.leavers = leavers]

\* Of four clients, three that share a socket, the first of which may leave at
\* any time; one of them, which may leave, and one at the other socket, with its
\* name or with another; or two and some requests.
Streams ==
  LET c == Numbered
  IN  {TwoSlots({c[1], c[2], c[3]}, {c[1]}, 0),
       TwoSlots({c[1], c[4]}, {c[1]}, 0), TwoSlots({c[3], c[4]}, {c[3]}, 0),
       TwoSlots({c[1], c[3]}, {}, MaxRequests)}

\* All clients, who stay.
Register == {TwoSlots(Clients, {}, 0)}

\* Datagrams: clients may die, and there is one slot for two.  Streams, no
\* requests: one client that may die and a server that may be stopped; two
\* clients and one slot, and a server that ends when the first client leaves
\* and is pinged.
BothBuilds ==
  {[Undisturbed(TRUE, 1, Clients, MaxRequests) EXCEPT !.crashes = TRUE],
   [Undisturbed(FALSE, 1, {Numbered[1]}, 0) EXCEPT !.crashes = TRUE,
                                                   !.shutdown = TRUE],
   [Undisturbed(FALSE, 1, Clients, 0) EXCEPT !.leavers = {Numbered[1]}]}
=============================================================================
