--------------------------- MODULE HaircutService ---------------------------
(***************************************************************************)
(* What the barber shop of cw07 promises, whatever semaphores, waiting     *)
(* room and signals it is built from: there is one chair, a client sits    *)
(* down only when it is free, the barber cuts the hair of the client who   *)
(* is in it, exactly once per visit, and only a client whose haircut is    *)
(* finished gets up again.                                                 *)
(***************************************************************************)
EXTENDS Naturals

CONSTANTS Clients,  \* the client processes
          Nobody    \* the content of an empty chair

VARIABLES seat,    \* who is in the barber's chair
          cut,     \* whether the haircut of that client is finished
          served   \* number of haircuts each client walked out with

serviceVars == <<seat, cut, served>>

ServiceInit == /\ seat = Nobody
               /\ cut = FALSE
               /\ served = [c \in Clients |-> 0]

Sit(c) == /\ seat = Nobody
          /\ seat' = c
          /\ UNCHANGED <<cut, served>>

Cut == /\ seat # Nobody
       /\ ~cut
       /\ cut' = TRUE
       /\ UNCHANGED <<seat, served>>

GetUp(c) == /\ seat = c
            /\ cut
            /\ seat' = Nobody
            /\ cut' = FALSE
            /\ served' = [served EXCEPT ![c] = @ + 1]

ServiceNext == Cut \/ \E c \in Clients : Sit(c) \/ GetUp(c)

ServiceSpec == ServiceInit /\ [][ServiceNext]_serviceVars
=============================================================================
