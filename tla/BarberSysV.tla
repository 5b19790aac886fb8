---------------------------- MODULE BarberSysV ----------------------------
(***************************************************************************)
(* The barber shop of cw07, System V build (zad2: the same sources with    *)
(* -DSYS_V).  A semaphore is a set that the kernel keeps under an id, and  *)
(* semaphore_t is the id: a seat carries the id of a set that new_seat     *)
(* creates and delete_seat removes, also where the POSIX build has nothing *)
(* to remove.  Here waiting[s] is the id in seat s.                        *)
(*                                                                         *)
(* What can go wrong is different too: an operation on a set that was      *)
(* removed fails, and whoever waits for it is woken with an error.  The    *)
(* barber's exit removes the four sets of the shop (dispose_barber), but   *)
(* not those of the seats.                                                 *)
(***************************************************************************)
EXTENDS BarberShop

VARIABLES
  chair_id,  \* the id in bs->barber_chair
  sets,      \* sets[i]: the value of the semaphore of the seat set i
  blocked    \* blocked[c]: the set for which client c waits, or waited, in
             \* the waiting room, until it has deleted its seat

setVars == <<chair_id, sets, blocked>>

(* Ids are not used again: a set is named by the visit it was made for.    *)
(* empty_seat leaves the id 0, which is none of the shop's.                *)
Set(c, place) == [by |-> c, for |-> place, visit |-> haircuts[c]]
NoSet == [by |-> Nobody, for |-> "none", visit |-> 0]

NoSets == /\ chair_id = NoSet
          /\ sets = <<>>
          /\ blocked = [c \in Clients |-> NoSet]

SysVInit == /\ InitialShop /\ NoSets
            /\ waiting = [s \in Slots |-> NoSet]

(* new_seat: a new set with the value 0.                                   *)
Create(id) == sets' = [i \in DOMAIN sets \cup {id} |->
                        IF i = id THEN 0 ELSE sets[i]]

(* delete_seat.  The result of semctl is not looked at.                    *)
Remove(id) == sets' = [i \in DOMAIN sets \ {id} |-> sets[i]]

(* Mutant: dispose_barber forgets the sets.                                *)
NeverRemoved == FALSE

(* dispose_barber has removed the sets of the shop.                        *)
Removed == Barber \in killed
-----------------------------------------------------------------------------
(***************************************************************************)
(* The barber.                                                             *)
(***************************************************************************)
InviteClient ==
  /\ BarberAt("invite", "invited")
  /\ waiting[next] \in DOMAIN sets
  /\ sets' = [sets EXCEPT ![waiting[next]] = @ + 1]
  /\ UNCHANGED <<barber_chair, semaphores, barber_sleeping, ring, seats, next,
                 cpc, clientVars, killed, chair_id, blocked>>

(* The set of the seat is gone: "Cannot post", exit(1), cleanup.           *)
InviteFails ==
  /\ Barber \notin killed /\ bpc = "invite"
  /\ waiting[next] \notin DOMAIN sets
  /\ killed' = killed \cup {Barber}
  /\ UNCHANGED <<barber_chair, semaphores, barber_sleeping, ring, seats, next,
                 bpc, cpc, clientVars, setVars>>

SysVBarberStep ==
  \/ InviteClient \/ InviteFails
  \/ /\ \/ BarberEnter \/ WrPop \/ WrPopEmpty \/ Invited \/ GoToSleep
        \/ BarberWoken \/ StartHaircut \/ FinishHaircut \/ NextCustomer
     /\ UNCHANGED setVars
-----------------------------------------------------------------------------
(***************************************************************************)
(* A client.                                                               *)
(***************************************************************************)

(* wr_push; *my_seat = new_seat()                                          *)
NewSeat(c) ==
  /\ my_seat' = [my_seat EXCEPT ![c] = wr_end]
  /\ pid' = [pid EXCEPT ![wr_end] = c]
  /\ waiting' = [waiting EXCEPT ![wr_end] = Set(c, "seat")]
  /\ wr_end' = NextSeat(wr_end)
  /\ wr_count' = wr_count + 1
  /\ Create(Set(c, "seat"))

SitInRoom(c) ==
  /\ ClientAt(c, "queue", "waiting")
  /\ ~Removed /\ wr_count < Capacity
  /\ NewSeat(c)
  /\ UnlockRoom
  /\ UNCHANGED <<barber_chair, sem_barber_sleeping, sem_barber_ready,
                 sem_customer_ready, barber_sleeping, wr_start, next, bpc,
                 haircuts, served, killed, chair_id, blocked>>

(* semop of semaphore_wait2(my_seat->waiting): from here on the client     *)
(* waits for the set whose id is in the seat now.                          *)
WaitInRoom(c) ==
  /\ c \notin killed /\ cpc[c] = "waiting" /\ blocked[c] = NoSet
  /\ blocked' = [blocked EXCEPT ![c] = waiting[my_seat[c]]]
  /\ UNCHANGED <<vars, chair_id, sets>>

Called(c) ==
  /\ ClientAt(c, "waiting", "sit")
  /\ blocked[c] \in DOMAIN sets
  /\ sets[blocked[c]] > 0
  /\ sets' = [sets EXCEPT ![blocked[c]] = @ - 1]
  /\ UNCHANGED <<barber_chair, semaphores, barber_sleeping, ring, seats, next,
                 bpc, clientVars, killed, chair_id, blocked>>

(* The set was removed: "Cannot wait", exit(1).                            *)
SeatRemoved(c) ==
  /\ ClientAt(c, "waiting", "left")
  /\ blocked[c] # NoSet /\ blocked[c] \notin DOMAIN sets
  /\ UNCHANGED <<barber_chair, semaphores, barber_sleeping, ring, seats, next,
                 bpc, clientVars, killed, setVars>>

(* bs->barber_chair = new_seat()                                           *)
SitInChair(c) ==
  /\ ClientAt(c, "sit", "seated")
  /\ barber_chair' = c
  /\ chair_id' = Set(c, "chair")
  /\ Create(Set(c, "chair"))
  /\ UNCHANGED <<semaphores, barber_sleeping, ring, seats, next, bpc,
                 clientVars, killed, blocked>>

(* Mutant: a seat is not deleted, as in the POSIX build.                   *)
KeepSeat(c) ==
  /\ c \notin killed /\ cpc[c] = "seated" /\ blocked[c] # NoSet
  /\ blocked' = [blocked EXCEPT ![c] = NoSet]
  /\ UNCHANGED <<vars, chair_id, sets>>

(* delete_seat(my_seat), for a client that comes from the waiting room: it *)
(* removes the set whose id is in the seat by then.                        *)
DeleteSeat(c) ==
  /\ c \notin killed /\ cpc[c] = "seated" /\ blocked[c] # NoSet
  /\ Remove(waiting[my_seat[c]])
  /\ blocked' = [blocked EXCEPT ![c] = NoSet]
  /\ UNCHANGED <<vars, chair_id>>

(* The wait for the haircut fails: "Cannot wait for barber", and the       *)
(* client goes on as if it had one.                                        *)
WaitFails(c) ==
  /\ ClientAt(c, "cutting", "trimmed")
  /\ Removed
  /\ UNCHANGED <<barber_chair, semaphores, barber_sleeping, ring, seats, next,
                 bpc, clientVars, killed, setVars>>

(* delete_seat(&bs->barber_chair); bs->barber_chair = empty_seat()         *)
LeaveChair(c) ==
  /\ ClientAt(c, "trimmed", "leaving")
  /\ Remove(chair_id)
  /\ chair_id' = NoSet
  /\ barber_chair' = Nobody
  /\ served' = [served EXCEPT ![c] = @ + 1]
  /\ UNCHANGED <<semaphores, barber_sleeping, ring, seats, next, bpc, my_seat,
                 haircuts, killed, blocked>>

(* Any other operation on a set of the shop fails and ends the client; it  *)
(* has then done what comes before the operation.                          *)
ShopRemoved(c) ==
  /\ Removed
  /\ \E from \in {"enter", "wake", "waking", "queue", "seated", "leaving"} :
       ClientAt(c, from, "left")
  /\ cpc[c] = "enter" => haircuts[c] > 0
  /\ cpc[c] = "seated" => blocked[c] = NoSet
  /\ haircuts' = IF cpc[c] = "enter" THEN [haircuts EXCEPT ![c] = @ - 1]
                 ELSE haircuts
  /\ barber_sleeping' = (barber_sleeping /\ cpc[c] # "wake")
  /\ IF cpc[c] = "queue" /\ wr_count < Capacity THEN NewSeat(c)
     ELSE UNCHANGED <<my_seat, seats, wr_end, wr_count, sets>>
  /\ UNCHANGED <<barber_chair, semaphores, wr_start, next, bpc, served, killed,
                 chair_id, blocked>>

SysVClientStep(c) ==
  \/ SitInRoom(c) \/ WaitInRoom(c) \/ Called(c) \/ SeatRemoved(c)
  \/ SitInChair(c) \/ DeleteSeat(c) \/ WaitFails(c) \/ LeaveChair(c)
  \/ ShopRemoved(c)
  \/ /\ \/ StartClient(c) \/ GoHome(c) \/ LookAtBarber(c)
        \/ /\ ~Removed
           /\ \/ EnterShop(c) \/ WakeBarber(c) \/ WalkToChair(c)
              \/ TurnedAway(c) \/ HaircutDone(c) \/ LeaveShop(c)
              \/ Ready(c) /\ blocked[c] = NoSet
     /\ UNCHANGED setVars
-----------------------------------------------------------------------------
SysVNext == \/ SysVBarberStep
            \/ \E c \in Clients : SysVClientStep(c)
            \/ \E p \in Clients \cup {Barber} : Kill(p) /\ UNCHANGED setVars

sysVVars == <<vars, setVars>>

SysVSpec == /\ SysVInit /\ [][SysVNext]_sysVVars
            /\ WF_sysVVars(SysVBarberStep)
            /\ \A c \in Clients : WF_sysVVars(SysVClientStep(c))
-----------------------------------------------------------------------------
(***************************************************************************)
(* Properties.                                                             *)
(***************************************************************************)

(* The clients that have come so far.                                      *)
Come == {c \in Clients : cpc[c] # "new"}

(* The sets that client c, where it is, has made and not removed.          *)
InUse(c) ==
  (IF cpc[c] = "waiting" \/ blocked[c] # NoSet THEN {Set(c, "seat")} ELSE {})
  \cup
  (IF cpc[c] \in {"seated", "cutting", "trimmed"} THEN {Set(c, "chair")}
                                                  ELSE {})

(* While no more clients have come than there are seats, and the barber    *)
(* lives, the kernel keeps exactly the sets in use: none is leaked and     *)
(* none removed under a process that waits for it, a client waits for the  *)
(* set made for it, the barber finds the set it posts to, and nobody is    *)
(* turned away or gives up, with one client at a time in the chair         *)
(* (barber-shop.c:44-62, client.c:73-85, barber.c:108-110).                *)
SetsInUse ==
  /\ OneClientServed
  /\ Barber \notin killed /\ Cardinality(Come) <= Capacity =>
       /\ DOMAIN sets = UNION {InUse(c) : c \in Clients}
       /\ \A c \in Clients :
            /\ cpc[c] # "left"
            /\ blocked[c] \in {NoSet, Set(c, "seat")}
            /\ cpc[c] = "waiting" => waiting[my_seat[c]] = Set(c, "seat")
       /\ bpc = "invite" => waiting[next] \in DOMAIN sets

(* When the barber has ended, by a signal or because a post failed, the    *)
(* removal of its sets releases every client, those that come later too:   *)
(* only a client whose set in the waiting room still exists waits on       *)
(* (barber-shop.c:189-200, client.c:46-49, 91-93, barber-shop.c:256-272).  *)
ClientsEndWithBarber ==
  Barber \in killed ~>
    \A c \in Clients : \/ c \in killed
                       \/ cpc[c] \in {"done", "left"}
                       \/ /\ cpc[c] = "waiting"
                          /\ blocked[c] \in DOMAIN sets
                          /\ sets[blocked[c]] = 0
=============================================================================
