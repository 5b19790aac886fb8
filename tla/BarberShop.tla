----------------------------- MODULE BarberShop -----------------------------
(***************************************************************************)
(* The barber shop of cw07, POSIX build: the barber process (barber.c),    *)
(* the client processes (client.c) and the shared memory they meet in      *)
(* (barber-shop.c).  Each step of a process is one access to the shared    *)
(* memory or one semaphore operation, so that every interleaving of the    *)
(* processes' accesses is a behaviour; releasing mx_waiting_room is part   *)
(* of the last access it protects.                                         *)
(*                                                                         *)
(* A process that is killed (SIGINT or SIGTERM: both programs just exit)   *)
(* stops where it is.  It releases no semaphore and leaves the shared      *)
(* memory as it was; only the barber's exit also unlinks the memory, so    *)
(* that clients which start later give up.                                 *)
(***************************************************************************)
EXTENDS Naturals, FiniteSets

CONSTANTS Clients,   \* every client process the listener ever spawns
          Barber,    \* the barber process
          Nobody,    \* the pid of an empty seat, (pid_t) -1
          Capacity,  \* wr_capacity, the seats of the waiting room
          Haircuts,  \* haircuts each client comes for
          MaxKills   \* bound on the processes killed in one behaviour

ASSUME ProcessAssumption == Barber \notin Clients /\ Nobody \notin Clients
ASSUME ShopAssumption == Capacity \in Nat \ {0} /\ Haircuts \in Nat
ASSUME KillAssumption == MaxKills \in Nat

VARIABLES
  barber_chair,         \* pid in bs->barber_chair
  mx_waiting_room,      \* value of the semaphore guarding the waiting room
  sem_barber_sleeping,  \* value of the semaphore the barber sleeps on
  sem_barber_ready,     \* value of the barber's "haircut finished" semaphore
  sem_customer_ready,   \* value of the clients' "in place" / "gone" semaphore
  barber_sleeping,      \* bs->barber_sleeping
  wr_count, wr_start, wr_end,  \* the waiting room's ring
  pid,                  \* pid[s]: pid stored in seat s of the waiting room
  waiting,              \* waiting[s]: value of the semaphore of seat s
  next,                 \* the seat the barber popped last
  bpc,                  \* where the barber is
  cpc,                  \* cpc[c]: where client c is
  my_seat,              \* my_seat[c]: the seat client c took last
  haircuts,             \* haircuts[c]: visits client c has still to make
  killed,               \* processes ended by a signal
  served                \* history: haircuts each client walked out with

semaphores == <<mx_waiting_room, sem_barber_sleeping, sem_barber_ready,
                sem_customer_ready>>
ring == <<wr_count, wr_start, wr_end>>
seats == <<pid, waiting>>
clientVars == <<my_seat, haircuts, served>>
vars == <<barber_chair, semaphores, barber_sleeping, ring, seats, next, bpc,
          cpc, clientVars, killed>>

Slots == 0 .. Capacity - 1

\* Labels of the two programs.  A process is at a label when the operation
\* the label names is the next one it executes.
BarberLabels == {"enter", "look", "drowse", "invite", "invited", "asleep",
                 "await", "cut", "leave"}
ClientLabels == {"new", "enter", "inside", "wake", "waking", "queue",
                 "waiting", "sit", "seated", "cutting", "trimmed", "leaving",
                 "done", "left"}

\* The processes hold mx_waiting_room at these labels.
BarberHolds == {"look", "drowse", "invite", "invited"}
ClientHolds == {"inside", "wake", "waking", "queue"}

TypeOK ==
  /\ barber_chair \in Clients \cup {Nobody}
  /\ mx_waiting_room \in 0 .. 1
  /\ sem_barber_sleeping \in 0 .. 1
  /\ sem_barber_ready \in 0 .. 1
  /\ sem_customer_ready \in 0 .. 1
  /\ barber_sleeping \in BOOLEAN
  /\ wr_count \in 0 .. Capacity
  /\ wr_start \in Slots
  /\ wr_end \in Slots
  /\ pid \in [Slots -> Clients \cup {Nobody}]
  /\ waiting \in [Slots -> 0 .. 1]
  /\ next \in Slots
  /\ bpc \in BarberLabels
  /\ cpc \in [Clients -> ClientLabels]
  /\ my_seat \in [Clients -> Slots]
  /\ haircuts \in [Clients -> 0 .. Haircuts]
  /\ killed \subseteq Clients \cup {Barber}
  /\ served \in [Clients -> Nat]
-----------------------------------------------------------------------------
\* initialize_barber, and the processes as main starts them.  next and my_seat
\* are read only after they are assigned; 0 stands for their unset value.
InitialShop ==
  /\ barber_chair = Nobody
  /\ mx_waiting_room = 1
  /\ sem_barber_sleeping = 0
  /\ sem_barber_ready = 0
  /\ sem_customer_ready = 0
  /\ barber_sleeping = FALSE
  /\ wr_count = 0 /\ wr_start = 0 /\ wr_end = 0
  /\ pid = [s \in Slots |-> Nobody]
  /\ next = 0
  /\ bpc = "enter"
  /\ cpc = [c \in Clients |-> "new"]
  /\ my_seat = [c \in Clients |-> 0]
  /\ haircuts = [c \in Clients |-> Haircuts]
  /\ killed = {}
  /\ served = [c \in Clients |-> 0]

Init == InitialShop /\ waiting = [s \in Slots |-> 0]

BarberAt(from, to) == Barber \notin killed /\ bpc = from /\ bpc' = to

ClientAt(c, from, to) ==
  c \notin killed /\ cpc[c] = from /\ cpc' = [cpc EXCEPT ![c] = to]

NextSeat(s) == (s + 1) % Capacity

\* Operations on the shared memory by name of the semaphore: wait needs a
\* positive value, post never blocks.
LockRoom == /\ mx_waiting_room > 0
            /\ mx_waiting_room' = mx_waiting_room - 1

UnlockRoom == mx_waiting_room' = mx_waiting_room + 1

WaitCustomer == /\ sem_customer_ready > 0
                /\ sem_customer_ready' = sem_customer_ready - 1

PostCustomer == sem_customer_ready' = sem_customer_ready + 1
-----------------------------------------------------------------------------
\* The barber.

\* Mutant: the barber looks into the waiting room without its semaphore (and
\* gives back what it did not take).
BarberEnterUnlocked ==
  /\ BarberAt("enter", "look")
  /\ UNCHANGED <<barber_chair, semaphores, barber_sleeping, ring, seats, next,
                 cpc, clientVars, killed>>

\* semaphore_wait(mx_waiting_room)
BarberEnter ==
  /\ BarberAt("enter", "look")
  /\ LockRoom
  /\ UNCHANGED <<barber_chair, sem_barber_sleeping, sem_barber_ready,
                 sem_customer_ready, barber_sleeping, ring, seats, next, cpc,
                 clientVars, killed>>

\* Mutant: wr_pop forgets --wr_count.
WrPopKeepsCount ==
  /\ BarberAt("look", "invite")
  /\ wr_count > 0
  /\ next' = wr_start
  /\ wr_start' = NextSeat(wr_start)
  /\ UNCHANGED <<barber_chair, semaphores, barber_sleeping, wr_count, wr_end,
                 seats, cpc, clientVars, killed>>

\* wr_pop finds a client
WrPop ==
  /\ BarberAt("look", "invite")
  /\ wr_count > 0
  /\ next' = wr_start
  /\ wr_start' = NextSeat(wr_start)
  /\ wr_count' = wr_count - 1
  /\ UNCHANGED <<barber_chair, semaphores, barber_sleeping, wr_end, seats, cpc,
                 clientVars, killed>>

\* wr_pop finds the waiting room empty
WrPopEmpty ==
  /\ BarberAt("look", "drowse")
  /\ wr_count = 0
  /\ UNCHANGED <<barber_chair, semaphores, barber_sleeping, ring, seats, next,
                 cpc, clientVars, killed>>

\* semaphore_post(next->waiting)
Invite ==
  /\ BarberAt("invite", "invited")
  /\ waiting' = [waiting EXCEPT ![next] = @ + 1]
  /\ UNCHANGED <<barber_chair, semaphores, barber_sleeping, ring, pid, next,
                 cpc, clientVars, killed>>

\* semaphore_post(mx_waiting_room) after the invitation
Invited ==
  /\ BarberAt("invited", "await")
  /\ UnlockRoom
  /\ UNCHANGED <<barber_chair, sem_barber_sleeping, sem_barber_ready,
                 sem_customer_ready, barber_sleeping, ring, seats, next, cpc,
                 clientVars, killed>>

\* barber_sleeping = true; semaphore_post(mx_waiting_room)
GoToSleep ==
  /\ BarberAt("drowse", "asleep")
  /\ barber_sleeping' = TRUE
  /\ UnlockRoom
  /\ UNCHANGED <<barber_chair, sem_barber_sleeping, sem_barber_ready,
                 sem_customer_ready, ring, seats, next, cpc, clientVars,
                 killed>>

\* semaphore_wait(sem_barber_sleeping) returns
BarberWoken ==
  /\ BarberAt("asleep", "await")
  /\ sem_barber_sleeping > 0
  /\ sem_barber_sleeping' = sem_barber_sleeping - 1
  /\ UNCHANGED <<barber_chair, mx_waiting_room, sem_barber_ready,
                 sem_customer_ready, barber_sleeping, ring, seats, next, cpc,
                 clientVars, killed>>

\* semaphore_wait2(sem_customer_ready): the client is in the chair
StartHaircut ==
  /\ BarberAt("await", "cut")
  /\ WaitCustomer
  /\ UNCHANGED <<barber_chair, mx_waiting_room, sem_barber_sleeping,
                 sem_barber_ready, barber_sleeping, ring, seats, next, cpc,
                 clientVars, killed>>

\* semaphore_post(sem_barber_ready)
FinishHaircut ==
  /\ BarberAt("cut", "leave")
  /\ sem_barber_ready' = sem_barber_ready + 1
  /\ UNCHANGED <<barber_chair, mx_waiting_room, sem_barber_sleeping,
                 sem_customer_ready, barber_sleeping, ring, seats, next, cpc,
                 clientVars, killed>>

\* Mutant: the barber does not wait for the client to get out.
NextCustomerAtOnce ==
  /\ BarberAt("leave", "enter")
  /\ UNCHANGED <<barber_chair, semaphores, barber_sleeping, ring, seats, next,
                 cpc, clientVars, killed>>

\* semaphore_wait2(sem_customer_ready): the client is gone
NextCustomer ==
  /\ BarberAt("leave", "enter")
  /\ WaitCustomer
  /\ UNCHANGED <<barber_chair, mx_waiting_room, sem_barber_sleeping,
                 sem_barber_ready, barber_sleeping, ring, seats, next, cpc,
                 clientVars, killed>>

BarberStep == \/ BarberEnter \/ WrPop \/ WrPopEmpty \/ Invite \/ Invited
              \/ GoToSleep \/ BarberWoken \/ StartHaircut \/ FinishHaircut
              \/ NextCustomer
-----------------------------------------------------------------------------
\* A client.

\* spawn_clients forks it, initialize_client opens the shared memory, which
\* fails once the barber's cleanup has unlinked it.
StartClient(c) ==
  /\ ClientAt(c, "new", IF Barber \in killed THEN "left" ELSE "enter")
  /\ UNCHANGED <<barber_chair, semaphores, barber_sleeping, ring, seats, next,
                 bpc, clientVars, killed>>

\* --haircuts; semaphore_wait(mx_waiting_room)
EnterShop(c) ==
  /\ ClientAt(c, "enter", "inside")
  /\ haircuts[c] > 0
  /\ haircuts' = [haircuts EXCEPT ![c] = @ - 1]
  /\ LockRoom
  /\ UNCHANGED <<barber_chair, sem_barber_sleeping, sem_barber_ready,
                 sem_customer_ready, barber_sleeping, ring, seats, next, bpc,
                 my_seat, served, killed>>

\* The loop ends and with it the process.
GoHome(c) ==
  /\ ClientAt(c, "enter", "done")
  /\ haircuts[c] = 0
  /\ UNCHANGED <<barber_chair, semaphores, barber_sleeping, ring, seats, next,
                 bpc, clientVars, killed>>

\* if (bs->barber_sleeping)
LookAtBarber(c) ==
  /\ ClientAt(c, "inside", IF barber_sleeping THEN "wake" ELSE "queue")
  /\ UNCHANGED <<barber_chair, semaphores, barber_sleeping, ring, seats, next,
                 bpc, clientVars, killed>>

\* Mutant: the client wakes the barber and leaves the flag set.
WakeBarberKeepsFlag(c) ==
  /\ ClientAt(c, "wake", "waking")
  /\ sem_barber_sleeping' = sem_barber_sleeping + 1
  /\ UNCHANGED <<barber_chair, mx_waiting_room, sem_barber_ready,
                 sem_customer_ready, barber_sleeping, ring, seats, next, bpc,
                 clientVars, killed>>

\* barber_sleeping = false; semaphore_post(sem_barber_sleeping)
WakeBarber(c) ==
  /\ ClientAt(c, "wake", "waking")
  /\ barber_sleeping' = FALSE
  /\ sem_barber_sleeping' = sem_barber_sleeping + 1
  /\ UNCHANGED <<barber_chair, mx_waiting_room, sem_barber_ready,
                 sem_customer_ready, ring, seats, next, bpc, clientVars,
                 killed>>

\* semaphore_post(mx_waiting_room) on the way to the chair
WalkToChair(c) ==
  /\ ClientAt(c, "waking", "sit")
  /\ UnlockRoom
  /\ UNCHANGED <<barber_chair, sem_barber_sleeping, sem_barber_ready,
                 sem_customer_ready, barber_sleeping, ring, seats, next, bpc,
                 clientVars, killed>>

\* wr_push returns NULL: semaphore_post(mx_waiting_room); exit(-1)
TurnedAway(c) ==
  /\ ClientAt(c, "queue", "left")
  /\ wr_count >= Capacity
  /\ UnlockRoom
  /\ UNCHANGED <<barber_chair, sem_barber_sleeping, sem_barber_ready,
                 sem_customer_ready, barber_sleeping, ring, seats, next, bpc,
                 clientVars, killed>>

\* Mutant: wr_push does not advance wr_end.
TakeSameSeat(c) ==
  /\ ClientAt(c, "queue", "waiting")
  /\ wr_count < Capacity
  /\ my_seat' = [my_seat EXCEPT ![c] = wr_end]
  /\ pid' = [pid EXCEPT ![wr_end] = c]
  /\ waiting' = [waiting EXCEPT ![wr_end] = 0]
  /\ wr_count' = wr_count + 1
  /\ UnlockRoom
  /\ UNCHANGED <<barber_chair, sem_barber_sleeping, sem_barber_ready,
                 sem_customer_ready, barber_sleeping, wr_start, wr_end, next,
                 bpc, haircuts, served, killed>>

\* wr_push; *my_seat = new_seat(), which initialises the seat's semaphore
\* to 0; semaphore_post(mx_waiting_room)
TakeSeat(c) ==
  /\ ClientAt(c, "queue", "waiting")
  /\ wr_count < Capacity
  /\ my_seat' = [my_seat EXCEPT ![c] = wr_end]
  /\ pid' = [pid EXCEPT ![wr_end] = c]
  /\ waiting' = [waiting EXCEPT ![wr_end] = 0]
  /\ wr_end' = NextSeat(wr_end)
  /\ wr_count' = wr_count + 1
  /\ UnlockRoom
  /\ UNCHANGED <<barber_chair, sem_barber_sleeping, sem_barber_ready,
                 sem_customer_ready, barber_sleeping, wr_start, next, bpc,
                 haircuts, served, killed>>

\* semaphore_wait2(my_seat->waiting).  Should another client have taken and
\* re-initialised the seat meanwhile, both wait on the same semaphore.
CalledToChair(c) ==
  /\ ClientAt(c, "waiting", "sit")
  /\ waiting[my_seat[c]] > 0
  /\ waiting' = [waiting EXCEPT ![my_seat[c]] = @ - 1]
  /\ UNCHANGED <<barber_chair, semaphores, barber_sleeping, ring, pid, next,
                 bpc, clientVars, killed>>

\* bs->barber_chair = new_seat()
SitDown(c) ==
  /\ ClientAt(c, "sit", "seated")
  /\ barber_chair' = c
  /\ UNCHANGED <<semaphores, barber_sleeping, ring, seats, next, bpc,
                 clientVars, killed>>

\* semaphore_post(sem_customer_ready): ready for the haircut
Ready(c) ==
  /\ ClientAt(c, "seated", "cutting")
  /\ PostCustomer
  /\ UNCHANGED <<barber_chair, mx_waiting_room, sem_barber_sleeping,
                 sem_barber_ready, barber_sleeping, ring, seats, next, bpc,
                 clientVars, killed>>

\* semaphore_wait(sem_barber_ready)
HaircutDone(c) ==
  /\ ClientAt(c, "cutting", "trimmed")
  /\ sem_barber_ready > 0
  /\ sem_barber_ready' = sem_barber_ready - 1
  /\ UNCHANGED <<barber_chair, mx_waiting_room, sem_barber_sleeping,
                 sem_customer_ready, barber_sleeping, ring, seats, next, bpc,
                 clientVars, killed>>

\* bs->barber_chair = empty_seat()
StandUp(c) ==
  /\ ClientAt(c, "trimmed", "leaving")
  /\ barber_chair' = Nobody
  /\ served' = [served EXCEPT ![c] = @ + 1]
  /\ UNCHANGED <<semaphores, barber_sleeping, ring, seats, next, bpc, my_seat,
                 haircuts, killed>>

\* Mutant: the client leaves without telling the barber.
LeaveShopSilently(c) ==
  /\ ClientAt(c, "leaving", "enter")
  /\ UNCHANGED <<barber_chair, semaphores, barber_sleeping, ring, seats, next,
                 bpc, clientVars, killed>>

\* semaphore_post(sem_customer_ready): gone
LeaveShop(c) ==
  /\ ClientAt(c, "leaving", "enter")
  /\ PostCustomer
  /\ UNCHANGED <<barber_chair, mx_waiting_room, sem_barber_sleeping,
                 sem_barber_ready, barber_sleeping, ring, seats, next, bpc,
                 clientVars, killed>>

ClientStep(c) == \/ StartClient(c) \/ EnterShop(c) \/ GoHome(c)
                 \/ LookAtBarber(c) \/ WakeBarber(c) \/ WalkToChair(c)
                 \/ TurnedAway(c) \/ TakeSeat(c) \/ CalledToChair(c)
                 \/ SitDown(c) \/ Ready(c) \/ HaircutDone(c) \/ StandUp(c)
                 \/ LeaveShop(c)
-----------------------------------------------------------------------------
\* SIGINT or SIGTERM: sig_handler calls exit.
Kill(p) ==
  /\ p \notin killed
  /\ p \in Clients => cpc[p] \notin {"done", "left"}
  /\ Cardinality(killed) < MaxKills
  /\ killed' = killed \cup {p}
  /\ UNCHANGED <<barber_chair, semaphores, barber_sleeping, ring, seats, next,
                 bpc, cpc, clientVars>>

Next == \/ BarberStep
        \/ \E c \in Clients : ClientStep(c)
        \/ \E p \in Clients \cup {Barber} : Kill(p)

Spec == Init /\ [][Next]_vars

\* Every process that is not blocked is eventually scheduled; nothing is
\* assumed about who gets a contended semaphore.
FairSpec ==
  Spec /\ WF_vars(BarberStep) /\ \A c \in Clients : WF_vars(ClientStep(c))
-----------------------------------------------------------------------------
\* Properties.

\* A client is being served from the moment it is entitled to the chair until
\* it has told the barber that it is gone.
Serving(c) == cpc[c] \in {"waking", "sit", "seated", "cutting", "trimmed",
                          "leaving"}

\* The semaphores hand the chair to one client at a time: whoever wakes the
\* barber or is called by it, no second client is on the way to the chair, in
\* it or leaving it, however the processes interleave or die.
OneClientServed ==
  \A c, d \in Clients : Serving(c) /\ Serving(d) => c = d

\* client.c:52: a client that finds the barber asleep may conclude that no one
\* is waiting and that the chair is free, although the barber looked into the
\* waiting room before it set the flag.
SleepMeansFree ==
  barber_sleeping => /\ wr_count = 0
                     /\ barber_chair = Nobody
                     /\ \A c \in Clients : ~Serving(c)

\* The barber never sleeps while a client is sitting in the waiting room,
\* invited or not (no wakeup is lost between the two programs).
NoSleepOverWaiting ==
  barber_sleeping => \A c \in Clients : cpc[c] # "waiting"

\* The shop gives the service HaircutService describes: the chair is free when
\* somebody sits down, the barber cuts the hair of whoever is in it, and
\* nobody gets up unserved.
Service == INSTANCE HaircutService
             WITH seat <- barber_chair,
                  cut <- barber_chair # Nobody /\ bpc = "leave"

ServiceImplemented == Service!ServiceSpec

\* barber.c:108-110: the client that follows the barber's call is the one whose
\* pid the barber read from the seat, also with more clients than seats.
CalledFollows ==
  \A c \in Clients : cpc[c] = "waiting" /\ cpc'[c] = "sit" => pid[next] = c

CalledClientComes == [][CalledFollows]_vars

\* With as many clients as seats, wr_push always finds a seat: no client is
\* turned away.
NobodyTurnedAway == \A c \in Clients : cpc[c] = "queue" => wr_count < Capacity

\* With as many clients as seats and no signals, every client goes home with
\* all its haircuts.
EveryClientServed ==
  <>(\A c \in Clients : cpc[c] = "done" /\ served[c] = Haircuts)

\* barber.c:106-110 "a customer is waiting", "invite them to the chair": the
\* customer the barber invited or was woken by comes.
AwaitedClientComes == (bpc = "await") ~> (bpc = "cut")
-----------------------------------------------------------------------------
\* The inductive invariant behind the safety properties.  A killed process
\* keeps its label, so nothing below mentions signals.

\* mx_waiting_room is a mutex: its value is 1 only when no process is at a
\* label where it holds it, and at most one process is at such a label.
RoomMutex ==
  /\ \A c \in Clients : cpc[c] \in ClientHolds =>
       /\ mx_waiting_room = 0
       /\ bpc \notin BarberHolds
  /\ bpc \in BarberHolds => mx_waiting_room = 0
  /\ \A c, d \in Clients :
       cpc[c] \in ClientHolds /\ cpc[d] \in ClientHolds => c = d

\* The flag is only read and written by holders of the mutex, so what a client
\* or the barber read is still true when it acts on it.
FlagStable ==
  /\ barber_sleeping => bpc = "asleep" /\ wr_count = 0
  /\ bpc = "drowse" => wr_count = 0
  /\ \A c \in Clients : /\ cpc[c] = "wake" => barber_sleeping
                        /\ cpc[c] = "queue" => ~barber_sleeping

\* Nobody is entitled to the chair and no semaphore carries a token.
ChairIdle ==
  /\ barber_chair = Nobody
  /\ sem_barber_sleeping = 0
  /\ sem_barber_ready = 0
  /\ sem_customer_ready = 0
  /\ \A s \in Slots : waiting[s] = 0
  /\ \A c \in Clients : ~Serving(c)

\* Where the barber is determines which tokens exist.
BarberPhase ==
  /\ bpc \in {"enter", "look", "drowse", "invite"} \/ barber_sleeping
       => ChairIdle
  /\ bpc # "asleep" => sem_barber_sleeping = 0
  /\ bpc = "asleep" => sem_barber_sleeping = IF barber_sleeping THEN 0 ELSE 1
  /\ bpc \in {"invited", "asleep", "await"} => sem_barber_ready = 0
  /\ bpc = "cut" => /\ sem_barber_ready = 0
                    /\ sem_customer_ready = 0
                    /\ barber_chair # Nobody

\* There is at most one invitation, and while it is out nobody is served.
OneInvitation ==
  \A s \in Slots : waiting[s] # 0 =>
    /\ bpc \in {"invited", "await"}
    /\ \A t \in Slots : waiting[t] # 0 => t = s
    /\ barber_chair = Nobody
    /\ sem_customer_ready = 0
    /\ \A c \in Clients : ~Serving(c)

\* What a client being served knows of the chair, the tokens and the barber.
ClientPhase ==
  \A c \in Clients :
    /\ cpc[c] \in {"waking", "sit", "seated"} =>
         /\ bpc \in {"invited", "asleep", "await"}
         /\ sem_customer_ready = 0
         /\ barber_chair = IF cpc[c] = "seated" THEN c ELSE Nobody
    /\ cpc[c] = "cutting" =>
         /\ barber_chair = c
         /\ \/ bpc \in {"invited", "asleep", "await"} /\ sem_customer_ready = 1
            \/ bpc = "cut"
            \/ bpc = "leave" /\ sem_barber_ready = 1 /\ sem_customer_ready = 0
    /\ cpc[c] \in {"trimmed", "leaving"} =>
         /\ bpc = "leave"
         /\ sem_barber_ready = 0
         /\ sem_customer_ready = 0
         /\ barber_chair = IF cpc[c] = "trimmed" THEN c ELSE Nobody

\* Whoever is in the chair is being served, and a token of the clients or of
\* the barber has one cause.
TokenOwner ==
  /\ barber_chair # Nobody =>
       cpc[barber_chair] \in {"seated", "cutting", "trimmed"}
  /\ sem_barber_ready = 1 => barber_chair # Nobody /\ bpc = "leave"
  /\ sem_customer_ready = 1 /\ bpc \in {"invited", "asleep", "await"} =>
       barber_chair # Nobody
  /\ sem_customer_ready = 1 /\ bpc = "leave" =>
       /\ sem_barber_ready = 0
       /\ barber_chair = Nobody
       /\ \A c \in Clients : ~Serving(c)

\* The chair protocol and the waiting room's mutex.
ChairInv == /\ TypeOK
            /\ RoomMutex
            /\ FlagStable
            /\ BarberPhase
            /\ OneInvitation
            /\ ClientPhase
            /\ TokenOwner
            /\ OneClientServed

\* The number of seats from one seat to another, going round the ring; the
\* seats nearer to wr_start than wr_count are the ones that hold a client.
Steps(from, to) == IF to >= from THEN to - from ELSE to + Capacity - from
Occupied(s) == Steps(wr_start, s) < wr_count

\* A client that sits in the waiting room is in the ring, or the barber has
\* just popped its seat.
Queued(c) == Occupied(my_seat[c]) /\ pid[my_seat[c]] = c
Popped(c) == cpc[c] = "waiting" /\ ~Queued(c)

\* The ring's three fields agree, and every seat of the ring holds the pid of
\* a client that waits on that seat and has no invitation yet.
RingFilled ==
  /\ Steps(wr_start, wr_end) =
       IF wr_count = Capacity THEN 0 ELSE wr_count
  /\ \A s \in Slots : Occupied(s) =>
       /\ pid[s] \in Clients
       /\ cpc[pid[s]] = "waiting"
       /\ my_seat[pid[s]] = s
       /\ waiting[s] = 0

\* At most one client waits outside the ring: the one the barber popped and
\* waits for.  Its seat still holds its pid as long as its invitation is there.
PoppedOne ==
  /\ \A c \in Clients : Popped(c) =>
       /\ bpc \in {"invite", "invited", "await"}
       /\ my_seat[c] = next /\ wr_start = NextSeat(next)
       /\ bpc = "invite" \/ waiting[next] # 0 => pid[next] = c
       /\ \A d \in Clients : ~Serving(d)
  /\ \A c, d \in Clients : Popped(c) /\ Popped(d) => c = d
  /\ bpc = "invite" => ~Occupied(next)

QueueInv == RingFilled /\ PoppedOne

\* The invariant that every step of every process preserves.
Inv == ChairInv /\ QueueInv

\* One batch of clients, as many as there are seats (barber.c:75-83).
EnoughSeats == IsFiniteSet(Clients) /\ Cardinality(Clients) <= Capacity

\* With no more clients than seats nobody re-initialises the semaphore of the
\* seat the barber popped: the invitation stays until the client takes it.
InvitationKept ==
  \A c \in Clients :
    Popped(c) => bpc = "invite" \/ waiting[my_seat[c]] = 1
=============================================================================
