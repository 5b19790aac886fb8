-------------------------- MODULE BarberShopProofs --------------------------
(***************************************************************************)
(* Proofs about BarberShop for every number of clients, seats, haircuts    *)
(* and signals.  The inductive invariant has two halves: ChairInv says how *)
(* the labels, the chair and the tokens of the semaphores belong together, *)
(* QueueInv how the ring and the clients in the waiting room do.  QueueInv *)
(* needs ChairInv, for the mutex and for who is being served, and not the  *)
(* other way round.  For each half the lemmas show that the barber's       *)
(* steps, the clients' steps and a signal preserve it, one step per action.*)
(* The safety properties and the refinement of HaircutService follow, then *)
(* the same for the System V build, whose invariant is stated here.        *)
(***************************************************************************)
EXTENDS MCBarberBuilds, FiniteSetTheorems, TLAPS

\* The next index of the ring is an index of the ring (wr_pop, wr_push).
LEMMA NextSeatType == \A s \in Slots : NextSeat(s) \in Slots
  BY ShopAssumption DEF Slots, NextSeat

\* initialize_barber establishes ChairInv: nobody is anywhere near the
\* chair.
LEMMA InitChair == Init => ChairInv
<1> SUFFICES ASSUME Init PROVE ChairInv
  OBVIOUS
<1> USE ProcessAssumption, ShopAssumption DEF Init, InitialShop
<1>1. TypeOK
  <2>1. 0 \in Slots /\ 0 \in 0 .. Capacity /\ Haircuts \in 0 .. Haircuts
    BY DEF Slots
  <2>2. barber_sleeping \in BOOLEAN
    OBVIOUS
  <2> QED
    BY <2>1, <2>2 DEF TypeOK, BarberLabels, ClientLabels
<1>2. RoomMutex /\ FlagStable
  BY DEF RoomMutex, FlagStable, BarberHolds, ClientHolds
<1>3. ChairIdle /\ OneClientServed
  BY DEF ChairIdle, Serving, OneClientServed
<1>4. BarberPhase /\ OneInvitation /\ ClientPhase /\ TokenOwner
  BY <1>3 DEF BarberPhase, OneInvitation, ClientPhase, TokenOwner, ChairIdle
<1> QED
  BY <1>1, <1>2, <1>3, <1>4 DEF ChairInv

\* Every step of the barber preserves ChairInv.
LEMMA BarberStepChair == ChairInv /\ BarberStep => ChairInv'
<1> SUFFICES ASSUME ChairInv, BarberStep PROVE ChairInv'
  OBVIOUS
<1> USE ProcessAssumption, ShopAssumption
    DEF ChairInv, TypeOK, semaphores, ring, seats, clientVars, BarberAt
<1>1. CASE BarberEnter
  <2> USE <1>1 DEF BarberEnter, LockRoom
  <2>1. TypeOK' BY DEF BarberLabels
  <2>2. RoomMutex' BY DEF RoomMutex
  <2>3. FlagStable' BY DEF FlagStable
  <2>4. BarberPhase' BY DEF BarberPhase, ChairIdle, Serving
  <2>5. OneInvitation' BY DEF OneInvitation
  <2>6. ClientPhase' BY DEF ClientPhase
  <2>7. TokenOwner' BY DEF TokenOwner
  <2>8. OneClientServed' BY DEF OneClientServed, Serving
  <2> QED BY <2>1, <2>2, <2>3, <2>4, <2>5, <2>6, <2>7, <2>8
<1>2. CASE WrPop
  <2> USE <1>2 DEF WrPop
  <2>1. TypeOK' BY NextSeatType DEF BarberLabels
  <2>2. RoomMutex' BY DEF RoomMutex, BarberHolds
  <2>3. FlagStable' BY DEF FlagStable
  <2>4. BarberPhase' BY DEF BarberPhase, ChairIdle, Serving
  <2>5. OneInvitation' BY DEF OneInvitation
  <2>6. ClientPhase' BY DEF ClientPhase
  <2>7. TokenOwner' BY DEF TokenOwner
  <2>8. OneClientServed' BY DEF OneClientServed, Serving
  <2> QED BY <2>1, <2>2, <2>3, <2>4, <2>5, <2>6, <2>7, <2>8
<1>3. CASE WrPopEmpty
  <2> USE <1>3 DEF WrPopEmpty
  <2>1. TypeOK' BY DEF BarberLabels
  <2>2. RoomMutex' BY DEF RoomMutex, BarberHolds
  <2>3. FlagStable' BY DEF FlagStable
  <2>4. BarberPhase' BY DEF BarberPhase, ChairIdle, Serving
  <2>5. OneInvitation' BY DEF OneInvitation
  <2>6. ClientPhase' BY DEF ClientPhase
  <2>7. TokenOwner' BY DEF TokenOwner
  <2>8. OneClientServed' BY DEF OneClientServed, Serving
  <2> QED BY <2>1, <2>2, <2>3, <2>4, <2>5, <2>6, <2>7, <2>8
<1>4. CASE Invite
  <2> USE <1>4 DEF Invite
  <2>1. TypeOK' BY DEF BarberLabels, BarberPhase, ChairIdle
  <2>2. RoomMutex' BY DEF RoomMutex, BarberHolds
  <2>3. FlagStable' BY DEF FlagStable
  <2>4. BarberPhase' BY DEF BarberPhase, ChairIdle, FlagStable
  <2>5. OneInvitation' BY DEF OneInvitation, Serving, BarberPhase, ChairIdle
  <2>6. ClientPhase' BY DEF ClientPhase
  <2>7. TokenOwner' BY DEF TokenOwner, BarberPhase, ChairIdle
  <2>8. OneClientServed' BY DEF OneClientServed, Serving
  <2> QED BY <2>1, <2>2, <2>3, <2>4, <2>5, <2>6, <2>7, <2>8
<1>5. CASE Invited
  <2> USE <1>5 DEF Invited, UnlockRoom
  <2>1. TypeOK' BY DEF BarberLabels, RoomMutex, BarberHolds
  <2>2. RoomMutex' BY DEF RoomMutex, BarberHolds
  <2>3. FlagStable' BY DEF FlagStable
  <2>4. BarberPhase' BY DEF BarberPhase, ChairIdle, Serving
  <2>5. OneInvitation' BY DEF OneInvitation, Serving
  <2>6. ClientPhase' BY DEF ClientPhase
  <2>7. TokenOwner' BY DEF TokenOwner
  <2>8. OneClientServed' BY DEF OneClientServed, Serving
  <2> QED BY <2>1, <2>2, <2>3, <2>4, <2>5, <2>6, <2>7, <2>8
<1>6. CASE GoToSleep
  <2> USE <1>6 DEF GoToSleep, UnlockRoom
  <2>1. TypeOK' BY DEF BarberLabels, RoomMutex, BarberHolds
  <2>2. RoomMutex' BY DEF RoomMutex, BarberHolds
  <2>3. FlagStable' BY DEF FlagStable, RoomMutex, BarberHolds, ClientHolds
  <2>4. BarberPhase' BY DEF BarberPhase, ChairIdle, Serving
  <2>5. OneInvitation' BY DEF OneInvitation
  <2>6. ClientPhase' BY DEF ClientPhase
  <2>7. TokenOwner' BY DEF TokenOwner, BarberPhase, ChairIdle
  <2>8. OneClientServed' BY DEF OneClientServed, Serving
  <2> QED BY <2>1, <2>2, <2>3, <2>4, <2>5, <2>6, <2>7, <2>8
<1>7. CASE BarberWoken
  <2> USE <1>7 DEF BarberWoken
  <2>1. TypeOK' BY DEF BarberLabels
  <2>2. RoomMutex' BY DEF RoomMutex, BarberHolds
  <2>3. FlagStable' BY DEF FlagStable, BarberPhase
  <2>4. BarberPhase' BY DEF BarberPhase
  <2>5. OneInvitation' BY DEF OneInvitation
  <2>6. ClientPhase' BY DEF ClientPhase
  <2>7. TokenOwner' BY DEF TokenOwner
  <2>8. OneClientServed' BY DEF OneClientServed, Serving
  <2> QED BY <2>1, <2>2, <2>3, <2>4, <2>5, <2>6, <2>7, <2>8
<1>8. CASE StartHaircut
  <2> USE <1>8 DEF StartHaircut, WaitCustomer
  <2>1. TypeOK' BY DEF BarberLabels
  <2>2. RoomMutex' BY DEF RoomMutex, BarberHolds
  <2>3. FlagStable' BY DEF FlagStable
  <2>4. BarberPhase' BY DEF BarberPhase, ChairIdle, TokenOwner
  <2>5. OneInvitation' BY DEF OneInvitation
  <2>6. ClientPhase' BY DEF ClientPhase
  <2>7. TokenOwner' BY DEF TokenOwner
  <2>8. OneClientServed' BY DEF OneClientServed, Serving
  <2> QED BY <2>1, <2>2, <2>3, <2>4, <2>5, <2>6, <2>7, <2>8
<1>9. CASE FinishHaircut
  <2> USE <1>9 DEF FinishHaircut
  <2>1. TypeOK' BY DEF BarberLabels, BarberPhase
  <2>2. RoomMutex' BY DEF RoomMutex, BarberHolds
  <2>3. FlagStable' BY DEF FlagStable
  <2>4. BarberPhase' BY DEF BarberPhase, ChairIdle
  <2>5. OneInvitation' BY DEF OneInvitation
  <2>6. ClientPhase' BY DEF ClientPhase, BarberPhase
  <2>7. TokenOwner' BY DEF TokenOwner, BarberPhase
  <2>8. OneClientServed' BY DEF OneClientServed, Serving
  <2> QED BY <2>1, <2>2, <2>3, <2>4, <2>5, <2>6, <2>7, <2>8
<1>10. CASE NextCustomer
  <2> USE <1>10 DEF NextCustomer, WaitCustomer
  <2>1. TypeOK' BY DEF BarberLabels
  <2>2. RoomMutex' BY DEF RoomMutex, BarberHolds
  <2>3. FlagStable' BY DEF FlagStable
  <2>4. BarberPhase' BY DEF BarberPhase, ChairIdle, Serving, TokenOwner,
         OneInvitation
  <2>5. OneInvitation' BY DEF OneInvitation
  <2>6. ClientPhase' BY DEF ClientPhase
  <2>7. TokenOwner' BY DEF TokenOwner
  <2>8. OneClientServed' BY DEF OneClientServed, Serving
  <2> QED BY <2>1, <2>2, <2>3, <2>4, <2>5, <2>6, <2>7, <2>8
<1> QED BY <1>1, <1>2, <1>3, <1>4, <1>5, <1>6, <1>7, <1>8, <1>9, <1>10
       DEF BarberStep

\* Every step of a client preserves ChairInv, whichever client it is.
LEMMA ClientStepChair ==
  ASSUME NEW c \in Clients, ChairInv, ClientStep(c) PROVE ChairInv'
<1> USE ProcessAssumption, ShopAssumption
    DEF ChairInv, TypeOK, semaphores, ring, seats, clientVars, ClientAt
<1>1. CASE StartClient(c)
  <2> USE <1>1 DEF StartClient
  <2>1. TypeOK' BY DEF ClientLabels
  <2>2. RoomMutex' BY DEF RoomMutex, ClientHolds
  <2>3. FlagStable' BY DEF FlagStable
  <2>4. BarberPhase' BY DEF BarberPhase, ChairIdle, Serving
  <2>5. OneInvitation' BY DEF OneInvitation, Serving
  <2>6. ClientPhase' BY DEF ClientPhase
  <2>7. TokenOwner' BY DEF TokenOwner, Serving
  <2>8. OneClientServed' BY DEF OneClientServed, Serving
  <2> QED BY <2>1, <2>2, <2>3, <2>4, <2>5, <2>6, <2>7, <2>8
<1>2. CASE EnterShop(c)
  <2> USE <1>2 DEF EnterShop, LockRoom
  <2>1. TypeOK' BY DEF ClientLabels
  <2>2. RoomMutex' BY DEF RoomMutex
  <2>3. FlagStable' BY DEF FlagStable
  <2>4. BarberPhase' BY DEF BarberPhase, ChairIdle, Serving
  <2>5. OneInvitation' BY DEF OneInvitation, Serving
  <2>6. ClientPhase' BY DEF ClientPhase
  <2>7. TokenOwner' BY DEF TokenOwner, Serving
  <2>8. OneClientServed' BY DEF OneClientServed, Serving
  <2> QED BY <2>1, <2>2, <2>3, <2>4, <2>5, <2>6, <2>7, <2>8
<1>3. CASE GoHome(c)
  <2> USE <1>3 DEF GoHome
  <2>1. TypeOK' BY DEF ClientLabels
  <2>2. RoomMutex' BY DEF RoomMutex, ClientHolds
  <2>3. FlagStable' BY DEF FlagStable
  <2>4. BarberPhase' BY DEF BarberPhase, ChairIdle, Serving
  <2>5. OneInvitation' BY DEF OneInvitation, Serving
  <2>6. ClientPhase' BY DEF ClientPhase
  <2>7. TokenOwner' BY DEF TokenOwner, Serving
  <2>8. OneClientServed' BY DEF OneClientServed, Serving
  <2> QED BY <2>1, <2>2, <2>3, <2>4, <2>5, <2>6, <2>7, <2>8
<1>4. CASE LookAtBarber(c)
  <2> USE <1>4 DEF LookAtBarber
  <2>1. TypeOK' BY DEF ClientLabels
  <2>2. RoomMutex' BY DEF RoomMutex, ClientHolds
  <2>3. FlagStable' BY DEF FlagStable
  <2>4. BarberPhase' BY DEF BarberPhase, ChairIdle, Serving
  <2>5. OneInvitation' BY DEF OneInvitation, Serving
  <2>6. ClientPhase' BY DEF ClientPhase
  <2>7. TokenOwner' BY DEF TokenOwner, Serving
  <2>8. OneClientServed' BY DEF OneClientServed, Serving
  <2> QED BY <2>1, <2>2, <2>3, <2>4, <2>5, <2>6, <2>7, <2>8
<1>5. CASE WakeBarber(c)
  <2> USE <1>5 DEF WakeBarber
  <2>0. sem_barber_sleeping = 0 BY DEF FlagStable, BarberPhase, ChairIdle
  <2>9. barber_sleeping' \in BOOLEAN OBVIOUS
  <2>1. TypeOK' BY <2>0, <2>9 DEF ClientLabels
  <2>2. RoomMutex' BY DEF RoomMutex, ClientHolds
  <2>3. FlagStable' BY DEF FlagStable, RoomMutex, ClientHolds
  <2>4. BarberPhase' BY DEF BarberPhase, FlagStable
  <2>5. OneInvitation' BY DEF OneInvitation, FlagStable
  <2>6. ClientPhase' BY DEF ClientPhase, BarberPhase, ChairIdle, FlagStable
  <2>7. TokenOwner' BY DEF TokenOwner, FlagStable
  <2>8. OneClientServed' BY DEF OneClientServed, Serving, BarberPhase,
         ChairIdle, FlagStable
  <2> QED BY <2>1, <2>2, <2>3, <2>4, <2>5, <2>6, <2>7, <2>8
<1>6. CASE WalkToChair(c)
  <2> USE <1>6 DEF WalkToChair, UnlockRoom
  <2>1. TypeOK' BY DEF ClientLabels, RoomMutex, ClientHolds
  <2>2. RoomMutex' BY DEF RoomMutex, ClientHolds
  <2>3. FlagStable' BY DEF FlagStable
  <2>4. BarberPhase' BY DEF BarberPhase, ChairIdle, Serving
  <2>5. OneInvitation' BY DEF OneInvitation, Serving
  <2>6. ClientPhase' BY DEF ClientPhase
  <2>7. TokenOwner' BY DEF TokenOwner, Serving
  <2>8. OneClientServed' BY DEF OneClientServed, Serving
  <2> QED BY <2>1, <2>2, <2>3, <2>4, <2>5, <2>6, <2>7, <2>8
<1>7. CASE TurnedAway(c)
  <2> USE <1>7 DEF TurnedAway, UnlockRoom
  <2>1. TypeOK' BY DEF ClientLabels, RoomMutex, ClientHolds
  <2>2. RoomMutex' BY DEF RoomMutex, ClientHolds
  <2>3. FlagStable' BY DEF FlagStable
  <2>4. BarberPhase' BY DEF BarberPhase, ChairIdle, Serving
  <2>5. OneInvitation' BY DEF OneInvitation, Serving
  <2>6. ClientPhase' BY DEF ClientPhase
  <2>7. TokenOwner' BY DEF TokenOwner, Serving
  <2>8. OneClientServed' BY DEF OneClientServed, Serving
  <2> QED BY <2>1, <2>2, <2>3, <2>4, <2>5, <2>6, <2>7, <2>8
<1>8. CASE TakeSeat(c)
  <2> USE <1>8 DEF TakeSeat, UnlockRoom
  <2>1. TypeOK' BY NextSeatType DEF ClientLabels, RoomMutex, ClientHolds
  <2>2. RoomMutex' BY DEF RoomMutex, ClientHolds
  <2>3. FlagStable' BY DEF FlagStable, RoomMutex, BarberHolds, ClientHolds
  <2>4. BarberPhase' BY DEF BarberPhase, ChairIdle, Serving
  <2>5. OneInvitation' BY DEF OneInvitation, Serving
  <2>6. ClientPhase' BY DEF ClientPhase
  <2>7. TokenOwner' BY DEF TokenOwner, Serving
  <2>8. OneClientServed' BY DEF OneClientServed, Serving
  <2> QED BY <2>1, <2>2, <2>3, <2>4, <2>5, <2>6, <2>7, <2>8
<1>9. CASE CalledToChair(c)
  <2> USE <1>9 DEF CalledToChair
  <2>1. TypeOK' BY DEF ClientLabels
  <2>2. RoomMutex' BY DEF RoomMutex, ClientHolds
  <2>3. FlagStable' BY DEF FlagStable
  <2>4. BarberPhase' BY DEF BarberPhase, ChairIdle
  <2>5. OneInvitation' BY DEF OneInvitation
  <2>6. ClientPhase' BY DEF ClientPhase, OneInvitation
  <2>7. TokenOwner' BY DEF TokenOwner, OneInvitation
  <2>8. OneClientServed' BY DEF OneClientServed, Serving, OneInvitation
  <2> QED BY <2>1, <2>2, <2>3, <2>4, <2>5, <2>6, <2>7, <2>8
<1>10. CASE SitDown(c)
  <2> USE <1>10 DEF SitDown
  <2>1. TypeOK' BY DEF ClientLabels
  <2>2. RoomMutex' BY DEF RoomMutex, ClientHolds
  <2>3. FlagStable' BY DEF FlagStable
  <2>4. BarberPhase' BY DEF BarberPhase, ChairIdle, Serving
  <2>5. OneInvitation' BY DEF OneInvitation, Serving
  <2>6. ClientPhase' BY DEF ClientPhase, OneClientServed, Serving
  <2>7. TokenOwner' BY DEF TokenOwner, Serving
  <2>8. OneClientServed' BY DEF OneClientServed, Serving
  <2> QED BY <2>1, <2>2, <2>3, <2>4, <2>5, <2>6, <2>7, <2>8
<1>11. CASE Ready(c)
  <2> USE <1>11 DEF Ready, PostCustomer
  <2>1. TypeOK' BY DEF ClientLabels, ClientPhase
  <2>2. RoomMutex' BY DEF RoomMutex, ClientHolds
  <2>3. FlagStable' BY DEF FlagStable
  <2>4. BarberPhase' BY DEF BarberPhase, ChairIdle, ClientPhase
  <2>5. OneInvitation' BY DEF OneInvitation, Serving
  <2>6. ClientPhase' BY DEF ClientPhase
  <2>7. TokenOwner' BY DEF TokenOwner, ClientPhase
  <2>8. OneClientServed' BY DEF OneClientServed, Serving
  <2> QED BY <2>1, <2>2, <2>3, <2>4, <2>5, <2>6, <2>7, <2>8
<1>12. CASE HaircutDone(c)
  <2> USE <1>12 DEF HaircutDone
  <2>1. TypeOK' BY DEF ClientLabels
  <2>2. RoomMutex' BY DEF RoomMutex, ClientHolds
  <2>3. FlagStable' BY DEF FlagStable
  <2>4. BarberPhase' BY DEF BarberPhase, ChairIdle
  <2>5. OneInvitation' BY DEF OneInvitation, Serving
  <2>6. ClientPhase' BY DEF ClientPhase, BarberPhase
  <2>7. TokenOwner' BY DEF TokenOwner
  <2>8. OneClientServed' BY DEF OneClientServed, Serving
  <2> QED BY <2>1, <2>2, <2>3, <2>4, <2>5, <2>6, <2>7, <2>8
<1>13. CASE StandUp(c)
  <2> USE <1>13 DEF StandUp
  <2>1. TypeOK' BY DEF ClientLabels
  <2>2. RoomMutex' BY DEF RoomMutex, ClientHolds
  <2>3. FlagStable' BY DEF FlagStable
  <2>4. BarberPhase' BY DEF BarberPhase, ChairIdle, ClientPhase
  <2>5. OneInvitation' BY DEF OneInvitation, Serving
  <2>6. ClientPhase' BY DEF ClientPhase
  <2>7. TokenOwner' BY DEF TokenOwner, ClientPhase
  <2>8. OneClientServed' BY DEF OneClientServed, Serving
  <2> QED BY <2>1, <2>2, <2>3, <2>4, <2>5, <2>6, <2>7, <2>8
<1>14. CASE LeaveShop(c)
  <2> USE <1>14 DEF LeaveShop, PostCustomer
  <2>1. TypeOK' BY DEF ClientLabels, ClientPhase
  <2>2. RoomMutex' BY DEF RoomMutex, ClientHolds
  <2>3. FlagStable' BY DEF FlagStable
  <2>4. BarberPhase' BY DEF BarberPhase, ChairIdle, Serving, ClientPhase
  <2>5. OneInvitation' BY DEF OneInvitation, Serving
  <2>6. ClientPhase' BY DEF ClientPhase, OneClientServed, Serving
  <2>7. TokenOwner' BY DEF TokenOwner, Serving, ClientPhase, OneClientServed
  <2>8. OneClientServed' BY DEF OneClientServed, Serving
  <2> QED BY <2>1, <2>2, <2>3, <2>4, <2>5, <2>6, <2>7, <2>8
<1> QED BY <1>1, <1>2, <1>3, <1>4, <1>5, <1>6, <1>7, <1>8, <1>9, <1>10, <1>11,
           <1>12, <1>13, <1>14
       DEF ClientStep

\* A signal, like a stuttering step, changes nothing the invariant speaks of:
\* the killed process keeps its label and its semaphores.
LEMMA KillChair ==
  ASSUME ChairInv, (\E p \in Clients \cup {Barber} : Kill(p)) \/ UNCHANGED vars
  PROVE  ChairInv'
<1> USE DEF ChairInv, TypeOK, Kill, vars, semaphores, ring, seats, clientVars
<1>1. TypeOK' OBVIOUS
<1>2. RoomMutex' BY DEF RoomMutex
<1>3. FlagStable' BY DEF FlagStable
<1>4. BarberPhase' BY DEF BarberPhase, ChairIdle, Serving
<1>5. OneInvitation' BY DEF OneInvitation, Serving
<1>6. ClientPhase' BY DEF ClientPhase
<1>7. TokenOwner' BY DEF TokenOwner, Serving
<1>8. OneClientServed' BY DEF OneClientServed, Serving
<1> QED BY <1>1, <1>2, <1>3, <1>4, <1>5, <1>6, <1>7, <1>8

-----------------------------------------------------------------------------
\* The next index, without the remainder.
LEMMA NextSeatIs ==
  \A s \in Slots : NextSeat(s) = IF s = Capacity - 1 THEN 0 ELSE s + 1
  BY ShopAssumption DEF Slots, NextSeat

\* Going round the ring from seat s, each seat has its own distance.
LEMMA StepsType ==
  /\ \A s, t \in Slots : Steps(s, t) \in 0 .. Capacity - 1
  /\ \A s, t \in Slots : Steps(s, t) = 0 <=> s = t
  /\ \A s, t, u \in Slots : Steps(s, t) = Steps(s, u) => t = u
  BY ShopAssumption DEF Slots, Steps

\* wr_pop shortens the distances from wr_start by one, and puts the seat that
\* was first behind all others.
LEMMA StepsFromNext ==
  \A s, t \in Slots :
    Steps(NextSeat(s), t) = IF t = s THEN Capacity - 1 ELSE Steps(s, t) - 1
  BY NextSeatIs, ShopAssumption DEF Slots, Steps

\* wr_push moves wr_end one seat away from wr_start, or back to it when the
\* ring is full.
LEMMA StepsToNext ==
  \A s, t \in Slots :
    Steps(s, NextSeat(t)) = IF Steps(s, t) = Capacity - 1 THEN 0
                            ELSE Steps(s, t) + 1
  BY NextSeatIs, ShopAssumption DEF Slots, Steps

\* The ring is empty at first and nobody waits.
LEMMA InitQueue == Init => QueueInv
  BY ShopAssumption, ProcessAssumption, StepsType
     DEF Init, InitialShop, QueueInv, RingFilled, PoppedOne, Popped,
         Occupied, Slots

\* Every step of the barber keeps the ring and the clients in it in agreement;
\* wr_pop takes the first of them out.
LEMMA BarberStepQueue ==
  ASSUME Inv, BarberStep PROVE QueueInv'
<1> USE ProcessAssumption, ShopAssumption
    DEF Inv, ChairInv, TypeOK, QueueInv, semaphores, ring, seats, clientVars,
        BarberAt
<1>1. CASE BarberEnter
  BY <1>1 DEF BarberEnter, RingFilled, PoppedOne, Popped, Queued, Occupied, Serving
<1>2. CASE WrPop
  <2> USE <1>2 DEF WrPop
  <2>1. wr_start \in Slots /\ Occupied(wr_start)
    BY StepsType DEF Occupied
  <2>2. ASSUME NEW s \in Slots
        PROVE  Occupied(s)' <=> Occupied(s) /\ s # wr_start
    <3>1. /\ Steps(wr_start, s) \in 0 .. Capacity - 1
          /\ Steps(wr_start', s) = IF s = wr_start THEN Capacity - 1
                                   ELSE Steps(wr_start, s) - 1
      BY StepsType, StepsFromNext
    <3> QED
      BY <3>1 DEF Occupied
  <2>3. (Steps(wr_start, wr_end) = IF wr_count = Capacity THEN 0 ELSE wr_count)'
    <3>1. /\ Steps(wr_start, wr_end) = 0 <=> wr_start = wr_end
          /\ Steps(wr_start', wr_end) = IF wr_end = wr_start THEN Capacity - 1
                                        ELSE Steps(wr_start, wr_end) - 1
      BY StepsType, StepsFromNext
    <3> QED
      BY <3>1 DEF RingFilled
  <2>4. RingFilled'
    BY <2>2, <2>3 DEF RingFilled
  <2>5. \A c \in Clients : Popped(c)' => c = pid[wr_start] /\ my_seat[c] = wr_start
    BY <2>1, <2>2 DEF Popped, Queued, PoppedOne, RingFilled
  <2>6. \A c \in Clients : ~Serving(c)'
    BY DEF Serving, BarberPhase, ChairIdle
  <2>7. PoppedOne'
    BY <2>1, <2>2, <2>5, <2>6 DEF PoppedOne
  <2> QED
    BY <2>4, <2>7
<1>3. CASE WrPopEmpty
  BY <1>3 DEF WrPopEmpty, RingFilled, PoppedOne, Popped, Queued, Occupied, Serving
<1>4. CASE Invite
  <2> USE <1>4 DEF Invite
  <2>1. RingFilled'
    BY DEF RingFilled, PoppedOne, Occupied
  <2>2. PoppedOne'
    BY DEF PoppedOne, Popped, Queued, Occupied, Serving
  <2> QED
    BY <2>1, <2>2
<1>5. CASE Invited
  BY <1>5 DEF Invited, RingFilled, PoppedOne, Popped, Queued, Occupied,
              Serving
<1>6. CASE GoToSleep
  BY <1>6 DEF GoToSleep, RingFilled, PoppedOne, Popped, Queued, Occupied,
              Serving
<1>7. CASE BarberWoken
  BY <1>7 DEF BarberWoken, RingFilled, PoppedOne, Popped, Queued, Occupied, Serving
<1>8. CASE StartHaircut
  <2> USE <1>8 DEF StartHaircut, WaitCustomer
  <2>1. barber_chair \in Clients /\ Serving(barber_chair)
    BY DEF TokenOwner, Serving
  <2>2. \A c \in Clients : ~Popped(c)
    BY <2>1 DEF PoppedOne
  <2>3. RingFilled'
    BY DEF RingFilled, Occupied
  <2>4. PoppedOne'
    BY <2>2 DEF PoppedOne, Popped, Queued, Occupied
  <2> QED
    BY <2>3, <2>4
<1>9. CASE FinishHaircut
  BY <1>9 DEF FinishHaircut, RingFilled, PoppedOne, Popped, Queued, Occupied, Serving
<1>10. CASE NextCustomer
  BY <1>10 DEF NextCustomer, RingFilled, PoppedOne, Popped, Queued, Occupied, Serving
<1> QED
  BY <1>1, <1>2, <1>3, <1>4, <1>5, <1>6, <1>7, <1>8, <1>9, <1>10
     DEF BarberStep

\* Every step of a client keeps the ring and the clients in it in agreement:
\* wr_push appends it, and the only client that leaves the waiting room is the
\* one the barber popped.
LEMMA ClientStepQueue ==
  ASSUME NEW c \in Clients, Inv, ClientStep(c) PROVE QueueInv'
<1> USE ProcessAssumption, ShopAssumption
    DEF Inv, ChairInv, TypeOK, QueueInv, semaphores, ring, seats, clientVars,
        ClientAt
<1>1. CASE StartClient(c)
  BY <1>1 DEF StartClient, RingFilled, PoppedOne, Popped, Queued, Occupied, Serving
<1>2. CASE EnterShop(c)
  BY <1>2 DEF EnterShop, RingFilled, PoppedOne, Popped, Queued, Occupied, Serving
<1>3. CASE GoHome(c)
  BY <1>3 DEF GoHome, RingFilled, PoppedOne, Popped, Queued, Occupied,
              Serving
<1>4. CASE LookAtBarber(c)
  BY <1>4 DEF LookAtBarber, RingFilled, PoppedOne, Popped, Queued, Occupied, Serving
<1>5. CASE WakeBarber(c)
  <2> USE <1>5 DEF WakeBarber
  <2>1. bpc = "asleep"
    BY DEF FlagStable
  <2>2. RingFilled'
    BY DEF RingFilled, Occupied
  <2>3. PoppedOne'
    BY <2>1 DEF PoppedOne, Popped, Queued, Occupied
  <2> QED
    BY <2>2, <2>3
<1>6. CASE WalkToChair(c)
  BY <1>6 DEF WalkToChair, RingFilled, PoppedOne, Popped, Queued, Occupied, Serving
<1>7. CASE TurnedAway(c)
  BY <1>7 DEF TurnedAway, RingFilled, PoppedOne, Popped, Queued, Occupied, Serving
<1>8. CASE TakeSeat(c)
  <2> USE <1>8 DEF TakeSeat
  <2>1. wr_end \in Slots /\ ~Occupied(wr_end)
    BY DEF RingFilled, Occupied
  <2>2. Steps(wr_start, wr_end) = wr_count
    BY DEF RingFilled
  <2>3. ASSUME NEW s \in Slots
        PROVE  Occupied(s)' <=> Occupied(s) \/ s = wr_end
    <3>1. /\ Steps(wr_start, s) \in 0 .. Capacity - 1
          /\ Steps(wr_start, s) = wr_count => s = wr_end
      BY <2>1, <2>2, StepsType
    <3> QED
      BY <2>2, <3>1 DEF Occupied
  <2>4. RingFilled'
    <3>1. (Steps(wr_start, wr_end) =
             IF wr_count = Capacity THEN 0 ELSE wr_count)'
      <4>1. Steps(wr_start, wr_end') =
              IF wr_count = Capacity - 1 THEN 0 ELSE wr_count + 1
        BY <2>1, <2>2, StepsToNext
      <4> QED
        BY <4>1
    <3>2. (\A s \in Slots : Occupied(s) =>
             /\ pid[s] \in Clients
             /\ cpc[pid[s]] = "waiting"
             /\ my_seat[pid[s]] = s
             /\ waiting[s] = 0)'
      BY <2>1, <2>3 DEF RingFilled
    <3> QED
      BY <3>1, <3>2 DEF RingFilled
  <2>5. \A d \in Clients : Popped(d)' <=> Popped(d)
    BY <2>1, <2>3 DEF Popped, Queued
  <2>6. \A d \in Clients : Serving(d)' = Serving(d)
    BY DEF Serving
  <2>7. \A d \in Clients : Popped(d) => d # c
    BY DEF Popped
  <2>8. bpc # "invite"
    BY DEF RoomMutex, ClientHolds, BarberHolds
  <2>9. PoppedOne'
    BY <2>1, <2>5, <2>6, <2>7, <2>8 DEF PoppedOne
  <2> QED
    BY <2>4, <2>9
<1>9. CASE CalledToChair(c)
  <2> USE <1>9 DEF CalledToChair
  <2>1. Popped(c)
    BY DEF Popped, Queued, RingFilled
  <2>2. \A s \in Slots : Occupied(s)' <=> Occupied(s)
    BY DEF Occupied
  <2>3. ~\E s \in Slots : Occupied(s) /\ pid[s] = c
    BY <2>1 DEF RingFilled, Popped, Queued
  <2>4. RingFilled'
    BY <2>2, <2>3 DEF RingFilled
  <2>5. \A d \in Clients : ~Popped(d)'
    BY <2>1, <2>2 DEF Popped, Queued, PoppedOne
  <2>6. PoppedOne'
    BY <2>2, <2>5 DEF PoppedOne
  <2> QED
    BY <2>4, <2>6
<1>10. CASE SitDown(c)
  BY <1>10 DEF SitDown, RingFilled, PoppedOne, Popped, Queued, Occupied,
               Serving
<1>11. CASE Ready(c)
  BY <1>11 DEF Ready, RingFilled, PoppedOne, Popped, Queued, Occupied,
               Serving
<1>12. CASE HaircutDone(c)
  BY <1>12 DEF HaircutDone, RingFilled, PoppedOne, Popped, Queued, Occupied, Serving
<1>13. CASE StandUp(c)
  BY <1>13 DEF StandUp, RingFilled, PoppedOne, Popped, Queued, Occupied,
               Serving
<1>14. CASE LeaveShop(c)
  BY <1>14 DEF LeaveShop, RingFilled, PoppedOne, Popped, Queued, Occupied, Serving
<1> QED
  BY <1>1, <1>2, <1>3, <1>4, <1>5, <1>6, <1>7, <1>8, <1>9, <1>10, <1>11, <1>12,
     <1>13, <1>14 DEF ClientStep

\* A signal leaves the shared memory and the labels as they are.
LEMMA KillQueue ==
  ASSUME Inv, (\E p \in Clients \cup {Barber} : Kill(p)) \/ UNCHANGED vars
  PROVE  QueueInv'
  BY DEF Inv, QueueInv, Kill, vars, semaphores, ring, seats, clientVars,
         RingFilled, PoppedOne, Popped, Queued, Occupied, Serving

\* Every step preserves the invariant.
LEMMA NextInv == ASSUME Inv, [Next]_vars PROVE Inv'
<1>1. ChairInv
  BY DEF Inv
<1>2. CASE BarberStep
  BY <1>1, <1>2, BarberStepChair, BarberStepQueue DEF Inv
<1>3. CASE \E c \in Clients : ClientStep(c)
  BY <1>1, <1>3, ClientStepChair, ClientStepQueue DEF Inv
<1>4. CASE (\E p \in Clients \cup {Barber} : Kill(p)) \/ UNCHANGED vars
  BY <1>1, <1>4, KillChair, KillQueue DEF Inv
<1> QED
  BY <1>2, <1>3, <1>4 DEF Next

\* Inv holds in every reachable state: mx_waiting_room is a mutex, the labels,
\* the chair and the tokens of the semaphores agree with each other, and the
\* ring holds exactly the clients that wait, but for the one the barber popped.
THEOREM Invariance == Spec => []Inv
<1>1. Init => Inv
  BY InitChair, InitQueue DEF Inv
<1>2. Inv /\ [Next]_vars => Inv'
  BY NextInv
<1> QED
  BY <1>1, <1>2, PTL DEF Spec

\* Every variable keeps its type; in particular no semaphore of the shop ever
\* exceeds 1 and the ring's indices stay inside the waiting room.
THEOREM TypeCorrect == Spec => []TypeOK
<1>1. Inv => TypeOK
  BY DEF Inv, ChairInv
<1> QED
  BY Invariance, <1>1, PTL

\* At most one client is on the way to the chair, in it or leaving it, for any
\* number of clients and seats and whichever processes are killed when.
THEOREM ServesOneClient == Spec => []OneClientServed
<1>1. Inv => OneClientServed
  BY DEF Inv, ChairInv
<1> QED
  BY Invariance, <1>1, PTL

\* A client that reads barber_sleeping under the mutex may rely on it: nobody
\* is waiting, the chair is free and nobody else is on the way to it.
THEOREM SleepingMeansFree == Spec => []SleepMeansFree
<1>1. Inv => SleepMeansFree
  BY DEF Inv, ChairInv, FlagStable, BarberPhase, ChairIdle, SleepMeansFree
<1> QED
  BY Invariance, <1>1, PTL

\* The shop implements HaircutService: putting aside the waiting room and the
\* semaphores, every step sits a client down in a free chair, finishes the
\* haircut of the client in it, or lets that client get up.
THEOREM ImplementsService == Spec => ServiceImplemented
<1>1. Init => Service!ServiceInit
  BY DEF Init, InitialShop, Service!ServiceInit
<1>2. ASSUME Inv, [Next]_vars
      PROVE  Service!ServiceNext \/ UNCHANGED Service!serviceVars
  <2> USE <1>2, ProcessAssumption
      DEF Inv, ChairInv, TypeOK, semaphores, ring, seats, clientVars,
          Service!ServiceNext, Service!serviceVars
  <2>1. CASE BarberStep
    <3>1. CASE FinishHaircut
      <4>1. Service!Cut
        BY <3>1 DEF FinishHaircut, BarberAt, BarberPhase, Service!Cut
      <4> QED BY <4>1
    <3>2. CASE NextCustomer
      BY <3>2 DEF NextCustomer, BarberAt, WaitCustomer, TokenOwner
    <3> QED
      BY <2>1, <3>1, <3>2 DEF BarberStep, BarberAt, BarberEnter, WrPop,
         WrPopEmpty, Invite, Invited, GoToSleep, BarberWoken, StartHaircut
  <2>2. ASSUME NEW c \in Clients, ClientStep(c)
        PROVE  Service!ServiceNext \/ UNCHANGED Service!serviceVars
    <3>1. CASE SitDown(c)
      <4>1. Service!Sit(c)
        BY <3>1 DEF SitDown, ClientAt, ClientPhase, Service!Sit
      <4> QED BY <4>1
    <3>2. CASE StandUp(c)
      <4>1. Service!GetUp(c)
        BY <3>2 DEF StandUp, ClientAt, ClientPhase, Service!GetUp
      <4> QED BY <4>1
    <3> QED
      BY <2>2, <3>1, <3>2 DEF ClientStep, ClientAt, StartClient, EnterShop,
         GoHome, LookAtBarber, WakeBarber, WalkToChair, TurnedAway, TakeSeat,
         CalledToChair, Ready, HaircutDone, LeaveShop
  <2>3. CASE (\E p \in Clients \cup {Barber} : Kill(p)) \/ UNCHANGED vars
    BY <2>3 DEF Kill, vars
  <2> QED
    BY <2>1, <2>2, <2>3 DEF Next
<1> QED
  BY Invariance, <1>1, <1>2, PTL DEF Spec, ServiceImplemented, Service!ServiceSpec

\* The barber never sleeps while a client sits in the waiting room: asleep it
\* has popped nobody and the ring is empty (barber.c:113-120, client.c:51-65).
THEOREM NeverSleepsOverWaiting == Spec => []NoSleepOverWaiting
<1>1. Inv => NoSleepOverWaiting
  <2> SUFFICES ASSUME Inv, barber_sleeping, NEW c \in Clients, cpc[c] = "waiting"
               PROVE  FALSE
    BY DEF NoSleepOverWaiting
  <2> USE DEF Inv, ChairInv, QueueInv, TypeOK
  <2>1. bpc = "asleep" /\ wr_count = 0
    BY DEF FlagStable
  <2>2. ~Popped(c)
    BY <2>1 DEF PoppedOne
  <2>3. Occupied(my_seat[c])
    BY <2>2 DEF Popped, Queued
  <2> QED
    BY <2>1, <2>3, StepsType DEF Occupied
<1> QED
  BY Invariance, <1>1, PTL

\* Only CalledToChair takes a client from the waiting room, only the popped
\* client finds its semaphore posted, and then the seat still holds its pid.
LEMMA CalledFollowsStep == Inv /\ [Next]_vars => CalledFollows
<1> SUFFICES ASSUME Inv, [Next]_vars,
                    NEW c \in Clients, cpc[c] = "waiting", cpc'[c] = "sit"
             PROVE  pid[next] = c
  BY DEF CalledFollows
<1> USE DEF Inv, ChairInv, TypeOK, QueueInv
<1>1. CalledToChair(c)
  <2>1. \A d \in Clients : ClientStep(d) => d = c
    BY DEF ClientStep, ClientAt, StartClient, EnterShop, GoHome, LookAtBarber,
       WakeBarber, WalkToChair, TurnedAway, TakeSeat, CalledToChair, SitDown,
       Ready, HaircutDone, StandUp, LeaveShop
  <2>2. ClientStep(c)
    BY <2>1 DEF Next, vars, Kill, BarberStep, BarberEnter, WrPop, WrPopEmpty,
       Invite, Invited, GoToSleep, BarberWoken, StartHaircut, FinishHaircut,
       NextCustomer
  <2> QED
    BY <2>2 DEF ClientStep, ClientAt, StartClient, EnterShop, GoHome, LookAtBarber,
       WakeBarber, WalkToChair, TurnedAway, TakeSeat, SitDown,
       Ready, HaircutDone, StandUp, LeaveShop
<1>2. Popped(c) /\ waiting[my_seat[c]] # 0
  BY <1>1 DEF CalledToChair, Popped, Queued, RingFilled
<1> QED
  BY <1>2 DEF PoppedOne

\* The client that follows the barber's call is the one whose pid the barber
\* read (barber.c:108-110), also with more clients than seats.
THEOREM CalledComes == Spec => CalledClientComes
<1>1. Inv /\ [Next]_vars => [CalledFollows]_vars
  BY CalledFollowsStep
<1> QED
  BY Invariance, <1>1, PTL DEF Spec, CalledClientComes

\* A full ring holds as many clients as there are seats, none of them the one
\* that is about to call wr_push.
LEMMA SeatForEverybody == EnoughSeats /\ Inv => NobodyTurnedAway
<1> SUFFICES ASSUME EnoughSeats, Inv, NEW c \in Clients, cpc[c] = "queue",
                    wr_count = Capacity
             PROVE  FALSE
  BY ShopAssumption DEF NobodyTurnedAway, Inv, ChairInv, TypeOK
<1> USE ShopAssumption DEF Inv, ChairInv, TypeOK, QueueInv, EnoughSeats
<1>1. \A s \in Slots : Occupied(s)
  BY StepsType DEF Occupied
<1>2. pid \in Injection(Slots, Clients \ {c})
  <2>1. pid \in [Slots -> Clients \ {c}]
    BY <1>1 DEF RingFilled
  <2>2. \A s, t \in Slots : pid[s] = pid[t] => s = t
    BY <1>1 DEF RingFilled
  <2> QED
    BY <2>1, <2>2 DEF Injection, IsInjective
<1>3. Cardinality(Slots) = Capacity
  BY FS_Interval DEF Slots
<1>4. /\ IsFiniteSet(Clients \ {c})
      /\ Cardinality(Clients \ {c}) = Cardinality(Clients) - 1
  BY FS_RemoveElement
<1>5. Cardinality(Slots) <= Cardinality(Clients \ {c})
  BY <1>2, <1>4, FS_Injection
<1>6. Cardinality(Clients) \in Nat
  BY FS_CardinalityType
<1> QED
  BY <1>3, <1>4, <1>5, <1>6

\* With no more clients than seats wr_push never returns NULL
\* (barber-shop.c:35-42), whoever is killed when.
THEOREM SeatsForAll == EnoughSeats => (Spec => []NobodyTurnedAway)
<1> SUFFICES ASSUME EnoughSeats PROVE Spec => []NobodyTurnedAway
  OBVIOUS
<1>1. Inv => NobodyTurnedAway
  BY SeatForEverybody
<1> QED
  BY Invariance, <1>1, PTL

\* With no more clients than seats wr_push does not give the seat of the popped
\* client to another one: the others would fill the rest of the ring.
LEMMA PoppedSeatIsSafe ==
  ASSUME EnoughSeats, Inv, NEW c \in Clients, Popped(c),
         NEW d \in Clients, cpc[d] = "queue"
  PROVE  wr_end # next
<1> SUFFICES ASSUME wr_end = next PROVE FALSE
  OBVIOUS
<1> USE ShopAssumption DEF Inv, ChairInv, TypeOK, QueueInv, EnoughSeats
<1>1. wr_count < Capacity
  BY SeatForEverybody DEF NobodyTurnedAway
<1>2. Steps(wr_start, next) = wr_count /\ wr_start = NextSeat(next)
  BY <1>1 DEF RingFilled, PoppedOne
<1>3. wr_count = Capacity - 1
  BY <1>2, StepsFromNext
<1>4. \A s \in Slots \ {next} : Occupied(s)
  <2> SUFFICES ASSUME NEW s \in Slots \ {next} PROVE Occupied(s)
    OBVIOUS
  <2>1. Steps(wr_start, s) \in 0 .. Capacity - 1 /\ Steps(wr_start, s) # wr_count
    BY <1>2, StepsType
  <2> QED
    BY <1>3, <2>1 DEF Occupied
<1> DEFINE others == [s \in Slots \ {next} |-> pid[s]]
<1>5. others \in Injection(Slots \ {next}, (Clients \ {c}) \ {d})
  <2>1. \A s \in Slots \ {next} : pid[s] \in (Clients \ {c}) \ {d}
    BY <1>4 DEF RingFilled, PoppedOne
  <2>2. \A s, t \in Slots \ {next} : pid[s] = pid[t] => s = t
    BY <1>4 DEF RingFilled
  <2> QED
    BY <2>1, <2>2 DEF Injection, IsInjective
<1>6. Cardinality(Slots \ {next}) = Capacity - 1
  <2>1. IsFiniteSet(Slots) /\ Cardinality(Slots) = Capacity
    BY FS_Interval DEF Slots
  <2> QED
    BY <2>1, FS_RemoveElement
<1>7. /\ IsFiniteSet((Clients \ {c}) \ {d})
      /\ Cardinality((Clients \ {c}) \ {d}) = Cardinality(Clients) - 2
  <2>1. d # c
    BY DEF Popped
  <2>2. Cardinality(Clients) \in Nat
    BY FS_CardinalityType
  <2>3. /\ IsFiniteSet(Clients \ {c})
        /\ Cardinality(Clients \ {c}) = Cardinality(Clients) - 1
    BY FS_RemoveElement
  <2> QED
    <3> DEFINE T == Clients \ {c}
    <3>1. d \in T /\ IsFiniteSet(T) /\ Cardinality(T) = Cardinality(Clients) - 1
      BY <2>1, <2>3
    <3> HIDE DEF T
    <3>2. IsFiniteSet(T \ {d}) /\ Cardinality(T \ {d}) = Cardinality(T) - 1
      BY <3>1, FS_RemoveElement
    <3> QED
      BY <2>2, <3>1, <3>2 DEF T
<1>8. Capacity - 1 <= Cardinality(Clients) - 2
  BY <1>5, <1>6, <1>7, FS_Injection
<1>9. Cardinality(Clients) \in Nat
  BY FS_CardinalityType
<1> QED
  BY <1>8, <1>9

\* With no more clients than seats no invitation is lost: new_seat
\* (barber-shop.c:51) never re-initialises a semaphore that carries one.
THEOREM NoInvitationLost == EnoughSeats => (Spec => []InvitationKept)
<1> SUFFICES ASSUME EnoughSeats PROVE Spec => []InvitationKept
  OBVIOUS
<1>1. Init => InvitationKept
  BY DEF Init, InitialShop, InvitationKept, Popped
<1>2. Inv /\ InvitationKept /\ [Next]_vars => InvitationKept'
  <2> SUFFICES ASSUME Inv, InvitationKept, [Next]_vars,
                      NEW c \in Clients, Popped(c)'
               PROVE  (bpc = "invite" \/ waiting[my_seat[c]] = 1)'
    BY DEF InvitationKept
  <2> USE DEF InvitationKept, Inv, ChairInv, QueueInv, TypeOK, semaphores,
          ring, seats, clientVars, BarberAt, ClientAt
  <2>1. CASE WrPop
    BY <2>1 DEF WrPop
  <2>2. CASE Invite
    BY <2>2 DEF Invite, Popped, Queued, Occupied, PoppedOne, BarberPhase, ChairIdle
  <2>3. CASE BarberStep /\ ~WrPop /\ ~Invite
    BY <2>3 DEF BarberStep, BarberEnter, WrPopEmpty, Invited, GoToSleep,
       BarberWoken, StartHaircut, FinishHaircut, NextCustomer, Popped, Queued,
       Occupied
  <2>4. CASE \E d \in Clients : TakeSeat(d)
    <3>1. PICK d \in Clients : TakeSeat(d)
      BY <2>4
    <3>2. Popped(c) /\ my_seat'[c] = my_seat[c] /\ my_seat[c] = next
      <4>1. c # d
        BY <3>1, StepsType, Inv DEF TakeSeat, Popped, Queued, Occupied, RingFilled
      <4> QED
        <5>1. my_seat'[c] = my_seat[c] /\ cpc[c] = "waiting"
          BY <3>1, <4>1 DEF TakeSeat, Popped
        <5>2. Occupied(my_seat[c]) => Occupied(my_seat[c])' /\ my_seat[c] # wr_end
          BY <3>1, StepsType DEF TakeSeat, Occupied, RingFilled
        <5>3. Popped(c)
          BY <3>1, <5>1, <5>2 DEF TakeSeat, Popped, Queued
        <5> QED
          BY <5>1, <5>3 DEF PoppedOne
    <3>3. wr_end # next
      BY <3>1, <3>2, PoppedSeatIsSafe DEF TakeSeat
    <3> QED
      BY <3>1, <3>2, <3>3 DEF TakeSeat
  <2>5. CASE \E d \in Clients : ClientStep(d) /\ ~TakeSeat(d)
    <3>1. PICK d \in Clients : ClientStep(d) /\ ~TakeSeat(d)
      BY <2>5
    <3>2. Popped(c)
      BY <3>1 DEF ClientStep, StartClient, EnterShop, GoHome, LookAtBarber,
         WakeBarber, WalkToChair, TurnedAway, CalledToChair, SitDown,
         Ready, HaircutDone, StandUp, LeaveShop, Popped, Queued, Occupied
    <3>3. CASE CalledToChair(d)
      <4>1. Popped(d)
        BY <3>3 DEF CalledToChair, Popped, Queued, RingFilled
      <4> QED
        BY <3>2, <3>3, <4>1 DEF CalledToChair, Popped, PoppedOne
    <3> QED
      BY <3>1, <3>2, <3>3 DEF ClientStep, StartClient, EnterShop, GoHome, LookAtBarber,
         WakeBarber, WalkToChair, TurnedAway, SitDown,
         Ready, HaircutDone, StandUp, LeaveShop
  <2>6. CASE (\E p \in Clients \cup {Barber} : Kill(p)) \/ UNCHANGED vars
    BY <2>6 DEF Kill, vars, Popped, Queued, Occupied
  <2> QED
    BY <2>1, <2>2, <2>3, <2>4, <2>5, <2>6 DEF Next
<1> QED
  BY Invariance, <1>1, <1>2, PTL DEF Spec

-----------------------------------------------------------------------------
\* The run over both builds: a behaviour of the POSIX build is one of Spec.
LEMMA BuildsStep ==
  ASSUME build = "POSIX", [BuildsNext]_buildsVars
  PROVE  build' = "POSIX" /\ [Next]_vars
  BY DEF BuildsNext, buildsVars, sysVVars, SysV!sysVVars, SysV!vars,
         SysV!semaphores, SysV!ring, SysV!seats, SysV!clientVars, vars,
         semaphores, ring, seats, clientVars

\* The invariant in the behaviours of the POSIX build.
LEMMA BuildsInvariance == BuildsSpec => [](build = "POSIX" => Inv)
<1>1. BuildsInit => (build = "POSIX" => Inv)
  BY InitChair, InitQueue DEF BuildsInit, Inv
<1>2. (build = "POSIX" => Inv) /\ [BuildsNext]_buildsVars
        => (build = "POSIX" => Inv)'
  <2> SUFFICES ASSUME build = "POSIX" => Inv, [BuildsNext]_buildsVars,
                      build' = "POSIX"
               PROVE  Inv'
    OBVIOUS
  <2>1. build = "POSIX"
    BY DEF BuildsNext, buildsVars
  <2> QED
    BY <2>1, BuildsStep, NextInv
<1> QED
  BY <1>1, <1>2, PTL DEF BuildsSpec

\* wr_push finds a seat for every client of one batch (barber-shop.c:35-42), in
\* a shop of any size.
THEOREM PosixSeatsForAll == EnoughSeats => (BuildsSpec => []PosixNobodyTurnedAway)
<1> SUFFICES ASSUME EnoughSeats PROVE BuildsSpec => []PosixNobodyTurnedAway
  OBVIOUS
<1>1. (build = "POSIX" => Inv) => PosixNobodyTurnedAway
  BY SeatForEverybody DEF PosixNobodyTurnedAway
<1> QED
  BY BuildsInvariance, <1>1, PTL

\* The client that follows the barber's call is the one whose pid the barber
\* read from the seat (barber.c:108-110), in a shop of any size.
THEOREM PosixCalledComes == BuildsSpec => PosixCalledClientComes
<1>1. (build = "POSIX" => Inv) /\ [BuildsNext]_buildsVars
        => [build = "POSIX" => CalledFollows]_buildsVars
  BY BuildsStep, CalledFollowsStep
<1> QED
  BY BuildsInvariance, <1>1, PTL DEF BuildsSpec, PosixCalledClientComes
-----------------------------------------------------------------------------
(***************************************************************************)
(* The System V build.  The invariant has two halves again.  SetChairInv   *)
(* is ChairInv with the invitations in the seats' sets, and what is left   *)
(* of it once the barber has ended: its exit removes the shop's sets, and  *)
(* a client whose wait fails goes on, so that the labels no longer agree.  *)
(* SetQueueInv is about the ids: it holds while the barber lives and no    *)
(* more clients have come than there are seats.                            *)
(***************************************************************************)

\* The seat sets the barber has posted to.
Posted == {i \in DOMAIN sets : sets[i] # 0}

\* Every id a seat can hold.
Ids == [by : Clients \cup {Nobody}, for : {"none", "seat", "chair"},
        visit : 0 .. SysVHaircuts]

\* The types of the System V shop: a set's semaphore is 0 or 1.
SetTypeOK ==
  /\ barber_chair \in Clients \cup {Nobody}
  /\ mx_waiting_room \in 0 .. 1
  /\ sem_barber_sleeping \in 0 .. 1
  /\ sem_barber_ready \in 0 .. 1
  /\ sem_customer_ready \in 0 .. 1
  /\ barber_sleeping \in BOOLEAN
  /\ wr_count \in 0 .. SysVSeats
  /\ wr_start \in SysV!Slots
  /\ wr_end \in SysV!Slots
  /\ pid \in [SysV!Slots -> Clients \cup {Nobody}]
  /\ next \in SysV!Slots
  /\ bpc \in SysV!BarberLabels
  /\ cpc \in [Clients -> SysV!ClientLabels]
  /\ my_seat \in [Clients -> SysV!Slots]
  /\ haircuts \in [Clients -> 0 .. SysVHaircuts]
  /\ waiting \in [SysV!Slots -> Ids]
  /\ chair_id \in Ids
  /\ blocked \in [Clients -> Ids]
  /\ sets \in [DOMAIN sets -> 0 .. 1]

\* Nobody is entitled to the chair and no semaphore carries a token.
ShopIdle ==
  /\ barber_chair = Nobody
  /\ sem_barber_sleeping = 0
  /\ sem_barber_ready = 0
  /\ sem_customer_ready = 0
  /\ Posted = {}
  /\ \A c \in Clients : ~SysV!Serving(c)

\* Where the barber is determines which tokens exist (BarberPhase).
ShopPhase ==
  /\ bpc \in {"enter", "look", "drowse", "invite"} \/ barber_sleeping
       => ShopIdle
  /\ bpc # "asleep" => sem_barber_sleeping = 0
  /\ bpc = "asleep" => sem_barber_sleeping = IF barber_sleeping THEN 0 ELSE 1
  /\ bpc \in {"invited", "asleep", "await"} => sem_barber_ready = 0
  /\ bpc = "cut" => /\ sem_barber_ready = 0
                    /\ sem_customer_ready = 0
                    /\ barber_chair # Nobody

\* There is at most one invitation, and while it is out nobody is served.
OnePosted ==
  /\ \A i, j \in Posted : i = j
  /\ Posted # {} => \A c \in Clients : ~SysV!Serving(c)

\* An invitation is out only between the barber's post and the haircut.
PostedPhase ==
  Posted # {} => /\ bpc \in {"invited", "await"}
                 /\ barber_chair = Nobody
                 /\ sem_customer_ready = 0

\* The chair protocol while the barber lives, and what is left of it when the
\* shop's semaphores are removed.
LivingShop == /\ SysV!RoomMutex /\ SysV!FlagStable /\ ShopPhase
              /\ PostedPhase /\ SysV!ClientPhase /\ SysV!TokenOwner
SetsInv == SetTypeOK /\ SysV!OneClientServed /\ OnePosted
SetChairInv == SetsInv /\ (Barber \notin killed => LivingShop)

-----------------------------------------------------------------------------
\* A client has a seat set from new_seat until delete_seat; all this time it is
\* in the ring, or the barber has popped its seat.
HoldsSeat(c) == cpc[c] = "waiting" \/ blocked[c] # SysV!NoSet
OutOfRing(c) == HoldsSeat(c) /\ ~SysV!Queued(c)

\* The ring's fields agree, and every seat of the ring holds the pid of a client
\* that waits on that seat, in a set nobody has posted to.
RingSets ==
  /\ SysV!Steps(wr_start, wr_end) = IF wr_count = SysVSeats THEN 0 ELSE wr_count
  /\ \A s \in SysV!Slots : SysV!Occupied(s) =>
       /\ pid[s] \in Clients
       /\ cpc[pid[s]] = "waiting"
       /\ my_seat[pid[s]] = s
       /\ sets[waiting[s]] = 0

\* The one client that has a seat set and is out of the ring is the one whose
\* seat the barber popped, and until it has deleted its set no other client
\* takes that seat: with seats for all, the ring cannot come round to it.
OneOut ==
  /\ \A c \in Clients : OutOfRing(c) =>
       /\ my_seat[c] = next /\ pid[next] = c
       /\ wr_start = SysV!NextSeat(next) /\ ~SysV!Occupied(next)
       /\ cpc[c] = "waiting" => /\ bpc \in {"invite", "invited", "await"}
                                /\ \A d \in Clients : ~SysV!Serving(d)
  /\ bpc = "invite" => \E c \in Clients : OutOfRing(c) /\ cpc[c] = "waiting"

\* The kernel's sets are those in use, the chair has the id of the set made for
\* whoever sits in it, and the id in a client's seat is that of its own set.
SeatSets ==
  /\ DOMAIN sets = UNION {SysV!InUse(c) : c \in Clients}
  /\ chair_id = IF barber_chair = Nobody THEN SysV!NoSet ELSE SysV!Set(barber_chair, "chair")
  /\ \A c \in Clients :
       /\ cpc[c] # "left"
       /\ blocked[c] \in {SysV!NoSet, SysV!Set(c, "seat")}
       /\ blocked[c] # SysV!NoSet => cpc[c] \in {"waiting", "sit", "seated"}
       /\ HoldsSeat(c) => waiting[my_seat[c]] = SysV!Set(c, "seat")

SetQueueInv == RingSets /\ OneOut /\ SeatSets

\* The hypothesis of SetsInUse.
Roomy == Barber \notin killed /\ Cardinality(SysV!Come) <= SysVSeats

\* The inductive invariant: the chair protocol always, the sets while there are
\* seats for all.
SetInv == SetChairInv /\ IsFiniteSet(SysV!Come) /\ (Roomy => SetQueueInv)

-----------------------------------------------------------------------------
\* The ring of the System V shop, which has its own number of seats.
LEMMA SetNextSeatType == \A s \in SysV!Slots : SysV!NextSeat(s) \in SysV!Slots
  BY SysVAssumption DEF SysV!Slots, SysV!NextSeat

\* Making and removing sets takes invitations away at most.
LEMMA CreatePosted ==
  ASSUME SetTypeOK, NEW id, SysV!Create(id)
  PROVE  /\ Posted' \subseteq Posted
         /\ sets' \in [DOMAIN sets' -> 0 .. 1]
  BY DEF SetTypeOK, SysV!Create, Posted

\* Likewise for a set that delete_seat removes.
LEMMA RemovePosted ==
  ASSUME SetTypeOK, NEW id, SysV!Remove(id)
  PROVE  /\ Posted' \subseteq Posted
         /\ sets' \in [DOMAIN sets' -> 0 .. 1]
  BY DEF SetTypeOK, SysV!Remove, Posted

\* The sets of seats and of the chair are ids, and never the empty seat's.
LEMMA SetType ==
  ASSUME SetTypeOK, NEW c \in Clients, NEW p \in {"seat", "chair"}
  PROVE  SysV!Set(c, p) \in Ids /\ SysV!NoSet \in Ids /\ SysV!Set(c, p) # SysV!NoSet
  BY ProcessAssumption, SysVAssumption DEF SetTypeOK, Ids, SysV!Set, SysV!NoSet

\* initialize_barber establishes SetChairInv.
LEMMA InitSetChair == SysV!SysVInit => SetChairInv
<1> SUFFICES ASSUME SysV!SysVInit PROVE SetChairInv
  OBVIOUS
<1> USE ProcessAssumption, SysVAssumption DEF SysV!SysVInit, SysV!InitialShop,
       SysV!NoSets
<1>1. DOMAIN sets = {} /\ Posted = {}
  BY DEF Posted
<1>2. SetTypeOK
  <2>1. 0 \in SysV!Slots /\ 0 \in 0 .. SysVSeats /\ SysVHaircuts \in 0 .. SysVHaircuts
    BY DEF SysV!Slots
  <2>2. barber_sleeping \in BOOLEAN
    OBVIOUS
  <2>3. SysV!NoSet \in Ids
    BY DEF SysV!NoSet, Ids
  <2>4. sets \in [DOMAIN sets -> 0 .. 1]
    BY <1>1
  <2> QED
    BY <2>1, <2>2, <2>3, <2>4 DEF SetTypeOK, SysV!BarberLabels,
       SysV!ClientLabels
<1>3. SysV!RoomMutex /\ SysV!FlagStable
  BY DEF SysV!RoomMutex, SysV!FlagStable, SysV!BarberHolds, SysV!ClientHolds
<1>4. ShopIdle /\ SysV!OneClientServed
  BY <1>1 DEF ShopIdle, SysV!Serving, SysV!OneClientServed
<1>5. ShopPhase /\ OnePosted /\ PostedPhase /\ SysV!ClientPhase /\ SysV!TokenOwner
  BY <1>1, <1>4 DEF ShopPhase, OnePosted, PostedPhase, SysV!ClientPhase,
     SysV!TokenOwner, ShopIdle
<1> QED
  BY <1>2, <1>3, <1>4, <1>5 DEF SetChairInv, SetsInv, LivingShop

\* A step of the living barber.
LEMMA LivingBarberStep ==
  ASSUME SetsInv, LivingShop, SysV!SysVBarberStep, ~SysV!InviteFails
  PROVE  SetsInv' /\ LivingShop'
<1> USE ProcessAssumption, SysVAssumption DEF SetsInv, LivingShop, SetTypeOK,
       SysV!semaphores, SysV!ring, SysV!seats, SysV!clientVars, SysV!setVars,
       SysV!BarberAt
<1>1. CASE SysV!InviteClient
  <2> USE <1>1 DEF SysV!InviteClient
  <2>z. Posted = {} /\ ShopIdle BY DEF ShopPhase, ShopIdle
  <2>0. Posted' = {waiting[next]} BY <2>z DEF Posted
  <2>1. SetTypeOK'
    <3>1. sets[waiting[next]] = 0 BY <2>z DEF Posted
    <3>2. sets' \in [DOMAIN sets' -> 0 .. 1] BY <3>1
    <3> QED BY <3>2 DEF SysV!BarberLabels
  <2>2. SysV!RoomMutex' BY DEF SysV!RoomMutex, SysV!BarberHolds
  <2>3. SysV!FlagStable' BY DEF SysV!FlagStable
  <2>4. ShopPhase' BY <2>z DEF ShopPhase, ShopIdle, SysV!FlagStable
  <2>5. OnePosted' BY <2>0, <2>z DEF OnePosted, SysV!Serving, ShopIdle
  <2>9. PostedPhase' BY <2>0, <2>z DEF PostedPhase, ShopIdle
  <2>6. SysV!ClientPhase' BY DEF SysV!ClientPhase
  <2>7. SysV!TokenOwner' BY <2>z DEF SysV!TokenOwner, ShopIdle
  <2>8. SysV!OneClientServed' BY DEF SysV!OneClientServed, SysV!Serving
  <2> QED BY <2>1, <2>2, <2>3, <2>4, <2>5, <2>6, <2>7, <2>8, <2>9

<1>2. CASE SysV!BarberEnter /\ UNCHANGED SysV!setVars
  <2> USE <1>2 DEF SysV!BarberEnter, SysV!LockRoom
  <2>0. Posted' = Posted BY DEF Posted
  <2>1. SetTypeOK' BY DEF SysV!BarberLabels
  <2>2. SysV!RoomMutex' BY DEF SysV!RoomMutex
  <2>3. SysV!FlagStable' BY DEF SysV!FlagStable
  <2>4. ShopPhase' BY <2>0 DEF ShopPhase, ShopIdle, SysV!Serving
  <2>5. OnePosted'
    BY <2>0 DEF OnePosted, PostedPhase, ShopIdle, ShopPhase, SysV!Serving
  <2>9. PostedPhase'
    BY <2>0 DEF OnePosted, PostedPhase, ShopIdle, ShopPhase, SysV!ClientPhase,
       SysV!TokenOwner
  <2>6. SysV!ClientPhase' BY DEF SysV!ClientPhase
  <2>7. SysV!TokenOwner' BY DEF SysV!TokenOwner
  <2>8. SysV!OneClientServed' BY DEF SysV!OneClientServed, SysV!Serving
  <2> QED BY <2>1, <2>2, <2>3, <2>4, <2>5, <2>6, <2>7, <2>8, <2>9
<1>3. CASE SysV!WrPop /\ UNCHANGED SysV!setVars
  <2> USE <1>3 DEF SysV!WrPop
  <2>0. Posted' = Posted BY DEF Posted
  <2>1. SetTypeOK' BY SetNextSeatType DEF SysV!BarberLabels
  <2>2. SysV!RoomMutex' BY DEF SysV!RoomMutex, SysV!BarberHolds
  <2>3. SysV!FlagStable' BY DEF SysV!FlagStable
  <2>4. ShopPhase' BY <2>0 DEF ShopPhase, ShopIdle, SysV!Serving
  <2>5. OnePosted'
    BY <2>0 DEF OnePosted, PostedPhase, ShopIdle, ShopPhase, SysV!Serving
  <2>9. PostedPhase'
    BY <2>0 DEF OnePosted, PostedPhase, ShopIdle, ShopPhase, SysV!ClientPhase,
       SysV!TokenOwner
  <2>6. SysV!ClientPhase' BY DEF SysV!ClientPhase
  <2>7. SysV!TokenOwner' BY DEF SysV!TokenOwner
  <2>8. SysV!OneClientServed' BY DEF SysV!OneClientServed, SysV!Serving
  <2> QED BY <2>1, <2>2, <2>3, <2>4, <2>5, <2>6, <2>7, <2>8, <2>9
<1>4. CASE SysV!WrPopEmpty /\ UNCHANGED SysV!setVars
  <2> USE <1>4 DEF SysV!WrPopEmpty
  <2>0. Posted' = Posted BY DEF Posted
  <2>1. SetTypeOK' BY DEF SysV!BarberLabels
  <2>2. SysV!RoomMutex' BY DEF SysV!RoomMutex, SysV!BarberHolds
  <2>3. SysV!FlagStable' BY DEF SysV!FlagStable
  <2>4. ShopPhase' BY <2>0 DEF ShopPhase, ShopIdle, SysV!Serving
  <2>5. OnePosted'
    BY <2>0 DEF OnePosted, PostedPhase, ShopIdle, ShopPhase, SysV!Serving
  <2>9. PostedPhase'
    BY <2>0 DEF OnePosted, PostedPhase, ShopIdle, ShopPhase, SysV!ClientPhase,
       SysV!TokenOwner
  <2>6. SysV!ClientPhase' BY DEF SysV!ClientPhase
  <2>7. SysV!TokenOwner' BY DEF SysV!TokenOwner
  <2>8. SysV!OneClientServed' BY DEF SysV!OneClientServed, SysV!Serving
  <2> QED BY <2>1, <2>2, <2>3, <2>4, <2>5, <2>6, <2>7, <2>8, <2>9
<1>5. CASE SysV!Invited /\ UNCHANGED SysV!setVars
  <2> USE <1>5 DEF SysV!Invited, SysV!UnlockRoom
  <2>0. Posted' = Posted BY DEF Posted
  <2>1. SetTypeOK' BY DEF SysV!BarberLabels, SysV!RoomMutex, SysV!BarberHolds
  <2>2. SysV!RoomMutex' BY DEF SysV!RoomMutex, SysV!BarberHolds
  <2>3. SysV!FlagStable' BY DEF SysV!FlagStable
  <2>4. ShopPhase' BY <2>0 DEF ShopPhase, ShopIdle, SysV!Serving
  <2>5. OnePosted'
    BY <2>0 DEF OnePosted, PostedPhase, SysV!Serving, ShopIdle, ShopPhase
  <2>9. PostedPhase'
    BY <2>0 DEF OnePosted, PostedPhase, SysV!Serving, ShopIdle, ShopPhase,
       SysV!ClientPhase, SysV!TokenOwner
  <2>6. SysV!ClientPhase' BY DEF SysV!ClientPhase
  <2>7. SysV!TokenOwner' BY DEF SysV!TokenOwner
  <2>8. SysV!OneClientServed' BY DEF SysV!OneClientServed, SysV!Serving
  <2> QED BY <2>1, <2>2, <2>3, <2>4, <2>5, <2>6, <2>7, <2>8, <2>9
<1>6. CASE SysV!GoToSleep /\ UNCHANGED SysV!setVars
  <2> USE <1>6 DEF SysV!GoToSleep, SysV!UnlockRoom
  <2>0. Posted' = Posted BY DEF Posted
  <2>1. SetTypeOK' BY DEF SysV!BarberLabels, SysV!RoomMutex, SysV!BarberHolds
  <2>2. SysV!RoomMutex' BY DEF SysV!RoomMutex, SysV!BarberHolds
  <2>3. SysV!FlagStable'
    BY DEF SysV!FlagStable, SysV!RoomMutex, SysV!BarberHolds, SysV!ClientHolds
  <2>4. ShopPhase' BY <2>0 DEF ShopPhase, ShopIdle, SysV!Serving
  <2>5. OnePosted'
    BY <2>0 DEF OnePosted, PostedPhase, ShopIdle, ShopPhase, SysV!Serving
  <2>9. PostedPhase'
    BY <2>0 DEF OnePosted, PostedPhase, ShopIdle, ShopPhase, SysV!ClientPhase,
       SysV!TokenOwner
  <2>6. SysV!ClientPhase' BY DEF SysV!ClientPhase
  <2>7. SysV!TokenOwner' BY DEF SysV!TokenOwner, ShopPhase, ShopIdle
  <2>8. SysV!OneClientServed' BY DEF SysV!OneClientServed, SysV!Serving
  <2> QED BY <2>1, <2>2, <2>3, <2>4, <2>5, <2>6, <2>7, <2>8, <2>9
<1>7. CASE SysV!BarberWoken /\ UNCHANGED SysV!setVars
  <2> USE <1>7 DEF SysV!BarberWoken
  <2>0. Posted' = Posted BY DEF Posted
  <2>1. SetTypeOK' BY DEF SysV!BarberLabels
  <2>2. SysV!RoomMutex' BY DEF SysV!RoomMutex, SysV!BarberHolds
  <2>3. SysV!FlagStable' BY DEF SysV!FlagStable, ShopPhase
  <2>4. ShopPhase' BY <2>0 DEF ShopPhase
  <2>5. OnePosted'
    BY <2>0 DEF OnePosted, PostedPhase, ShopIdle, ShopPhase, SysV!Serving
  <2>9. PostedPhase'
    BY <2>0 DEF OnePosted, PostedPhase, ShopIdle, ShopPhase, SysV!ClientPhase,
       SysV!TokenOwner
  <2>6. SysV!ClientPhase' BY DEF SysV!ClientPhase
  <2>7. SysV!TokenOwner' BY DEF SysV!TokenOwner
  <2>8. SysV!OneClientServed' BY DEF SysV!OneClientServed, SysV!Serving
  <2> QED BY <2>1, <2>2, <2>3, <2>4, <2>5, <2>6, <2>7, <2>8, <2>9
<1>8. CASE SysV!StartHaircut /\ UNCHANGED SysV!setVars
  <2> USE <1>8 DEF SysV!StartHaircut, SysV!WaitCustomer
  <2>0. Posted' = Posted BY DEF Posted
  <2>1. SetTypeOK' BY DEF SysV!BarberLabels
  <2>2. SysV!RoomMutex' BY DEF SysV!RoomMutex, SysV!BarberHolds
  <2>3. SysV!FlagStable' BY DEF SysV!FlagStable
  <2>4. ShopPhase' BY <2>0 DEF ShopPhase, ShopIdle, SysV!TokenOwner
  <2>5. OnePosted'
    BY <2>0 DEF OnePosted, PostedPhase, ShopIdle, ShopPhase, SysV!Serving
  <2>9. PostedPhase'
    BY <2>0 DEF OnePosted, PostedPhase, ShopIdle, ShopPhase, SysV!ClientPhase,
       SysV!TokenOwner
  <2>6. SysV!ClientPhase' BY DEF SysV!ClientPhase
  <2>7. SysV!TokenOwner' BY DEF SysV!TokenOwner
  <2>8. SysV!OneClientServed' BY DEF SysV!OneClientServed, SysV!Serving
  <2> QED BY <2>1, <2>2, <2>3, <2>4, <2>5, <2>6, <2>7, <2>8, <2>9
<1>9. CASE SysV!FinishHaircut /\ UNCHANGED SysV!setVars
  <2> USE <1>9 DEF SysV!FinishHaircut
  <2>0. Posted' = Posted BY DEF Posted
  <2>1. SetTypeOK' BY DEF SysV!BarberLabels, ShopPhase
  <2>2. SysV!RoomMutex' BY DEF SysV!RoomMutex, SysV!BarberHolds
  <2>3. SysV!FlagStable' BY DEF SysV!FlagStable
  <2>4. ShopPhase' BY <2>0 DEF ShopPhase, ShopIdle
  <2>5. OnePosted'
    BY <2>0 DEF OnePosted, PostedPhase, ShopIdle, ShopPhase, SysV!Serving
  <2>9. PostedPhase'
    BY <2>0 DEF OnePosted, PostedPhase, ShopIdle, ShopPhase, SysV!ClientPhase,
       SysV!TokenOwner
  <2>6. SysV!ClientPhase' BY DEF SysV!ClientPhase, ShopPhase
  <2>7. SysV!TokenOwner' BY DEF SysV!TokenOwner, ShopPhase
  <2>8. SysV!OneClientServed' BY DEF SysV!OneClientServed, SysV!Serving
  <2> QED BY <2>1, <2>2, <2>3, <2>4, <2>5, <2>6, <2>7, <2>8, <2>9
<1>10. CASE SysV!NextCustomer /\ UNCHANGED SysV!setVars
  <2> USE <1>10 DEF SysV!NextCustomer, SysV!WaitCustomer
  <2>0. Posted' = Posted BY DEF Posted
  <2>1. SetTypeOK' BY DEF SysV!BarberLabels
  <2>2. SysV!RoomMutex' BY DEF SysV!RoomMutex, SysV!BarberHolds
  <2>3. SysV!FlagStable' BY DEF SysV!FlagStable
  <2>4. ShopPhase'
    BY <2>0 DEF ShopPhase, ShopIdle, SysV!Serving, SysV!TokenOwner, OnePosted,
       PostedPhase
  <2>5. OnePosted'
    BY <2>0 DEF OnePosted, PostedPhase, ShopIdle, ShopPhase, SysV!Serving
  <2>9. PostedPhase'
    BY <2>0 DEF OnePosted, PostedPhase, ShopIdle, ShopPhase, SysV!ClientPhase,
       SysV!TokenOwner
  <2>6. SysV!ClientPhase' BY DEF SysV!ClientPhase
  <2>7. SysV!TokenOwner' BY DEF SysV!TokenOwner
  <2>8. SysV!OneClientServed' BY DEF SysV!OneClientServed, SysV!Serving
  <2> QED BY <2>1, <2>2, <2>3, <2>4, <2>5, <2>6, <2>7, <2>8, <2>9
<1> QED
  BY <1>1, <1>2, <1>3, <1>4, <1>5, <1>6, <1>7, <1>8, <1>9, <1>10 DEF
     SysV!SysVBarberStep

\* A client's step while the barber lives.
LEMMA LivingClientStep ==
  ASSUME SetsInv, LivingShop, Barber \notin killed,
         NEW c \in Clients, SysV!SysVClientStep(c)
  PROVE  SetsInv' /\ LivingShop'
<1> USE ProcessAssumption, SysVAssumption DEF SetsInv, LivingShop, SetTypeOK,
       SysV!semaphores, SysV!ring, SysV!seats, SysV!clientVars, SysV!setVars,
       SysV!ClientAt, SysV!Removed

<1>1. CASE SysV!StartClient(c) /\ UNCHANGED SysV!setVars
  <2> USE <1>1 DEF SysV!StartClient
  <2>0. Posted' = Posted BY DEF Posted
  <2>1. SetTypeOK' BY DEF SysV!ClientLabels
  <2>2. SysV!RoomMutex' BY DEF SysV!RoomMutex, SysV!ClientHolds
  <2>3. SysV!FlagStable' BY DEF SysV!FlagStable
  <2>4. ShopPhase' BY <2>0 DEF ShopPhase, ShopIdle, SysV!Serving
  <2>5. OnePosted'
    BY <2>0 DEF OnePosted, PostedPhase, SysV!Serving, ShopIdle, ShopPhase
  <2>9. PostedPhase'
    BY <2>0 DEF OnePosted, PostedPhase, SysV!Serving, ShopIdle, ShopPhase,
       SysV!ClientPhase, SysV!TokenOwner
  <2>6. SysV!ClientPhase' BY DEF SysV!ClientPhase
  <2>7. SysV!TokenOwner' BY DEF SysV!TokenOwner, SysV!Serving
  <2>8. SysV!OneClientServed' BY DEF SysV!OneClientServed, SysV!Serving
  <2> QED BY <2>1, <2>2, <2>3, <2>4, <2>5, <2>6, <2>7, <2>8, <2>9
<1>2. CASE SysV!EnterShop(c) /\ UNCHANGED SysV!setVars
  <2> USE <1>2 DEF SysV!EnterShop, SysV!LockRoom
  <2>0. Posted' = Posted BY DEF Posted
  <2>1. SetTypeOK' BY DEF SysV!ClientLabels
  <2>2. SysV!RoomMutex' BY DEF SysV!RoomMutex
  <2>3. SysV!FlagStable' BY DEF SysV!FlagStable
  <2>4. ShopPhase' BY <2>0 DEF ShopPhase, ShopIdle, SysV!Serving
  <2>5. OnePosted'
    BY <2>0 DEF OnePosted, PostedPhase, SysV!Serving, ShopIdle, ShopPhase
  <2>9. PostedPhase'
    BY <2>0 DEF OnePosted, PostedPhase, SysV!Serving, ShopIdle, ShopPhase,
       SysV!ClientPhase, SysV!TokenOwner
  <2>6. SysV!ClientPhase' BY DEF SysV!ClientPhase
  <2>7. SysV!TokenOwner' BY DEF SysV!TokenOwner, SysV!Serving
  <2>8. SysV!OneClientServed' BY DEF SysV!OneClientServed, SysV!Serving
  <2> QED BY <2>1, <2>2, <2>3, <2>4, <2>5, <2>6, <2>7, <2>8, <2>9
<1>3. CASE SysV!GoHome(c) /\ UNCHANGED SysV!setVars
  <2> USE <1>3 DEF SysV!GoHome
  <2>0. Posted' = Posted BY DEF Posted
  <2>1. SetTypeOK' BY DEF SysV!ClientLabels
  <2>2. SysV!RoomMutex' BY DEF SysV!RoomMutex, SysV!ClientHolds
  <2>3. SysV!FlagStable' BY DEF SysV!FlagStable
  <2>4. ShopPhase' BY <2>0 DEF ShopPhase, ShopIdle, SysV!Serving
  <2>5. OnePosted'
    BY <2>0 DEF OnePosted, PostedPhase, SysV!Serving, ShopIdle, ShopPhase
  <2>9. PostedPhase'
    BY <2>0 DEF OnePosted, PostedPhase, SysV!Serving, ShopIdle, ShopPhase,
       SysV!ClientPhase, SysV!TokenOwner
  <2>6. SysV!ClientPhase' BY DEF SysV!ClientPhase
  <2>7. SysV!TokenOwner' BY DEF SysV!TokenOwner, SysV!Serving
  <2>8. SysV!OneClientServed' BY DEF SysV!OneClientServed, SysV!Serving
  <2> QED BY <2>1, <2>2, <2>3, <2>4, <2>5, <2>6, <2>7, <2>8, <2>9
<1>4. CASE SysV!LookAtBarber(c) /\ UNCHANGED SysV!setVars
  <2> USE <1>4 DEF SysV!LookAtBarber
  <2>0. Posted' = Posted BY DEF Posted
  <2>1. SetTypeOK' BY DEF SysV!ClientLabels
  <2>2. SysV!RoomMutex' BY DEF SysV!RoomMutex, SysV!ClientHolds
  <2>3. SysV!FlagStable' BY DEF SysV!FlagStable
  <2>4. ShopPhase' BY <2>0 DEF ShopPhase, ShopIdle, SysV!Serving
  <2>5. OnePosted'
    BY <2>0 DEF OnePosted, PostedPhase, SysV!Serving, ShopIdle, ShopPhase
  <2>9. PostedPhase'
    BY <2>0 DEF OnePosted, PostedPhase, SysV!Serving, ShopIdle, ShopPhase,
       SysV!ClientPhase, SysV!TokenOwner
  <2>6. SysV!ClientPhase' BY DEF SysV!ClientPhase
  <2>7. SysV!TokenOwner' BY DEF SysV!TokenOwner, SysV!Serving
  <2>8. SysV!OneClientServed' BY DEF SysV!OneClientServed, SysV!Serving
  <2> QED BY <2>1, <2>2, <2>3, <2>4, <2>5, <2>6, <2>7, <2>8, <2>9
<1>5. CASE SysV!WakeBarber(c) /\ UNCHANGED SysV!setVars
  <2> USE <1>5 DEF SysV!WakeBarber
  <2>z. sem_barber_sleeping = 0 BY DEF SysV!FlagStable, ShopPhase, ShopIdle
  <2>b. barber_sleeping' \in BOOLEAN OBVIOUS
  <2>0. Posted' = Posted BY DEF Posted
  <2>1. SetTypeOK' BY <2>z, <2>b DEF SysV!ClientLabels
  <2>2. SysV!RoomMutex' BY DEF SysV!RoomMutex, SysV!ClientHolds
  <2>3. SysV!FlagStable'
    BY DEF SysV!FlagStable, SysV!RoomMutex, SysV!ClientHolds
  <2>4. ShopPhase' BY <2>0 DEF ShopPhase, SysV!FlagStable
  <2>5. OnePosted'
    BY <2>0 DEF OnePosted, PostedPhase, SysV!FlagStable, ShopIdle, ShopPhase,
       SysV!Serving
  <2>9. PostedPhase'
    BY <2>0 DEF OnePosted, PostedPhase, SysV!FlagStable, ShopIdle, ShopPhase,
       SysV!ClientPhase, SysV!TokenOwner
  <2>6. SysV!ClientPhase'
    BY DEF SysV!ClientPhase, ShopPhase, ShopIdle, SysV!FlagStable
  <2>7. SysV!TokenOwner' BY DEF SysV!TokenOwner, SysV!FlagStable
  <2>8. SysV!OneClientServed'
    BY DEF SysV!OneClientServed, SysV!Serving, ShopPhase, ShopIdle,
       SysV!FlagStable
  <2> QED BY <2>1, <2>2, <2>3, <2>4, <2>5, <2>6, <2>7, <2>8, <2>9
<1>6. CASE SysV!WalkToChair(c) /\ UNCHANGED SysV!setVars
  <2> USE <1>6 DEF SysV!WalkToChair, SysV!UnlockRoom
  <2>0. Posted' = Posted BY DEF Posted
  <2>1. SetTypeOK' BY DEF SysV!ClientLabels, SysV!RoomMutex, SysV!ClientHolds
  <2>2. SysV!RoomMutex' BY DEF SysV!RoomMutex, SysV!ClientHolds
  <2>3. SysV!FlagStable' BY DEF SysV!FlagStable
  <2>4. ShopPhase' BY <2>0 DEF ShopPhase, ShopIdle, SysV!Serving
  <2>5. OnePosted'
    BY <2>0 DEF OnePosted, PostedPhase, SysV!Serving, ShopIdle, ShopPhase
  <2>9. PostedPhase'
    BY <2>0 DEF OnePosted, PostedPhase, SysV!Serving, ShopIdle, ShopPhase,
       SysV!ClientPhase, SysV!TokenOwner
  <2>6. SysV!ClientPhase' BY DEF SysV!ClientPhase
  <2>7. SysV!TokenOwner' BY DEF SysV!TokenOwner, SysV!Serving
  <2>8. SysV!OneClientServed' BY DEF SysV!OneClientServed, SysV!Serving
  <2> QED BY <2>1, <2>2, <2>3, <2>4, <2>5, <2>6, <2>7, <2>8, <2>9
<1>7. CASE SysV!TurnedAway(c) /\ UNCHANGED SysV!setVars
  <2> USE <1>7 DEF SysV!TurnedAway, SysV!UnlockRoom
  <2>0. Posted' = Posted BY DEF Posted
  <2>1. SetTypeOK' BY DEF SysV!ClientLabels, SysV!RoomMutex, SysV!ClientHolds
  <2>2. SysV!RoomMutex' BY DEF SysV!RoomMutex, SysV!ClientHolds
  <2>3. SysV!FlagStable' BY DEF SysV!FlagStable
  <2>4. ShopPhase' BY <2>0 DEF ShopPhase, ShopIdle, SysV!Serving
  <2>5. OnePosted'
    BY <2>0 DEF OnePosted, PostedPhase, SysV!Serving, ShopIdle, ShopPhase
  <2>9. PostedPhase'
    BY <2>0 DEF OnePosted, PostedPhase, SysV!Serving, ShopIdle, ShopPhase,
       SysV!ClientPhase, SysV!TokenOwner
  <2>6. SysV!ClientPhase' BY DEF SysV!ClientPhase
  <2>7. SysV!TokenOwner' BY DEF SysV!TokenOwner, SysV!Serving
  <2>8. SysV!OneClientServed' BY DEF SysV!OneClientServed, SysV!Serving
  <2> QED BY <2>1, <2>2, <2>3, <2>4, <2>5, <2>6, <2>7, <2>8, <2>9
<1>8. CASE SysV!Ready(c) /\ UNCHANGED SysV!setVars
  <2> USE <1>8 DEF SysV!Ready, SysV!PostCustomer
  <2>0. Posted' = Posted BY DEF Posted
  <2>1. SetTypeOK' BY DEF SysV!ClientLabels, SysV!ClientPhase
  <2>2. SysV!RoomMutex' BY DEF SysV!RoomMutex, SysV!ClientHolds
  <2>3. SysV!FlagStable' BY DEF SysV!FlagStable
  <2>4. ShopPhase' BY <2>0 DEF ShopPhase, ShopIdle, SysV!ClientPhase
  <2>5. OnePosted'
    BY <2>0 DEF OnePosted, PostedPhase, SysV!Serving, ShopIdle, ShopPhase
  <2>9. PostedPhase'
    BY <2>0 DEF OnePosted, PostedPhase, SysV!Serving, ShopIdle, ShopPhase,
       SysV!ClientPhase, SysV!TokenOwner
  <2>6. SysV!ClientPhase' BY DEF SysV!ClientPhase
  <2>7. SysV!TokenOwner' BY DEF SysV!TokenOwner, SysV!ClientPhase
  <2>8. SysV!OneClientServed' BY DEF SysV!OneClientServed, SysV!Serving
  <2> QED BY <2>1, <2>2, <2>3, <2>4, <2>5, <2>6, <2>7, <2>8, <2>9
<1>9. CASE SysV!HaircutDone(c) /\ UNCHANGED SysV!setVars
  <2> USE <1>9 DEF SysV!HaircutDone
  <2>0. Posted' = Posted BY DEF Posted
  <2>1. SetTypeOK' BY DEF SysV!ClientLabels
  <2>2. SysV!RoomMutex' BY DEF SysV!RoomMutex, SysV!ClientHolds
  <2>3. SysV!FlagStable' BY DEF SysV!FlagStable
  <2>4. ShopPhase' BY <2>0 DEF ShopPhase, ShopIdle
  <2>5. OnePosted'
    BY <2>0 DEF OnePosted, PostedPhase, SysV!Serving, ShopIdle, ShopPhase
  <2>9. PostedPhase'
    BY <2>0 DEF OnePosted, PostedPhase, SysV!Serving, ShopIdle, ShopPhase,
       SysV!ClientPhase, SysV!TokenOwner
  <2>6. SysV!ClientPhase' BY DEF SysV!ClientPhase, ShopPhase
  <2>7. SysV!TokenOwner' BY DEF SysV!TokenOwner
  <2>8. SysV!OneClientServed' BY DEF SysV!OneClientServed, SysV!Serving
  <2> QED BY <2>1, <2>2, <2>3, <2>4, <2>5, <2>6, <2>7, <2>8, <2>9
<1>10. CASE SysV!LeaveShop(c) /\ UNCHANGED SysV!setVars
  <2> USE <1>10 DEF SysV!LeaveShop, SysV!PostCustomer
  <2>0. Posted' = Posted BY DEF Posted
  <2>1. SetTypeOK' BY DEF SysV!ClientLabels, SysV!ClientPhase
  <2>2. SysV!RoomMutex' BY DEF SysV!RoomMutex, SysV!ClientHolds
  <2>3. SysV!FlagStable' BY DEF SysV!FlagStable
  <2>4. ShopPhase'
    BY <2>0 DEF ShopPhase, ShopIdle, SysV!Serving, SysV!ClientPhase
  <2>5. OnePosted'
    BY <2>0 DEF OnePosted, PostedPhase, SysV!Serving, ShopIdle, ShopPhase
  <2>9. PostedPhase'
    BY <2>0 DEF OnePosted, PostedPhase, SysV!Serving, ShopIdle, ShopPhase,
       SysV!ClientPhase, SysV!TokenOwner
  <2>6. SysV!ClientPhase'
    BY DEF SysV!ClientPhase, SysV!OneClientServed, SysV!Serving
  <2>7. SysV!TokenOwner'
    BY DEF SysV!TokenOwner, SysV!Serving, SysV!ClientPhase,
       SysV!OneClientServed
  <2>8. SysV!OneClientServed' BY DEF SysV!OneClientServed, SysV!Serving
  <2> QED BY <2>1, <2>2, <2>3, <2>4, <2>5, <2>6, <2>7, <2>8, <2>9
<1>11. CASE SysV!SitInRoom(c)
  <2> USE <1>11 DEF SysV!SitInRoom, SysV!NewSeat, SysV!UnlockRoom
  <2>0. /\ Posted' \subseteq Posted
        /\ sets' \in [DOMAIN sets' -> 0 .. 1]
    BY CreatePosted
  <2>1. SetTypeOK'
    BY <2>0, SetNextSeatType, SetType DEF SysV!ClientLabels, SysV!RoomMutex,
       SysV!ClientHolds
  <2>2. SysV!RoomMutex' BY DEF SysV!RoomMutex, SysV!ClientHolds
  <2>3. SysV!FlagStable'
    BY DEF SysV!FlagStable, SysV!RoomMutex, SysV!BarberHolds, SysV!ClientHolds
  <2>4. ShopPhase' BY <2>0 DEF ShopPhase, ShopIdle, SysV!Serving
  <2>5. OnePosted' BY <2>0 DEF OnePosted, SysV!Serving
  <2>9. PostedPhase' BY <2>0 DEF PostedPhase
  <2>6. SysV!ClientPhase' BY DEF SysV!ClientPhase
  <2>7. SysV!TokenOwner' BY DEF SysV!TokenOwner, SysV!Serving
  <2>8. SysV!OneClientServed' BY DEF SysV!OneClientServed, SysV!Serving
  <2> QED BY <2>1, <2>2, <2>3, <2>4, <2>5, <2>6, <2>7, <2>8, <2>9
<1>12. CASE SysV!WaitInRoom(c) \/ SysV!SeatRemoved(c) \/ SysV!DeleteSeat(c)
  <2>0. /\ Posted' \subseteq Posted
        /\ sets' \in [DOMAIN sets' -> 0 .. 1]
    BY <1>12, RemovePosted DEF SysV!WaitInRoom, SysV!SeatRemoved,
       SysV!DeleteSeat, Posted
  <2>u. /\ UNCHANGED <<barber_chair, SysV!semaphores, barber_sleeping, SysV!ring, SysV!seats,
                       next, bpc, SysV!clientVars, killed, chair_id>>
        /\ \/ cpc' = cpc
           \/ cpc[c] = "waiting" /\ cpc' = [cpc EXCEPT ![c] = "left"]
    BY <1>12 DEF SysV!WaitInRoom, SysV!SeatRemoved, SysV!DeleteSeat, SysV!vars
  <2>1. SetTypeOK'
    <3>0. SysV!NoSet \in Ids /\ waiting[my_seat[c]] \in Ids BY SetType
    <3>1. blocked' \in [Clients -> Ids]
      BY <1>12, <3>0 DEF SysV!WaitInRoom, SysV!SeatRemoved, SysV!DeleteSeat
    <3> QED BY <2>0, <2>u, <3>1 DEF SysV!ClientLabels
  <2> USE <2>u
  <2>2. SysV!RoomMutex' BY DEF SysV!RoomMutex, SysV!ClientHolds
  <2>3. SysV!FlagStable' BY DEF SysV!FlagStable
  <2>4. ShopPhase' BY <2>0 DEF ShopPhase, ShopIdle, SysV!Serving
  <2>5. OnePosted' BY <2>0 DEF OnePosted, SysV!Serving
  <2>9. PostedPhase' BY <2>0 DEF PostedPhase
  <2>6. SysV!ClientPhase' BY DEF SysV!ClientPhase
  <2>7. SysV!TokenOwner' BY DEF SysV!TokenOwner, SysV!Serving
  <2>8. SysV!OneClientServed' BY DEF SysV!OneClientServed, SysV!Serving
  <2> QED BY <2>1, <2>2, <2>3, <2>4, <2>5, <2>6, <2>7, <2>8, <2>9
<1>13. CASE SysV!Called(c)
  <2> USE <1>13 DEF SysV!Called
  <2>z. blocked[c] \in Posted BY DEF Posted
  <2>0. Posted' = {} BY <2>z DEF Posted, OnePosted
  <2>1. SetTypeOK' BY DEF SysV!ClientLabels
  <2>2. SysV!RoomMutex' BY DEF SysV!RoomMutex, SysV!ClientHolds
  <2>3. SysV!FlagStable' BY DEF SysV!FlagStable
  <2>4. ShopPhase' BY <2>z DEF ShopPhase, ShopIdle
  <2>5. OnePosted' BY <2>0 DEF OnePosted
  <2>9. PostedPhase' BY <2>0 DEF PostedPhase
  <2>6. SysV!ClientPhase' BY <2>z DEF SysV!ClientPhase, PostedPhase
  <2>7. SysV!TokenOwner' BY <2>z DEF SysV!TokenOwner, PostedPhase
  <2>8. SysV!OneClientServed'
    BY <2>z DEF SysV!OneClientServed, SysV!Serving, OnePosted
  <2> QED BY <2>1, <2>2, <2>3, <2>4, <2>5, <2>6, <2>7, <2>8, <2>9
<1>14. CASE SysV!SitInChair(c)
  <2> USE <1>14 DEF SysV!SitInChair
  <2>0. /\ Posted' \subseteq Posted
        /\ sets' \in [DOMAIN sets' -> 0 .. 1]
    BY CreatePosted
  <2>1. SetTypeOK' BY <2>0, SetType DEF SysV!ClientLabels
  <2>2. SysV!RoomMutex' BY DEF SysV!RoomMutex, SysV!ClientHolds
  <2>3. SysV!FlagStable' BY DEF SysV!FlagStable
  <2>4. ShopPhase' BY <2>0 DEF ShopPhase, ShopIdle, SysV!Serving
  <2>5. OnePosted' BY <2>0 DEF OnePosted, SysV!Serving
  <2>9. PostedPhase' BY <2>0 DEF PostedPhase, OnePosted, SysV!Serving
  <2>6. SysV!ClientPhase'
    BY DEF SysV!ClientPhase, SysV!OneClientServed, SysV!Serving
  <2>7. SysV!TokenOwner' BY DEF SysV!TokenOwner, SysV!Serving
  <2>8. SysV!OneClientServed' BY DEF SysV!OneClientServed, SysV!Serving
  <2> QED BY <2>1, <2>2, <2>3, <2>4, <2>5, <2>6, <2>7, <2>8, <2>9
<1>15. CASE SysV!LeaveChair(c)
  <2> USE <1>15 DEF SysV!LeaveChair
  <2>0. /\ Posted' \subseteq Posted
        /\ sets' \in [DOMAIN sets' -> 0 .. 1]
    BY RemovePosted
  <2>1. SetTypeOK' BY <2>0, SetType DEF SysV!ClientLabels
  <2>2. SysV!RoomMutex' BY DEF SysV!RoomMutex, SysV!ClientHolds
  <2>3. SysV!FlagStable' BY DEF SysV!FlagStable
  <2>4. ShopPhase' BY <2>0 DEF ShopPhase, ShopIdle, SysV!ClientPhase
  <2>5. OnePosted' BY <2>0 DEF OnePosted, SysV!Serving
  <2>9. PostedPhase' BY <2>0 DEF PostedPhase, OnePosted, SysV!Serving
  <2>6. SysV!ClientPhase' BY DEF SysV!ClientPhase
  <2>7. SysV!TokenOwner' BY DEF SysV!TokenOwner, SysV!ClientPhase
  <2>8. SysV!OneClientServed' BY DEF SysV!OneClientServed, SysV!Serving
  <2> QED BY <2>1, <2>2, <2>3, <2>4, <2>5, <2>6, <2>7, <2>8, <2>9
<1> QED
  BY <1>1, <1>2, <1>3, <1>4, <1>5, <1>6, <1>7, <1>8, <1>9, <1>10, <1>11, <1>12,
     <1>13, <1>14, <1>15 DEF SysV!SysVClientStep, SysV!WaitFails,
     SysV!ShopRemoved

\* A client's step when the barber has ended: it may still follow an
\* invitation, but nobody else comes to the chair.
LEMMA ClosedClientStep ==
  ASSUME SetsInv, Barber \in killed, NEW c \in Clients, SysV!SysVClientStep(c)
  PROVE  SetsInv'
<1> USE ProcessAssumption, SysVAssumption DEF SetsInv, SetTypeOK,
       SysV!semaphores, SysV!ring, SysV!seats, SysV!clientVars, SysV!setVars,
       SysV!ClientAt, SysV!Removed
<1>1. CASE (SysV!StartClient(c) \/ SysV!GoHome(c) \/ SysV!LookAtBarber(c)) /\ UNCHANGED SysV!setVars
  <2>0. Posted' = Posted BY <1>1 DEF Posted
  <2>1. SetTypeOK'
    BY <1>1 DEF SysV!ClientLabels, SysV!StartClient, SysV!GoHome,
       SysV!LookAtBarber
  <2>2. SysV!OneClientServed'
    BY <1>1 DEF SysV!OneClientServed, SysV!Serving, SysV!StartClient,
       SysV!GoHome, SysV!LookAtBarber
  <2>3. OnePosted'
    BY <1>1, <2>0 DEF OnePosted, SysV!Serving, SysV!StartClient, SysV!GoHome,
       SysV!LookAtBarber
  <2> QED BY <2>1, <2>2, <2>3
<1>2. CASE SysV!WaitInRoom(c) \/ SysV!SeatRemoved(c) \/ SysV!DeleteSeat(c)
  <2>0. /\ Posted' \subseteq Posted
        /\ sets' \in [DOMAIN sets' -> 0 .. 1]
    BY <1>2, RemovePosted DEF SysV!WaitInRoom, SysV!SeatRemoved,
       SysV!DeleteSeat, Posted
  <2>u. /\ UNCHANGED <<barber_chair, SysV!semaphores, barber_sleeping, SysV!ring, SysV!seats,
                       next, bpc, SysV!clientVars, killed, chair_id>>
        /\ \/ cpc' = cpc
           \/ cpc[c] = "waiting" /\ cpc' = [cpc EXCEPT ![c] = "left"]
    BY <1>2 DEF SysV!WaitInRoom, SysV!SeatRemoved, SysV!DeleteSeat, SysV!vars
  <2>1. SetTypeOK'
    <3>0. SysV!NoSet \in Ids /\ waiting[my_seat[c]] \in Ids BY SetType
    <3>1. blocked' \in [Clients -> Ids]
      BY <1>2, <3>0 DEF SysV!WaitInRoom, SysV!SeatRemoved, SysV!DeleteSeat
    <3> QED BY <2>0, <2>u, <3>1 DEF SysV!ClientLabels
  <2>2. SysV!OneClientServed' BY <2>u DEF SysV!OneClientServed, SysV!Serving
  <2>3. OnePosted' BY <2>0, <2>u DEF OnePosted, SysV!Serving
  <2> QED BY <2>1, <2>2, <2>3
<1>3. CASE SysV!Called(c)
  <2> USE <1>3 DEF SysV!Called
  <2>z. blocked[c] \in Posted BY DEF Posted
  <2>0. Posted' = {} BY <2>z DEF Posted, OnePosted
  <2>1. SetTypeOK' BY DEF SysV!ClientLabels
  <2>2. SysV!OneClientServed'
    BY <2>z DEF SysV!OneClientServed, SysV!Serving, OnePosted
  <2>3. OnePosted' BY <2>0 DEF OnePosted
  <2> QED BY <2>1, <2>2, <2>3
<1>4. CASE SysV!SitInChair(c)
  <2> USE <1>4 DEF SysV!SitInChair
  <2>0. /\ Posted' \subseteq Posted
        /\ sets' \in [DOMAIN sets' -> 0 .. 1]
    BY CreatePosted
  <2>1. SetTypeOK' BY <2>0, SetType DEF SysV!ClientLabels
  <2>2. SysV!OneClientServed' BY DEF SysV!OneClientServed, SysV!Serving
  <2>3. OnePosted' BY <2>0 DEF OnePosted, SysV!Serving
  <2> QED BY <2>1, <2>2, <2>3
<1>5. CASE SysV!WaitFails(c)
  <2> USE <1>5 DEF SysV!WaitFails
  <2>0. Posted' = Posted BY DEF Posted
  <2>1. SetTypeOK' BY DEF SysV!ClientLabels
  <2>2. SysV!OneClientServed' BY DEF SysV!OneClientServed, SysV!Serving
  <2>3. OnePosted' BY <2>0 DEF OnePosted, SysV!Serving
  <2> QED BY <2>1, <2>2, <2>3
<1>6. CASE SysV!LeaveChair(c)
  <2> USE <1>6 DEF SysV!LeaveChair
  <2>0. /\ Posted' \subseteq Posted
        /\ sets' \in [DOMAIN sets' -> 0 .. 1]
    BY RemovePosted
  <2>1. SetTypeOK' BY <2>0, SetType DEF SysV!ClientLabels
  <2>2. SysV!OneClientServed' BY DEF SysV!OneClientServed, SysV!Serving
  <2>3. OnePosted' BY <2>0 DEF OnePosted, SysV!Serving
  <2> QED BY <2>1, <2>2, <2>3
<1>7. CASE SysV!ShopRemoved(c)
  <2>l. cpc' = [cpc EXCEPT ![c] = "left"] /\ barber_sleeping' \in BOOLEAN
    BY <1>7 DEF SysV!ShopRemoved
  <2>0. /\ Posted' \subseteq Posted
        /\ sets' \in [DOMAIN sets' -> 0 .. 1]
    BY <1>7, CreatePosted DEF SysV!ShopRemoved, SysV!NewSeat, Posted
  <2>1. SetTypeOK'
    <3>1. CASE cpc[c] = "queue" /\ wr_count < SysVSeats
      BY <1>7, <2>l, <2>0, <3>1, SetType, SetNextSeatType DEF SysV!ShopRemoved,
         SysV!NewSeat, SysV!ClientLabels
    <3>2. CASE ~(cpc[c] = "queue" /\ wr_count < SysVSeats)
      BY <1>7, <2>l, <2>0, <3>2 DEF SysV!ShopRemoved, SysV!ClientLabels
    <3> QED BY <3>1, <3>2
  <2>2. SysV!OneClientServed' BY <2>l DEF SysV!OneClientServed, SysV!Serving
  <2>3. OnePosted' BY <2>0, <2>l DEF OnePosted, SysV!Serving
  <2> QED BY <2>1, <2>2, <2>3
<1> QED
  BY <1>1, <1>2, <1>3, <1>4, <1>5, <1>6, <1>7 DEF SysV!SysVClientStep,
     SysV!SitInRoom

\* A signal to a process, or the barber's own exit.
LEMMA KillSetChair ==
  ASSUME SetChairInv,
         \/ \E p \in Clients \cup {Barber} : SysV!Kill(p) /\ UNCHANGED SysV!setVars
         \/ SysV!InviteFails
         \/ UNCHANGED SysV!sysVVars
  PROVE  SetChairInv'
<1> USE DEF SetsInv, SetTypeOK, SetChairInv, SysV!semaphores, SysV!ring,
       SysV!seats, SysV!clientVars, SysV!setVars
<1>u. /\ UNCHANGED <<barber_chair, SysV!semaphores, barber_sleeping, SysV!ring, SysV!seats,
                     next, bpc, cpc, SysV!clientVars, SysV!setVars>>
      /\ killed \subseteq killed'
  BY DEF SysV!Kill, SysV!InviteFails, SysV!sysVVars, SysV!vars
<1>0. Posted' = Posted BY <1>u DEF Posted
<1>1. SetTypeOK' BY <1>u
<1>8. SysV!OneClientServed' BY <1>u DEF SysV!OneClientServed, SysV!Serving
<1>5. OnePosted' BY <1>0, <1>u DEF OnePosted, SysV!Serving
<1>a. ASSUME Barber \notin killed' PROVE LivingShop'
  <2> USE <1>u, <1>a DEF LivingShop
  <2>2. SysV!RoomMutex' BY DEF SysV!RoomMutex
  <2>3. SysV!FlagStable' BY DEF SysV!FlagStable
  <2>4. ShopPhase' BY <1>0 DEF ShopPhase, ShopIdle, SysV!Serving
  <2>9. PostedPhase' BY <1>0 DEF PostedPhase
  <2>6. SysV!ClientPhase' BY DEF SysV!ClientPhase
  <2>7. SysV!TokenOwner' BY DEF SysV!TokenOwner, SysV!Serving
  <2> QED BY <2>2, <2>3, <2>4, <2>6, <2>7, <2>9
<1> QED BY <1>1, <1>8, <1>5, <1>a

\* Every step, the barber's end included, preserves SetChairInv.
LEMMA NextSetChair == SetChairInv /\ [SysV!SysVNext]_sysVVars => SetChairInv'
<1> SUFFICES ASSUME SetChairInv, [SysV!SysVNext]_sysVVars PROVE SetChairInv'
  OBVIOUS
<1>1. CASE SysV!SysVBarberStep /\ ~SysV!InviteFails
  <2>1. Barber \notin killed
    BY <1>1 DEF SysV!SysVBarberStep, SysV!InviteClient, SysV!BarberAt,
       SysV!BarberEnter, SysV!WrPop, SysV!WrPopEmpty, SysV!Invited,
       SysV!GoToSleep, SysV!BarberWoken, SysV!StartHaircut, SysV!FinishHaircut,
       SysV!NextCustomer
  <2> QED BY <1>1, <2>1, LivingBarberStep DEF SetChairInv
<1>2. CASE \E c \in Clients : SysV!SysVClientStep(c)
  <2>1. PICK c \in Clients : SysV!SysVClientStep(c)
    BY <1>2
  <2>2. killed' = killed
    BY <2>1 DEF SysV!SysVClientStep, SysV!SitInRoom, SysV!WaitInRoom,
       SysV!Called, SysV!SeatRemoved, SysV!SitInChair, SysV!DeleteSeat,
       SysV!WaitFails, SysV!LeaveChair, SysV!ShopRemoved, SysV!StartClient,
       SysV!GoHome, SysV!LookAtBarber, SysV!EnterShop, SysV!WakeBarber,
       SysV!WalkToChair, SysV!TurnedAway, SysV!HaircutDone, SysV!LeaveShop,
       SysV!Ready, SysV!vars
  <2> QED BY <2>1, <2>2, LivingClientStep, ClosedClientStep DEF SetChairInv
<1> QED
  BY <1>1, <1>2, KillSetChair DEF SysV!SysVNext, SysV!SysVBarberStep, sysVVars


\* The ring's successor and distances, as for the POSIX build.
LEMMA SetNextSeatIs ==
  \A s \in SysV!Slots : SysV!NextSeat(s) = IF s = SysVSeats - 1 THEN 0 ELSE s + 1
  BY SysVAssumption DEF SysV!Slots, SysV!NextSeat

\* Distances are below the number of seats, and tell seats apart.
LEMMA SetStepsType ==
  /\ \A s, t \in SysV!Slots : SysV!Steps(s, t) \in 0 .. SysVSeats - 1
  /\ \A s, t \in SysV!Slots : SysV!Steps(s, t) = 0 <=> s = t
  /\ \A s, t, u \in SysV!Slots : SysV!Steps(s, t) = SysV!Steps(s, u) => t = u
  BY SysVAssumption DEF SysV!Slots, SysV!Steps

\* The distance to a seat when wr_pop has advanced wr_start.
LEMMA SetStepsFromNext ==
  \A s, t \in SysV!Slots :
    SysV!Steps(SysV!NextSeat(s), t) = IF t = s THEN SysVSeats - 1 ELSE SysV!Steps(s, t) - 1
  BY SetNextSeatIs, SysVAssumption DEF SysV!Slots, SysV!Steps

\* The distance to wr_end when wr_push has advanced it.
LEMMA SetStepsToNext ==
  \A s, t \in SysV!Slots :
    SysV!Steps(s, SysV!NextSeat(t)) = IF SysV!Steps(s, t) = SysVSeats - 1 THEN 0
                            ELSE SysV!Steps(s, t) + 1
  BY SetNextSeatIs, SysVAssumption DEF SysV!Slots, SysV!Steps

\* The seats of the waiting room.
LEMMA SlotsCount == IsFiniteSet(SysV!Slots) /\ Cardinality(SysV!Slots) = SysVSeats
  BY SysVAssumption, FS_Interval DEF SysV!Slots

\* Sets made for different clients or places are different sets.
LEMMA SetsDiffer ==
  ASSUME NEW c \in Clients, NEW d \in Clients, NEW p, NEW q
  PROVE  /\ SysV!Set(c, p) = SysV!Set(d, q) => c = d /\ p = q
         /\ SysV!Set(c, p) # SysV!NoSet
  BY ProcessAssumption DEF SysV!Set, SysV!NoSet

\* The set of a client in the ring is there and has not been posted to.
LEMMA RingSeat ==
  ASSUME SetTypeOK, SetQueueInv, NEW s \in SysV!Slots, SysV!Occupied(s)
  PROVE  /\ pid[s] \in Clients /\ SysV!Queued(pid[s])
         /\ waiting[s] = SysV!Set(pid[s], "seat")
         /\ waiting[s] \in DOMAIN sets
<1> USE DEF SetTypeOK, SetQueueInv
<1>1. pid[s] \in Clients /\ SysV!Queued(pid[s]) /\ HoldsSeat(pid[s]) /\ my_seat[pid[s]] = s
  BY DEF RingSets, SysV!Queued, HoldsSeat
<1>2. waiting[s] = SysV!Set(pid[s], "seat")
  BY <1>1 DEF SeatSets
<1>3. SysV!Set(pid[s], "seat") \in SysV!InUse(pid[s])
  BY <1>1 DEF SysV!InUse, HoldsSeat
<1> QED BY <1>1, <1>2, <1>3 DEF SeatSets

\* The clients that have come are not fewer after a step, and finitely many.
LEMMA ComeGrows ==
  ASSUME SetTypeOK, IsFiniteSet(SysV!Come), [SysV!SysVNext]_sysVVars
  PROVE  /\ IsFiniteSet(SysV!Come')
         /\ Roomy' => Roomy
<1> USE DEF SetTypeOK
<1>1. killed \subseteq killed'
  BY DEF SysV!SysVNext, sysVVars, SysV!sysVVars, SysV!setVars, SysV!vars,
     SysV!Kill, SysV!SysVBarberStep, SysV!InviteClient, SysV!InviteFails,
     SysV!BarberEnter, SysV!WrPop, SysV!WrPopEmpty, SysV!Invited,
     SysV!GoToSleep, SysV!BarberWoken, SysV!StartHaircut, SysV!FinishHaircut,
     SysV!NextCustomer, SysV!SysVClientStep, SysV!SitInRoom, SysV!WaitInRoom,
     SysV!Called, SysV!SeatRemoved, SysV!SitInChair, SysV!DeleteSeat,
     SysV!WaitFails, SysV!LeaveChair, SysV!ShopRemoved, SysV!StartClient,
     SysV!GoHome, SysV!LookAtBarber, SysV!EnterShop, SysV!WakeBarber,
     SysV!WalkToChair, SysV!TurnedAway, SysV!HaircutDone, SysV!LeaveShop,
     SysV!Ready
<1>2. \/ cpc' = cpc
      \/ \E c \in Clients : \E l : l # "new" /\ cpc' = [cpc EXCEPT ![c] = l]
  BY DEF SysV!SysVNext, sysVVars, SysV!sysVVars, SysV!setVars, SysV!vars,
     SysV!Kill, SysV!SysVBarberStep, SysV!InviteClient, SysV!InviteFails,
     SysV!BarberEnter, SysV!WrPop, SysV!WrPopEmpty, SysV!Invited,
     SysV!GoToSleep, SysV!BarberWoken, SysV!StartHaircut, SysV!FinishHaircut,
     SysV!NextCustomer, SysV!SysVClientStep, SysV!SitInRoom, SysV!WaitInRoom,
     SysV!Called, SysV!SeatRemoved, SysV!SitInChair, SysV!DeleteSeat,
     SysV!WaitFails, SysV!LeaveChair, SysV!ShopRemoved, SysV!StartClient,
     SysV!GoHome, SysV!LookAtBarber, SysV!EnterShop, SysV!WakeBarber,
     SysV!WalkToChair, SysV!TurnedAway, SysV!HaircutDone, SysV!LeaveShop,
     SysV!Ready, SysV!ClientAt
<1>3. SysV!Come \subseteq SysV!Come' /\ (SysV!Come' = SysV!Come \/ \E c \in Clients : SysV!Come' \subseteq SysV!Come \cup {c})
  BY <1>2 DEF SysV!Come
<1>4. IsFiniteSet(SysV!Come')
  BY <1>3, FS_AddElement, FS_Subset
<1>5. Cardinality(SysV!Come) <= Cardinality(SysV!Come')
  BY <1>3, <1>4, FS_Subset
<1>6. Cardinality(SysV!Come) \in Nat /\ Cardinality(SysV!Come') \in Nat
  BY <1>4, FS_CardinalityType
<1> QED BY <1>1, <1>4, <1>5, <1>6, SysVAssumption DEF Roomy

\* While no more clients have come than there are seats, wr_push finds one.
LEMMA RoomForAll ==
  ASSUME SetTypeOK, SetQueueInv, IsFiniteSet(SysV!Come), Cardinality(SysV!Come) <= SysVSeats,
         NEW c \in Clients, cpc[c] = "queue"
  PROVE  wr_count < SysVSeats
<1> SUFFICES ASSUME wr_count = SysVSeats PROVE FALSE
  BY SysVAssumption DEF SetTypeOK
<1> USE SysVAssumption DEF SetTypeOK, SetQueueInv
<1>1. \A s \in SysV!Slots : SysV!Occupied(s)
  BY SetStepsType DEF SysV!Occupied
<1>2. pid \in Injection(SysV!Slots, SysV!Come \ {c})
  <2>1. pid \in [SysV!Slots -> SysV!Come \ {c}]
    BY <1>1 DEF RingSets, SysV!Come
  <2>2. \A s, t \in SysV!Slots : pid[s] = pid[t] => s = t
    BY <1>1 DEF RingSets
  <2> QED
    BY <2>1, <2>2 DEF Injection, IsInjective
<1>3. Cardinality(SysV!Slots) = SysVSeats
  BY SlotsCount
<1>4. /\ IsFiniteSet(SysV!Come \ {c})
      /\ Cardinality(SysV!Come \ {c}) = Cardinality(SysV!Come) - 1
  <2>1. c \in SysV!Come BY DEF SysV!Come
  <2> QED BY <2>1, FS_RemoveElement
<1>5. Cardinality(SysV!Slots) <= Cardinality(SysV!Come \ {c})
  BY <1>2, <1>4, FS_Injection
<1>6. Cardinality(SysV!Come) \in Nat
  BY FS_CardinalityType
<1> QED
  BY <1>3, <1>4, <1>5, <1>6

\* ... and it is not the seat of the client the barber has popped.
LEMMA OutSeatSafe ==
  ASSUME SetTypeOK, SetQueueInv, IsFiniteSet(SysV!Come), Cardinality(SysV!Come) <= SysVSeats,
         NEW c \in Clients, OutOfRing(c), NEW d \in Clients, cpc[d] = "queue"
  PROVE  wr_end # next
<1> SUFFICES ASSUME wr_end = next PROVE FALSE
  OBVIOUS
<1> USE SysVAssumption DEF SetTypeOK, SetQueueInv
<1>1. wr_count < SysVSeats
  BY RoomForAll
<1>2. SysV!Steps(wr_start, next) = wr_count /\ wr_start = SysV!NextSeat(next)
  BY <1>1 DEF RingSets, OneOut
<1>3. wr_count = SysVSeats - 1
  BY <1>2, SetStepsFromNext
<1>4. \A s \in SysV!Slots \ {next} : SysV!Occupied(s)
  <2> SUFFICES ASSUME NEW s \in SysV!Slots \ {next} PROVE SysV!Occupied(s)
    OBVIOUS
  <2>1. SysV!Steps(wr_start, s) \in 0 .. SysVSeats - 1 /\ SysV!Steps(wr_start, s) # wr_count
    BY <1>2, SetStepsType
  <2> QED
    BY <1>3, <2>1 DEF SysV!Occupied
<1>0. c \in SysV!Come /\ d \in SysV!Come /\ d # c
  BY DEF SysV!Come, OutOfRing, HoldsSeat, SeatSets
<1> DEFINE others == [s \in SysV!Slots \ {next} |-> pid[s]]
<1>5. others \in Injection(SysV!Slots \ {next}, (SysV!Come \ {c}) \ {d})
  <2>1. \A s \in SysV!Slots \ {next} : pid[s] \in (SysV!Come \ {c}) \ {d}
    BY <1>4 DEF RingSets, OutOfRing, SysV!Queued, SysV!Come
  <2>2. \A s, t \in SysV!Slots \ {next} : pid[s] = pid[t] => s = t
    BY <1>4 DEF RingSets
  <2> QED
    BY <2>1, <2>2 DEF Injection, IsInjective
<1>6. Cardinality(SysV!Slots \ {next}) = SysVSeats - 1
  BY SlotsCount, FS_RemoveElement
<1>7. /\ IsFiniteSet((SysV!Come \ {c}) \ {d})
      /\ Cardinality((SysV!Come \ {c}) \ {d}) = Cardinality(SysV!Come) - 2
  <2> DEFINE T == SysV!Come \ {c}
  <2>1. d \in T /\ IsFiniteSet(T) /\ Cardinality(T) = Cardinality(SysV!Come) - 1
    BY <1>0, FS_RemoveElement
  <2>2. Cardinality(SysV!Come) \in Nat
    BY FS_CardinalityType
  <2> HIDE DEF T
  <2>3. IsFiniteSet(T \ {d}) /\ Cardinality(T \ {d}) = Cardinality(T) - 1
    BY <2>1, FS_RemoveElement
  <2> QED
    BY <2>1, <2>2, <2>3 DEF T
<1>8. SysVSeats - 1 <= Cardinality(SysV!Come) - 2
  BY <1>5, <1>6, <1>7, FS_Injection
<1>9. Cardinality(SysV!Come) \in Nat
  BY FS_CardinalityType
<1> QED
  BY <1>8, <1>9

\* A step that leaves the waiting room, the chair and the sets alone.
LEMMA QuietQueue ==
  ASSUME SetTypeOK, SetTypeOK', SetQueueInv,
         UNCHANGED <<SysV!ring, SysV!seats, next, my_seat, SysV!setVars, barber_chair>>,
         \A c \in Clients :
           /\ cpc'[c] = "waiting" <=> cpc[c] = "waiting"
           /\ cpc'[c] # "left"
           /\ blocked[c] # SysV!NoSet => cpc'[c] \in {"waiting", "sit", "seated"}
           /\ HoldsSeat(c) \/ c = barber_chair => haircuts'[c] = haircuts[c]
           /\ SysV!InUse(c)' = SysV!InUse(c)
           /\ OutOfRing(c) /\ cpc[c] = "waiting" =>
                /\ bpc' \in {"invite", "invited", "await"}
                /\ \A d \in Clients : ~SysV!Serving(d)'
         , bpc' = "invite" => bpc = "invite"
  PROVE  SetQueueInv'
<1> USE DEF SetTypeOK, SetQueueInv, SysV!ring, SysV!seats, SysV!setVars
<1>1. \A s \in SysV!Slots : SysV!Occupied(s)' <=> SysV!Occupied(s)
  BY DEF SysV!Occupied
<1>2. \A c \in Clients : /\ HoldsSeat(c)' <=> HoldsSeat(c)
                         /\ OutOfRing(c)' <=> OutOfRing(c)
  BY <1>1 DEF HoldsSeat, OutOfRing, SysV!Queued, SysV!NoSet
<1>3. RingSets'
  BY <1>1 DEF RingSets
<1>4. OneOut'
  BY <1>1, <1>2 DEF OneOut
<1>5. SeatSets'
  <2>1. (DOMAIN sets = UNION {SysV!InUse(c) : c \in Clients})'
    BY DEF SeatSets
  <2>2. (chair_id = IF barber_chair = Nobody THEN SysV!NoSet ELSE SysV!Set(barber_chair, "chair"))'
    BY DEF SeatSets, SysV!Set, SysV!NoSet
  <2>3. ASSUME NEW c \in Clients
        PROVE  (/\ cpc[c] # "left"
                /\ blocked[c] \in {SysV!NoSet, SysV!Set(c, "seat")}
                /\ blocked[c] # SysV!NoSet => cpc[c] \in {"waiting", "sit", "seated"}
                /\ HoldsSeat(c) => waiting[my_seat[c]] = SysV!Set(c, "seat"))'
    <3>1. HoldsSeat(c) => SysV!Set(c, "seat")' = SysV!Set(c, "seat")
      BY DEF SysV!Set
    <3>2. blocked[c] # SysV!NoSet => HoldsSeat(c)
      BY DEF HoldsSeat
    <3>3. SysV!NoSet' = SysV!NoSet
      BY DEF SysV!NoSet
    <3> QED BY <1>2, <3>1, <3>2, <3>3 DEF SeatSets
  <2> QED BY <2>1, <2>2, <2>3 DEF SeatSets
<1> QED BY <1>3, <1>4, <1>5

\* A step of the barber while there are seats for all that have come.
LEMMA BarberQueue ==
  ASSUME SetChairInv, SetChairInv', SetQueueInv, SysV!SysVBarberStep,
         Barber \notin killed'
  PROVE  SetQueueInv'
<1>a. SetTypeOK /\ SetTypeOK' /\ Barber \notin killed /\ LivingShop
  <2>1. Barber \notin killed
    BY DEF SysV!SysVBarberStep, SysV!InviteClient, SysV!InviteFails,
       SysV!BarberAt, SysV!BarberEnter, SysV!WrPop, SysV!WrPopEmpty,
       SysV!Invited, SysV!GoToSleep, SysV!BarberWoken, SysV!StartHaircut,
       SysV!FinishHaircut, SysV!NextCustomer
  <2> QED BY <2>1 DEF SetChairInv, SetsInv
<1> USE <1>a, ProcessAssumption, SysVAssumption DEF SetQueueInv,
       SysV!semaphores, SysV!ring, SysV!seats, SysV!clientVars, SysV!setVars,
       SysV!BarberAt
<1>1. CASE SysV!WrPop /\ UNCHANGED SysV!setVars
  <2> USE <1>1 DEF SysV!WrPop, SetTypeOK
  <2>0. \A c \in Clients : ~SysV!Serving(c) /\ ~OutOfRing(c)
    <3>1. \A c \in Clients : ~SysV!Serving(c)
      BY DEF LivingShop, ShopPhase, ShopIdle
    <3>2. \A c \in Clients : blocked[c] # SysV!NoSet => cpc[c] = "waiting"
      BY <3>1 DEF SysV!Serving, SeatSets
    <3> QED BY <3>1, <3>2 DEF OutOfRing, HoldsSeat, OneOut
  <2>1. wr_start \in SysV!Slots /\ SysV!Occupied(wr_start)
    BY SetStepsType DEF SysV!Occupied
  <2>2. ASSUME NEW s \in SysV!Slots
        PROVE  SysV!Occupied(s)' <=> SysV!Occupied(s) /\ s # wr_start
    <3>1. /\ SysV!Steps(wr_start, s) \in 0 .. SysVSeats - 1
          /\ SysV!Steps(wr_start', s) = IF s = wr_start THEN SysVSeats - 1
                                   ELSE SysV!Steps(wr_start, s) - 1
      BY SetStepsType, SetStepsFromNext
    <3> QED
      BY <3>1 DEF SysV!Occupied
  <2>3. (SysV!Steps(wr_start, wr_end) = IF wr_count = SysVSeats THEN 0 ELSE wr_count)'
    <3>1. /\ SysV!Steps(wr_start, wr_end) = 0 <=> wr_start = wr_end
          /\ SysV!Steps(wr_start', wr_end) = IF wr_end = wr_start THEN SysVSeats - 1
                                        ELSE SysV!Steps(wr_start, wr_end) - 1
      BY SetStepsType, SetStepsFromNext
    <3> QED
      BY <3>1 DEF RingSets
  <2>4. RingSets'
    BY <2>2, <2>3 DEF RingSets
  <2>5. \A c \in Clients : HoldsSeat(c)' <=> HoldsSeat(c)
    BY DEF HoldsSeat, SysV!NoSet
  <2>6. \A c \in Clients : OutOfRing(c)' =>
          c = pid[wr_start] /\ my_seat[c] = wr_start
    BY <2>0, <2>1, <2>2, <2>5 DEF OutOfRing, SysV!Queued, RingSets
  <2>7. \E c \in Clients : OutOfRing(c)' /\ cpc'[c] = "waiting"
    <3>1. PICK c \in Clients : /\ c = pid[wr_start] /\ my_seat[c] = wr_start
                               /\ cpc[c] = "waiting"
      BY <2>1 DEF RingSets
    <3> QED BY <2>1, <2>2, <3>1 DEF OutOfRing, SysV!Queued, HoldsSeat
  <2>8. \A c \in Clients : ~SysV!Serving(c)'
    BY <2>0 DEF SysV!Serving
  <2>9. OneOut'
    BY <2>1, <2>2, <2>6, <2>7, <2>8 DEF OneOut
  <2>10. SeatSets'
    BY <2>5 DEF SeatSets, SysV!InUse, SysV!Set, SysV!NoSet
  <2> QED BY <2>4, <2>9, <2>10
<1>2. CASE SysV!InviteClient
  <2> USE <1>2 DEF SysV!InviteClient, SetTypeOK
  <2>1. PICK c \in Clients : OutOfRing(c) /\ cpc[c] = "waiting"
    BY DEF OneOut
  <2>2. waiting[next] = SysV!Set(c, "seat") /\ pid[next] = c /\ ~SysV!Occupied(next)
    BY <2>1 DEF OneOut, SeatSets, OutOfRing
  <2>3. \A s \in SysV!Slots : SysV!Occupied(s)' <=> SysV!Occupied(s)
    BY DEF SysV!Occupied
  <2>4. ASSUME NEW s \in SysV!Slots, SysV!Occupied(s)
        PROVE  sets'[waiting[s]] = 0
    <3>1. /\ waiting[s] = SysV!Set(pid[s], "seat") /\ pid[s] \in Clients
          /\ waiting[s] \in DOMAIN sets /\ pid[s] # c
      BY <2>1, <2>4, RingSeat DEF OutOfRing
    <3>2. waiting[s] # waiting[next]
      BY <2>2, <3>1, SetsDiffer
    <3> QED BY <2>4, <3>1, <3>2 DEF RingSets
  <2>5. RingSets'
    BY <2>3, <2>4 DEF RingSets
  <2>6. \A d \in Clients : /\ HoldsSeat(d)' <=> HoldsSeat(d)
                           /\ OutOfRing(d)' <=> OutOfRing(d)
                           /\ SysV!Serving(d)' <=> SysV!Serving(d)
    BY <2>3 DEF HoldsSeat, OutOfRing, SysV!Queued, SysV!NoSet, SysV!Serving
  <2>7. OneOut'
    BY <2>3, <2>6 DEF OneOut
  <2>8. SeatSets'
    BY <2>6 DEF SeatSets, SysV!InUse, SysV!Set, SysV!NoSet
  <2> QED BY <2>5, <2>7, <2>8
<1>3. CASE SysV!InviteFails
  BY <1>3 DEF SysV!InviteFails
<1>4. CASE /\ UNCHANGED SysV!setVars
           /\ \/ SysV!BarberEnter \/ SysV!WrPopEmpty \/ SysV!Invited \/ SysV!GoToSleep \/ SysV!BarberWoken
              \/ SysV!StartHaircut \/ SysV!FinishHaircut \/ SysV!NextCustomer
  <2>1. UNCHANGED <<barber_chair, SysV!ring, SysV!seats, next, cpc, SysV!clientVars, SysV!setVars>>
    BY <1>4 DEF SysV!BarberEnter, SysV!WrPopEmpty, SysV!Invited,
       SysV!GoToSleep, SysV!BarberWoken, SysV!StartHaircut, SysV!FinishHaircut,
       SysV!NextCustomer
  <2>2. \A c \in Clients : SysV!InUse(c)' = SysV!InUse(c) /\ SysV!Serving(c)' = SysV!Serving(c)
    BY <2>1 DEF SysV!InUse, SysV!Set, SysV!NoSet, SysV!Serving
  <2>3. /\ bpc' # "invite"
        /\ \/ bpc = "invited" /\ bpc' = "await"
           \/ bpc \notin {"invite", "invited", "await"}
           \/ SysV!StartHaircut
    BY <1>4 DEF SysV!BarberEnter, SysV!WrPopEmpty, SysV!Invited,
       SysV!GoToSleep, SysV!BarberWoken, SysV!StartHaircut, SysV!FinishHaircut,
       SysV!NextCustomer
  <2>4. SysV!StartHaircut => barber_chair \in Clients /\ SysV!Serving(barber_chair)
    BY DEF SysV!StartHaircut, SysV!WaitCustomer, LivingShop, SysV!TokenOwner,
       SysV!Serving, SetTypeOK
  <2>5. \A c \in Clients : OutOfRing(c) /\ cpc[c] = "waiting" =>
          /\ bpc' \in {"invite", "invited", "await"}
          /\ \A d \in Clients : ~SysV!Serving(d)'
    BY <2>2, <2>3, <2>4 DEF OneOut
  <2>6. \A c \in Clients : blocked[c] # SysV!NoSet => cpc[c] \in {"waiting", "sit", "seated"}
    BY DEF SeatSets
  <2>7. \A c \in Clients : cpc[c] # "left"
    BY DEF SeatSets
  <2> QED BY <2>1, <2>2, <2>3, <2>5, <2>6, <2>7, QuietQueue
<1> QED BY <1>1, <1>2, <1>3, <1>4 DEF SysV!SysVBarberStep

\* A client takes a seat.
LEMMA SitInRoomQueue ==
  ASSUME SetChairInv, SetChairInv', SetQueueInv, LivingShop,
         IsFiniteSet(SysV!Come), Cardinality(SysV!Come) <= SysVSeats,
         NEW c \in Clients, SysV!SitInRoom(c)
  PROVE  SetQueueInv'
<1> USE ProcessAssumption, SysVAssumption DEF SetChairInv, SetsInv, SetTypeOK,
       SetQueueInv, SysV!SitInRoom, SysV!NewSeat, SysV!ClientAt, SysV!Create
<1>0. blocked[c] = SysV!NoSet /\ ~HoldsSeat(c)
  BY DEF SeatSets, HoldsSeat
<1>1. wr_end \in SysV!Slots /\ ~SysV!Occupied(wr_end)
  BY DEF RingSets, SysV!Occupied
<1>2. SysV!Steps(wr_start, wr_end) = wr_count
  BY DEF RingSets
<1>3. ASSUME NEW s \in SysV!Slots
      PROVE  SysV!Occupied(s)' <=> SysV!Occupied(s) \/ s = wr_end
  <2>1. /\ SysV!Steps(wr_start, s) \in 0 .. SysVSeats - 1
        /\ SysV!Steps(wr_start, s) = wr_count => s = wr_end
    BY <1>1, <1>2, SetStepsType
  <2> QED
    BY <1>2, <2>1 DEF SysV!Occupied
<1>4. \A d \in Clients : HoldsSeat(d) => my_seat[d] # wr_end
  <2> SUFFICES ASSUME NEW d \in Clients, HoldsSeat(d) PROVE my_seat[d] # wr_end
    OBVIOUS
  <2>1. CASE SysV!Queued(d)
    BY <1>1, <2>1 DEF SysV!Queued
  <2>2. CASE ~SysV!Queued(d)
    BY <2>2, OutSeatSafe DEF OutOfRing, OneOut
  <2> QED BY <2>1, <2>2
<1>5. ASSUME NEW s \in SysV!Slots, SysV!Occupied(s)
      PROVE  /\ s # wr_end /\ pid[s] # c
             /\ sets'[waiting'[s]] = 0
  <2>1. /\ waiting[s] = SysV!Set(pid[s], "seat") /\ pid[s] \in Clients
        /\ waiting[s] \in DOMAIN sets /\ cpc[pid[s]] = "waiting"
    BY <1>5, RingSeat DEF RingSets
  <2>2. s # wr_end /\ pid[s] # c
    BY <1>1, <1>5, <2>1
  <2>3. waiting[s] # SysV!Set(c, "seat")
    BY <2>1, <2>2, SetsDiffer
  <2> QED BY <1>5, <2>1, <2>2, <2>3 DEF RingSets
<1>6. RingSets'
  <2>1. (SysV!Steps(wr_start, wr_end) = IF wr_count = SysVSeats THEN 0 ELSE wr_count)'
    <3>1. SysV!Steps(wr_start, wr_end') =
            IF wr_count = SysVSeats - 1 THEN 0 ELSE wr_count + 1
      BY <1>1, <1>2, SetStepsToNext
    <3>2. /\ wr_start' = wr_start /\ wr_count' = wr_count + 1
          /\ wr_count < SysVSeats /\ wr_count \in Nat /\ SysVSeats \in Nat
      OBVIOUS
    <3> HIDE DEF SetChairInv, SetsInv, SetTypeOK, SysV!SitInRoom, SysV!NewSeat
    <3> QED
      BY <3>1, <3>2
  <2>2. /\ sets'[waiting'[wr_end]] = 0 /\ pid'[wr_end] = c
        /\ cpc'[c] = "waiting" /\ my_seat'[c] = wr_end
    BY <1>1
  <2>3. ASSUME NEW s \in SysV!Slots, SysV!Occupied(s)
        PROVE  /\ pid'[s] = pid[s] /\ pid[s] \in Clients
               /\ cpc'[pid[s]] = "waiting" /\ my_seat'[pid[s]] = s
               /\ sets'[waiting'[s]] = 0
    <3>1. /\ s # wr_end /\ pid[s] # c /\ sets'[waiting'[s]] = 0
      BY <1>5, <2>3
    <3>2. pid[s] \in Clients /\ cpc[pid[s]] = "waiting" /\ my_seat[pid[s]] = s
      BY <2>3 DEF RingSets
    <3>3. pid'[s] = pid[s] /\ cpc'[pid[s]] = cpc[pid[s]] /\ my_seat'[pid[s]] = my_seat[pid[s]]
      BY <3>1, <3>2
    <3> HIDE DEF SetChairInv, SetsInv, SetTypeOK, SysV!SitInRoom, SysV!NewSeat
    <3> QED BY <3>1, <3>2, <3>3
  <2>4. (\A s \in SysV!Slots : SysV!Occupied(s) =>
           /\ pid[s] \in Clients
           /\ cpc[pid[s]] = "waiting"
           /\ my_seat[pid[s]] = s
           /\ sets[waiting[s]] = 0)'
    <3>1. SysV!Slots' = SysV!Slots
      BY DEF SysV!Slots
    <3> HIDE DEF SetChairInv, SetsInv, SetTypeOK, SysV!SitInRoom, SysV!NewSeat
    <3> QED BY <1>1, <1>3, <2>2, <2>3, <3>1
  <2> QED
    BY <2>1, <2>4 DEF RingSets
<1>7. \A d \in Clients \ {c} : /\ HoldsSeat(d)' <=> HoldsSeat(d)
                               /\ OutOfRing(d)' <=> OutOfRing(d)
  <2> SUFFICES ASSUME NEW d \in Clients \ {c}
               PROVE  /\ HoldsSeat(d)' <=> HoldsSeat(d)
                      /\ OutOfRing(d)' <=> OutOfRing(d)
    OBVIOUS
  <2>1. HoldsSeat(d)' <=> HoldsSeat(d)
    BY DEF HoldsSeat, SysV!NoSet
  <2>2. HoldsSeat(d) => (SysV!Queued(d)' <=> SysV!Queued(d))
    BY <1>1, <1>3, <1>4 DEF SysV!Queued
  <2> QED BY <2>1, <2>2 DEF OutOfRing
<1>8. ~OutOfRing(c)'
  BY <1>1, <1>3 DEF OutOfRing, SysV!Queued
<1>9. \A d \in Clients : SysV!Serving(d)' <=> SysV!Serving(d)
  BY DEF SysV!Serving
<1>10. bpc # "invite"
  BY DEF LivingShop, SysV!RoomMutex, SysV!ClientHolds, SysV!BarberHolds
<1>11. OneOut'
  <2>1. \A d \in Clients : OutOfRing(d)' => OutOfRing(d) /\ d # c /\ next # wr_end
    BY <1>7, <1>8, OutSeatSafe
  <2> QED BY <1>1, <1>3, <1>9, <1>10, <2>1 DEF OneOut
<1>12. SeatSets'
  <2>1. \A d \in Clients \ {c} : SysV!InUse(d)' = SysV!InUse(d)
    BY DEF SysV!InUse, SysV!Set, SysV!NoSet
  <2>2. SysV!InUse(c) = {} /\ SysV!InUse(c)' = {SysV!Set(c, "seat")}
    BY <1>0 DEF SysV!InUse, SysV!Set, SysV!NoSet, HoldsSeat
  <2>3. DOMAIN sets' = DOMAIN sets \cup {SysV!Set(c, "seat")}
    OBVIOUS
  <2>4. (DOMAIN sets = UNION {SysV!InUse(d) : d \in Clients})'
    <3>1. DOMAIN sets = UNION {SysV!InUse(d) : d \in Clients}
      BY DEF SeatSets
    <3> HIDE DEF SetChairInv, SetsInv, SetTypeOK, SysV!SitInRoom, SysV!NewSeat, SysV!ClientAt, SysV!Create
    <3> QED BY <2>1, <2>2, <2>3, <3>1
  <2>5. (chair_id = IF barber_chair = Nobody THEN SysV!NoSet ELSE SysV!Set(barber_chair, "chair"))'
    BY DEF SeatSets, SysV!Set, SysV!NoSet
  <2>6. ASSUME NEW d \in Clients
        PROVE  (/\ cpc[d] # "left"
                /\ blocked[d] \in {SysV!NoSet, SysV!Set(d, "seat")}
                /\ blocked[d] # SysV!NoSet => cpc[d] \in {"waiting", "sit", "seated"}
                /\ HoldsSeat(d) => waiting[my_seat[d]] = SysV!Set(d, "seat"))'
    <3>1. SysV!Set(d, "seat")' = SysV!Set(d, "seat") /\ SysV!NoSet' = SysV!NoSet
      BY DEF SysV!Set, SysV!NoSet
    <3>2. CASE d = c
      BY <1>0, <1>1, <3>1, <3>2 DEF SeatSets
    <3>3. CASE d # c
      BY <1>4, <1>7, <3>1, <3>3 DEF SeatSets
    <3> QED BY <3>2, <3>3
  <2> QED BY <2>4, <2>5, <2>6 DEF SeatSets
<1> QED BY <1>6, <1>11, <1>12

\* A step in the waiting room that leaves the ring alone.
LEMMA RoomKept ==
  ASSUME SetTypeOK, SetTypeOK', RingSets, OneOut,
         UNCHANGED <<SysV!ring, SysV!seats, next, my_seat, bpc>>,
         \A s \in SysV!Slots : SysV!Occupied(s) =>
           cpc'[pid[s]] = "waiting" /\ sets'[waiting[s]] = 0,
         \A c \in Clients : OutOfRing(c)' =>
           /\ OutOfRing(c)
           /\ cpc'[c] = "waiting" => /\ cpc[c] = "waiting"
                                     /\ \A d \in Clients : ~SysV!Serving(d)',
         \A c \in Clients : bpc = "invite" /\ cpc[c] = "waiting" /\ OutOfRing(c) =>
           cpc'[c] = "waiting"
  PROVE  RingSets' /\ OneOut'
<1> USE DEF SetTypeOK, SysV!ring, SysV!seats
<1>1. \A s \in SysV!Slots : SysV!Occupied(s)' <=> SysV!Occupied(s)
  BY DEF SysV!Occupied
<1>2. \A c \in Clients : SysV!Queued(c)' <=> SysV!Queued(c)
  BY <1>1 DEF SysV!Queued
<1>3. RingSets'
  BY <1>1 DEF RingSets
<1>4. \A c \in Clients : cpc'[c] = "waiting" /\ OutOfRing(c) => OutOfRing(c)'
  BY <1>2 DEF OutOfRing, HoldsSeat
<1>5. OneOut'
  BY <1>1, <1>4 DEF OneOut
<1> QED BY <1>3, <1>5

\* The sets a client uses are its own.
LEMMA OwnSets ==
  ASSUME NEW c \in Clients, NEW i \in SysV!InUse(c)
  PROVE  i \in {SysV!Set(c, "seat"), SysV!Set(c, "chair")}
  BY DEF SysV!InUse

\* A step of client c that makes or removes sets of its own.
LEMMA SetsKept ==
  ASSUME SetTypeOK, SetTypeOK', SeatSets, NEW c \in Clients,
         UNCHANGED <<SysV!seats, my_seat, haircuts>>,
         \A d \in Clients \ {c} : cpc'[d] = cpc[d] /\ blocked'[d] = blocked[d],
         DOMAIN sets' = (DOMAIN sets \ SysV!InUse(c)) \cup SysV!InUse(c)',
         chair_id' = IF barber_chair' = Nobody THEN SysV!NoSet
                     ELSE SysV!Set(barber_chair', "chair"),
         cpc'[c] # "left",
         blocked'[c] \in {SysV!NoSet, SysV!Set(c, "seat")},
         blocked'[c] # SysV!NoSet => cpc'[c] \in {"waiting", "sit", "seated"},
         HoldsSeat(c)' => HoldsSeat(c)
  PROVE  SeatSets'
<1> USE DEF SetTypeOK, SysV!seats
<1>0. SysV!NoSet' = SysV!NoSet /\ \A d, p : SysV!Set(d, p)' = SysV!Set(d, p)
  BY DEF SysV!NoSet, SysV!Set
<1>1. \A d \in Clients \ {c} : SysV!InUse(d)' = SysV!InUse(d)
  BY <1>0 DEF SysV!InUse
<1>2. \A d \in Clients \ {c} : SysV!InUse(d) \cap SysV!InUse(c) = {}
  BY OwnSets, SetsDiffer
<1>3. (DOMAIN sets = UNION {SysV!InUse(d) : d \in Clients})'
  <2>1. DOMAIN sets = UNION {SysV!InUse(d) : d \in Clients}
    BY DEF SeatSets
  <2> QED BY <1>1, <1>2, <2>1
<1>4. \A d \in Clients \ {c} : HoldsSeat(d)' <=> HoldsSeat(d)
  BY <1>0 DEF HoldsSeat
<1>5. ASSUME NEW d \in Clients
      PROVE  (/\ cpc[d] # "left"
              /\ blocked[d] \in {SysV!NoSet, SysV!Set(d, "seat")}
              /\ blocked[d] # SysV!NoSet => cpc[d] \in {"waiting", "sit", "seated"}
              /\ HoldsSeat(d) => waiting[my_seat[d]] = SysV!Set(d, "seat"))'
  <2>1. CASE d = c
    BY <1>0, <2>1 DEF SeatSets
  <2>2. CASE d # c
    BY <1>0, <1>4, <2>2 DEF SeatSets
  <2> QED BY <2>1, <2>2
<1> QED BY <1>0, <1>3, <1>5 DEF SeatSets

\* The steps of a client, those that leave the sets alone together.
LEMMA ClientSteps ==
  ASSUME NEW c \in Clients, SysV!SysVClientStep(c)
  PROVE  \/ SysV!SitInRoom(c) \/ SysV!WaitInRoom(c) \/ SysV!Called(c) \/ SysV!SeatRemoved(c)
         \/ SysV!SitInChair(c) \/ SysV!DeleteSeat(c) \/ SysV!LeaveChair(c)
         \/ SysV!WaitFails(c) \/ SysV!ShopRemoved(c)
         \/ /\ UNCHANGED SysV!setVars
            /\ \/ SysV!StartClient(c) \/ SysV!GoHome(c) \/ SysV!LookAtBarber(c) \/ SysV!EnterShop(c)
               \/ SysV!WakeBarber(c) \/ SysV!WalkToChair(c) \/ SysV!TurnedAway(c) \/ SysV!HaircutDone(c)
               \/ SysV!LeaveShop(c) \/ (SysV!Ready(c) /\ blocked[c] = SysV!NoSet)
  BY DEF SysV!SysVClientStep

\* A step of a client while there are seats for all that have come.
LEMMA ClientQueue ==
  ASSUME SetChairInv, SetChairInv', SetQueueInv, LivingShop,
         Barber \notin killed,
         IsFiniteSet(SysV!Come), Cardinality(SysV!Come) <= SysVSeats,
         NEW c \in Clients, SysV!SysVClientStep(c)
  PROVE  SetQueueInv'
<1> USE ProcessAssumption, SysVAssumption DEF SetChairInv, SetsInv, SetQueueInv
<1>t. SetTypeOK /\ SetTypeOK'
  OBVIOUS
<1>o. \A s \in SysV!Slots : SysV!Occupied(s) =>
        /\ pid[s] \in Clients /\ cpc[pid[s]] = "waiting" /\ sets[waiting[s]] = 0
        /\ waiting[s] = SysV!Set(pid[s], "seat") /\ waiting[s] \in DOMAIN sets
        /\ SysV!Queued(pid[s])
  BY <1>t, RingSeat DEF RingSets
<1>z. SysV!NoSet' = SysV!NoSet
  BY DEF SysV!NoSet
<1>1. CASE SysV!SitInRoom(c)
  BY <1>1, SitInRoomQueue
<1>2. CASE SysV!WaitInRoom(c)
  <2> USE <1>2 DEF SysV!WaitInRoom
  <2>1. waiting[my_seat[c]] = SysV!Set(c, "seat")
    BY DEF SeatSets, HoldsSeat
  <2>2. UNCHANGED <<SysV!seats, SysV!ring, next, my_seat, bpc, cpc, haircuts, sets, chair_id, barber_chair>>
    BY DEF SysV!vars, SysV!clientVars
  <2>3. /\ blocked'[c] = SysV!Set(c, "seat") /\ SysV!Set(c, "seat") # SysV!NoSet
        /\ \A d \in Clients \ {c} : blocked'[d] = blocked[d]
    BY <1>t, <2>1, SetsDiffer DEF SetTypeOK
  <2>4. \A d \in Clients : /\ HoldsSeat(d)' <=> HoldsSeat(d)
                           /\ OutOfRing(d)' <=> OutOfRing(d)
                           /\ SysV!Serving(d)' <=> SysV!Serving(d)
    BY <1>z, <2>2, <2>3 DEF HoldsSeat, OutOfRing, SysV!Queued, SysV!Occupied,
       SysV!Serving, SysV!ring, SysV!seats
  <2>5. RingSets' /\ OneOut'
    <3>1. \A d \in Clients : OutOfRing(d) /\ cpc[d] = "waiting" =>
            \A e \in Clients : ~SysV!Serving(e)
      BY DEF OneOut
    <3> HIDE DEF SysV!WaitInRoom
    <3> QED BY <1>t, <1>o, <2>2, <2>4, <3>1, RoomKept
  <2>6. SysV!InUse(c)' = SysV!InUse(c)
    BY <1>z, <2>2, <2>3 DEF SysV!InUse, SysV!Set
  <2>7. SysV!InUse(c) \subseteq DOMAIN sets
    BY DEF SeatSets
  <2>8. (chair_id = IF barber_chair = Nobody THEN SysV!NoSet ELSE SysV!Set(barber_chair, "chair"))'
    BY <1>z, <2>2 DEF SeatSets, SysV!Set
  <2>9. SeatSets'
    <3>1. /\ cpc'[c] = "waiting" /\ HoldsSeat(c)
          /\ chair_id' = IF barber_chair' = Nobody THEN SysV!NoSet
                         ELSE SysV!Set(barber_chair', "chair")
      BY <1>z, <2>2, <2>8 DEF HoldsSeat, SysV!Set
    <3>2. DOMAIN sets' = (DOMAIN sets \ SysV!InUse(c)) \cup SysV!InUse(c)'
      BY <2>2, <2>6, <2>7
    <3> HIDE DEF SysV!WaitInRoom
    <3> QED BY <1>t, <2>2, <2>3, <3>1, <3>2, SetsKept
  <2> QED BY <2>5, <2>9
<1>3. CASE SysV!Called(c)
  <2> USE <1>3 DEF SysV!Called, SysV!ClientAt
  <2>1. HoldsSeat(c) /\ waiting[my_seat[c]] = SysV!Set(c, "seat")
    BY DEF SeatSets, HoldsSeat
  <2>2. blocked[c] = SysV!Set(c, "seat")
    <3>1. \A d \in Clients : SysV!NoSet \notin SysV!InUse(d)
      BY OwnSets, SetsDiffer
    <3> QED BY <3>1 DEF SeatSets
  <2>3. ~SysV!Queued(c) /\ OutOfRing(c)
    <3>1. my_seat[c] \in SysV!Slots
      BY <1>t DEF SetTypeOK
    <3> QED BY <1>o, <2>1, <2>2, <3>1 DEF SysV!Queued, OutOfRing
  <2>4. UNCHANGED <<SysV!seats, SysV!ring, next, my_seat, bpc, blocked, haircuts, chair_id, barber_chair>>
    BY DEF SysV!clientVars
  <2>5. /\ cpc'[c] = "sit" /\ DOMAIN sets' = DOMAIN sets
        /\ \A d \in Clients \ {c} : cpc'[d] = cpc[d]
    BY <1>t DEF SetTypeOK
  <2>6. bpc # "invite"
    <3>1. blocked[c] \in Posted
      BY DEF Posted
    <3> QED BY <3>1 DEF LivingShop, PostedPhase
  <2>7. \A d \in Clients : OutOfRing(d) => d = c
    BY <2>3 DEF OneOut
  <2>8. SysV!Set(c, "seat") # SysV!NoSet
    BY SetsDiffer
  <2>9. \A d \in Clients : /\ HoldsSeat(d)' <=> HoldsSeat(d)
                           /\ OutOfRing(d)' <=> OutOfRing(d)
    BY <1>z, <2>1, <2>2, <2>4, <2>5, <2>8 DEF HoldsSeat, OutOfRing,
       SysV!Queued, SysV!Occupied, SysV!ring, SysV!seats
  <2>10. ASSUME NEW s \in SysV!Slots, SysV!Occupied(s)
         PROVE  cpc'[pid[s]] = "waiting" /\ sets'[waiting[s]] = 0
    <3>1. pid[s] # c
      BY <1>o, <2>3, <2>10
    <3>2. waiting[s] # SysV!Set(c, "seat")
      BY <1>o, <2>10, <3>1, SetsDiffer
    <3> QED BY <1>o, <2>2, <2>5, <2>10, <3>1, <3>2
  <2>11. RingSets' /\ OneOut'
    <3> HIDE DEF SysV!Called, SysV!ClientAt
    <3> QED BY <1>t, <2>4, <2>5, <2>6, <2>7, <2>9, <2>10, RoomKept
  <2>12. SeatSets'
    <3>1. SysV!InUse(c)' = SysV!InUse(c) /\ SysV!InUse(c) \subseteq DOMAIN sets
      BY <1>z, <2>2, <2>4, <2>5, <2>8 DEF SysV!InUse, SysV!Set, SeatSets
    <3>2. chair_id' = IF barber_chair' = Nobody THEN SysV!NoSet
                      ELSE SysV!Set(barber_chair', "chair")
      BY <2>4 DEF SeatSets
    <3> HIDE DEF SysV!Called, SysV!ClientAt
    <3> QED BY <1>t, <2>1, <2>2, <2>4, <2>5, <3>1, <3>2, SetsKept
  <2> QED BY <2>11, <2>12
<1>4. CASE SysV!SeatRemoved(c)
  <2>1. blocked[c] \in SysV!InUse(c)
    BY <1>4 DEF SysV!SeatRemoved, SeatSets, SysV!InUse
  <2> QED BY <1>4, <2>1 DEF SysV!SeatRemoved, SeatSets
<1>5. CASE SysV!SitInChair(c)
  <2> USE <1>5 DEF SysV!SitInChair, SysV!ClientAt
  <2>1. UNCHANGED <<SysV!seats, SysV!ring, next, my_seat, bpc, blocked, haircuts>>
    BY DEF SysV!clientVars
  <2>2. /\ cpc'[c] = "seated" /\ barber_chair' = c /\ chair_id' = SysV!Set(c, "chair")
        /\ \A d \in Clients \ {c} : cpc'[d] = cpc[d]
        /\ DOMAIN sets' = DOMAIN sets \cup {SysV!Set(c, "chair")}
        /\ \A i \in DOMAIN sets \ {SysV!Set(c, "chair")} : sets'[i] = sets[i]
    BY <1>t DEF SetTypeOK, SysV!Create
  <2>3. bpc # "invite" /\ SysV!Serving(c)
    BY DEF LivingShop, SysV!ClientPhase, SysV!Serving
  <2>4. \A d \in Clients : OutOfRing(d) => cpc[d] # "waiting"
    BY <2>3 DEF OneOut
  <2>5. \A d \in Clients : /\ HoldsSeat(d)' <=> HoldsSeat(d)
                           /\ OutOfRing(d)' <=> OutOfRing(d)
    BY <1>z, <2>1, <2>2 DEF HoldsSeat, OutOfRing, SysV!Queued, SysV!Occupied,
       SysV!ring, SysV!seats
  <2>6. ASSUME NEW s \in SysV!Slots, SysV!Occupied(s)
        PROVE  cpc'[pid[s]] = "waiting" /\ sets'[waiting[s]] = 0
    <3>1. pid[s] # c
      BY <1>o, <2>6
    <3>2. waiting[s] # SysV!Set(c, "chair")
      BY <1>o, <2>6, <3>1, SetsDiffer
    <3> QED BY <1>o, <2>2, <2>6, <3>1, <3>2
  <2>7. RingSets' /\ OneOut'
    <3>1. \A d \in Clients : cpc'[d] = "waiting" => cpc[d] = "waiting"
      BY <2>2
    <3> HIDE DEF SysV!SitInChair, SysV!ClientAt
    <3> QED BY <1>t, <2>1, <2>3, <2>4, <2>5, <2>6, <3>1, RoomKept
  <2>8. SeatSets'
    <3>1. SysV!InUse(c)' = SysV!InUse(c) \cup {SysV!Set(c, "chair")}
      BY <1>z, <2>1, <2>2 DEF SysV!InUse, SysV!Set
    <3>2. SysV!InUse(c) \subseteq DOMAIN sets
      BY DEF SeatSets
    <3>3. DOMAIN sets' = (DOMAIN sets \ SysV!InUse(c)) \cup SysV!InUse(c)'
      BY <2>2, <3>1, <3>2
    <3>4. chair_id' = IF barber_chair' = Nobody THEN SysV!NoSet
                      ELSE SysV!Set(barber_chair', "chair")
      BY <2>2
    <3>5. blocked[c] \in {SysV!NoSet, SysV!Set(c, "seat")}
      BY DEF SeatSets
    <3> HIDE DEF SysV!SitInChair, SysV!ClientAt
    <3> QED BY <1>t, <2>1, <2>2, <2>5, <3>3, <3>4, <3>5, SetsKept
  <2> QED BY <2>7, <2>8
<1>6. CASE SysV!DeleteSeat(c)
  <2> USE <1>6 DEF SysV!DeleteSeat
  <2>1. HoldsSeat(c) /\ waiting[my_seat[c]] = SysV!Set(c, "seat")
    BY DEF SeatSets, HoldsSeat
  <2>2. UNCHANGED <<SysV!seats, SysV!ring, next, my_seat, bpc, cpc, haircuts, chair_id, barber_chair>>
    BY DEF SysV!vars, SysV!clientVars
  <2>3. /\ blocked'[c] = SysV!NoSet
        /\ \A d \in Clients \ {c} : blocked'[d] = blocked[d]
        /\ DOMAIN sets' = DOMAIN sets \ {SysV!Set(c, "seat")}
        /\ \A i \in DOMAIN sets \ {SysV!Set(c, "seat")} : sets'[i] = sets[i]
    BY <1>t, <2>1 DEF SetTypeOK, SysV!Remove
  <2>4. bpc # "invite" /\ SysV!Serving(c) /\ cpc[c] = "seated"
    BY DEF LivingShop, SysV!ClientPhase, SysV!Serving
  <2>5. \A d \in Clients : OutOfRing(d) => cpc[d] # "waiting"
    BY <2>4 DEF OneOut
  <2>6. \A d \in Clients : OutOfRing(d)' => OutOfRing(d)
    BY <1>z, <2>2, <2>3 DEF HoldsSeat, OutOfRing, SysV!Queued, SysV!Occupied,
       SysV!ring, SysV!seats
  <2>7. ASSUME NEW s \in SysV!Slots, SysV!Occupied(s)
        PROVE  cpc'[pid[s]] = "waiting" /\ sets'[waiting[s]] = 0
    <3>1. pid[s] # c
      BY <1>o, <2>4, <2>7
    <3>2. waiting[s] # SysV!Set(c, "seat")
      BY <1>o, <2>7, <3>1, SetsDiffer
    <3> QED BY <1>o, <2>2, <2>3, <2>7, <3>1, <3>2
  <2>8. RingSets' /\ OneOut'
    <3>1. \A d \in Clients : cpc'[d] = "waiting" => cpc[d] = "waiting"
      BY <2>2
    <3> HIDE DEF SysV!DeleteSeat
    <3> QED BY <1>t, <2>2, <2>4, <2>5, <2>6, <2>7, <3>1, RoomKept
  <2>9. SeatSets'
    <3>1. /\ SysV!InUse(c) = {SysV!Set(c, "seat"), SysV!Set(c, "chair")}
          /\ SysV!InUse(c)' = {SysV!Set(c, "chair")}
      <4>1. SysV!Set(c, "chair")' = SysV!Set(c, "chair")
        BY <2>2 DEF SysV!Set
      <4> QED BY <1>z, <2>2, <2>3, <4>1 DEF SysV!InUse
    <3>2. SysV!InUse(c) \subseteq DOMAIN sets
      BY DEF SeatSets
    <3>3. DOMAIN sets' = (DOMAIN sets \ SysV!InUse(c)) \cup SysV!InUse(c)'
      <4>1. SysV!Set(c, "seat") # SysV!Set(c, "chair")
        BY SetsDiffer
      <4> QED BY <2>3, <3>1, <3>2, <4>1
    <3>4. chair_id' = IF barber_chair' = Nobody THEN SysV!NoSet
                      ELSE SysV!Set(barber_chair', "chair")
      BY <2>2 DEF SeatSets
    <3>5. cpc'[c] # "left"
      BY <2>2, <2>4
    <3> HIDE DEF SysV!DeleteSeat
    <3> QED BY <1>t, <2>1, <2>2, <2>3, <3>3, <3>4, <3>5, SetsKept
  <2> QED BY <2>8, <2>9
<1>7. CASE SysV!LeaveChair(c)
  <2> USE <1>7 DEF SysV!LeaveChair, SysV!ClientAt
  <2>1. UNCHANGED <<SysV!seats, SysV!ring, next, my_seat, bpc, blocked, haircuts>>
    OBVIOUS
  <2>2. /\ cpc'[c] = "leaving" /\ barber_chair' = Nobody /\ chair_id' = SysV!NoSet
        /\ \A d \in Clients \ {c} : cpc'[d] = cpc[d]
    BY <1>t DEF SetTypeOK
  <2>3. bpc = "leave" /\ SysV!Serving(c) /\ barber_chair = c
    BY DEF LivingShop, SysV!ClientPhase, SysV!Serving
  <2>4. chair_id = SysV!Set(c, "chair")
    BY <2>3 DEF SeatSets
  <2>5. /\ DOMAIN sets' = DOMAIN sets \ {SysV!Set(c, "chair")}
        /\ \A i \in DOMAIN sets \ {SysV!Set(c, "chair")} : sets'[i] = sets[i]
    BY <2>4 DEF SysV!Remove
  <2>6. \A d \in Clients : OutOfRing(d) => cpc[d] # "waiting"
    BY <2>3 DEF OneOut
  <2>7. \A d \in Clients : OutOfRing(d)' <=> OutOfRing(d)
    BY <1>z, <2>1, <2>2 DEF HoldsSeat, OutOfRing, SysV!Queued, SysV!Occupied,
       SysV!ring, SysV!seats
  <2>8. ASSUME NEW s \in SysV!Slots, SysV!Occupied(s)
        PROVE  cpc'[pid[s]] = "waiting" /\ sets'[waiting[s]] = 0
    <3>1. pid[s] # c
      BY <1>o, <2>8
    <3>2. waiting[s] # SysV!Set(c, "chair")
      BY <1>o, <2>8, <3>1, SetsDiffer
    <3> QED BY <1>o, <2>2, <2>5, <2>8, <3>1, <3>2
  <2>9. RingSets' /\ OneOut'
    <3>1. \A d \in Clients : cpc'[d] = "waiting" => cpc[d] = "waiting"
      BY <2>2
    <3> HIDE DEF SysV!LeaveChair, SysV!ClientAt
    <3> QED BY <1>t, <2>1, <2>3, <2>6, <2>7, <2>8, <3>1, RoomKept
  <2>10. SeatSets'
    <3>1. blocked[c] = SysV!NoSet
      BY DEF SeatSets
    <3>2. SysV!InUse(c) = {SysV!Set(c, "chair")} /\ SysV!InUse(c)' = {} /\ ~HoldsSeat(c)'
      BY <1>z, <2>1, <2>2, <3>1 DEF SysV!InUse, HoldsSeat
    <3>3. DOMAIN sets' = (DOMAIN sets \ SysV!InUse(c)) \cup SysV!InUse(c)'
      BY <2>5, <3>2
    <3> HIDE DEF SysV!LeaveChair, SysV!ClientAt
    <3> QED BY <1>t, <2>1, <2>2, <3>1, <3>2, <3>3, SetsKept
  <2> QED BY <2>9, <2>10
<1>8. CASE SysV!WaitFails(c) \/ SysV!ShopRemoved(c)
  BY <1>8 DEF SysV!WaitFails, SysV!ShopRemoved, SysV!Removed
<1>9. CASE /\ UNCHANGED SysV!setVars
           /\ \/ SysV!StartClient(c) \/ SysV!GoHome(c) \/ SysV!LookAtBarber(c) \/ SysV!EnterShop(c)
              \/ SysV!WakeBarber(c) \/ SysV!WalkToChair(c) \/ SysV!TurnedAway(c) \/ SysV!HaircutDone(c)
              \/ SysV!LeaveShop(c) \/ (SysV!Ready(c) /\ blocked[c] = SysV!NoSet)
  <2>1. ~SysV!TurnedAway(c)
    <3> SUFFICES ASSUME SysV!TurnedAway(c) PROVE FALSE
      OBVIOUS
    <3>1. wr_count < SysVSeats
      BY <1>t, RoomForAll DEF SysV!TurnedAway, SysV!ClientAt
    <3> QED BY <1>t, <3>1 DEF SysV!TurnedAway, SetTypeOK
  <2>2. UNCHANGED <<SysV!ring, SysV!seats, next, my_seat, SysV!setVars, barber_chair, bpc>>
    BY <1>9 DEF SysV!StartClient, SysV!GoHome, SysV!LookAtBarber,
       SysV!EnterShop, SysV!WakeBarber, SysV!WalkToChair, SysV!TurnedAway,
       SysV!HaircutDone, SysV!LeaveShop, SysV!Ready, SysV!clientVars
  <2>3. /\ cpc'[c] # "left" /\ cpc'[c] # "waiting" /\ cpc[c] # "waiting"
        /\ cpc[c] \in {"seated", "cutting", "trimmed"} <=>
             cpc'[c] \in {"seated", "cutting", "trimmed"}
        /\ cpc[c] = "seated" => blocked[c] = SysV!NoSet
        /\ cpc[c] # "sit"
        /\ cpc'[c] \in {"waking", "sit", "seated", "cutting", "trimmed", "leaving"}
             => cpc[c] \in {"wake", "waking", "seated", "cutting", "trimmed"}
    BY <1>9, <1>t, <2>1 DEF SysV!StartClient, SysV!GoHome, SysV!LookAtBarber,
       SysV!EnterShop, SysV!WakeBarber, SysV!WalkToChair, SysV!HaircutDone,
       SysV!LeaveShop, SysV!Ready, SysV!ClientAt, SetTypeOK
  <2>4. blocked[c] = SysV!NoSet /\ ~HoldsSeat(c)
    BY <2>3 DEF SeatSets, HoldsSeat
  <2>5. \A d \in Clients \ {c} : cpc'[d] = cpc[d]
    BY <1>9, <1>t, <2>1 DEF SysV!StartClient, SysV!GoHome, SysV!LookAtBarber,
       SysV!EnterShop, SysV!WakeBarber, SysV!WalkToChair, SysV!HaircutDone,
       SysV!LeaveShop, SysV!Ready, SysV!ClientAt, SetTypeOK
  <2>6. /\ \A d \in Clients \ {c} : haircuts'[d] = haircuts[d]
        /\ haircuts'[c] = haircuts[c] \/ cpc[c] = "enter"
    BY <1>9, <1>t DEF SysV!StartClient, SysV!GoHome, SysV!LookAtBarber,
       SysV!EnterShop, SysV!WakeBarber, SysV!WalkToChair, SysV!TurnedAway,
       SysV!HaircutDone, SysV!LeaveShop, SysV!Ready, SysV!ClientAt,
       SysV!clientVars, SetTypeOK
  <2>7. cpc[c] = "enter" => c # barber_chair
    BY DEF LivingShop, SysV!TokenOwner
  <2>8. ASSUME NEW d \in Clients PROVE SysV!InUse(d)' = SysV!InUse(d)
    <3>1. CASE d # c
      BY <1>z, <2>2, <2>5, <2>6, <3>1 DEF SysV!InUse, SysV!Set, SysV!setVars
    <3>2. CASE d = c
      BY <1>z, <2>2, <2>3, <2>4, <2>5, <2>6, <3>2 DEF SysV!InUse, SysV!Set,
         SysV!setVars
    <3> QED BY <3>1, <3>2
  <2>9. ASSUME NEW d \in Clients, OutOfRing(d), cpc[d] = "waiting"
        PROVE  /\ bpc' \in {"invite", "invited", "await"}
               /\ \A e \in Clients : ~SysV!Serving(e)'
    <3>1. /\ bpc \in {"invite", "invited", "await"}
          /\ \A e \in Clients : ~SysV!Serving(e)
      BY <2>9 DEF OneOut
    <3>2. cpc[c] # "wake"
      BY <3>1 DEF LivingShop, SysV!FlagStable
    <3>4. ~SysV!Serving(c)'
      BY <2>3, <2>5, <3>1, <3>2 DEF SysV!Serving
    <3>5. \A e \in Clients \ {c} : ~SysV!Serving(e)'
      BY <2>5, <3>1 DEF SysV!Serving
    <3> QED BY <2>2, <3>1, <3>4, <3>5
  <2>10. ASSUME NEW d \in Clients
         PROVE  /\ cpc'[d] = "waiting" <=> cpc[d] = "waiting"
                /\ cpc'[d] # "left"
                /\ blocked[d] # SysV!NoSet => cpc'[d] \in {"waiting", "sit", "seated"}
                /\ HoldsSeat(d) \/ d = barber_chair => haircuts'[d] = haircuts[d]
    <3>1. CASE d = c
      BY <2>3, <2>4, <2>5, <2>6, <2>7, <3>1
    <3>2. CASE d # c
      BY <2>5, <2>6, <3>2 DEF SeatSets
    <3> QED BY <3>1, <3>2
  <2>11. bpc' = "invite" => bpc = "invite"
    BY <2>2
  <2> QED BY <1>t, <2>2, <2>8, <2>9, <2>10, <2>11, QuietQueue
<1> QED BY <1>1, <1>2, <1>3, <1>4, <1>5, <1>6, <1>7, <1>8, <1>9, ClientSteps

\* The empty shop satisfies the whole invariant.
LEMMA InitSetQueue == SysV!SysVInit => SetInv /\ SetQueueInv
<1> SUFFICES ASSUME SysV!SysVInit PROVE SetInv /\ SetQueueInv
  OBVIOUS
<1>1. SetChairInv
  BY InitSetChair
<1>2. SysV!Come = {}
  BY DEF SysV!SysVInit, SysV!InitialShop, SysV!Come
<1>3. IsFiniteSet(SysV!Come)
  BY <1>2, FS_EmptySet
<1> USE SysVAssumption, ProcessAssumption DEF SysV!SysVInit, SysV!InitialShop,
       SysV!NoSets
<1>4. \A s \in SysV!Slots : ~SysV!Occupied(s)
  BY DEF SysV!Occupied, SysV!Steps, SysV!Slots
<1>5. \A c \in Clients : ~HoldsSeat(c) /\ SysV!InUse(c) = {}
  BY DEF HoldsSeat, SysV!InUse
<1>6. RingSets
  BY <1>4 DEF RingSets, SysV!Steps
<1>7. OneOut
  BY <1>5 DEF OneOut, OutOfRing
<1>8. SeatSets
  <2>1. DOMAIN sets = {}
    OBVIOUS
  <2> QED BY <1>5, <2>1 DEF SeatSets
<1> QED BY <1>1, <1>3, <1>6, <1>7, <1>8 DEF SetInv, SetQueueInv

\* Every step preserves the whole invariant.  There being seats for all that
\* have come now, there were before, as nobody who came is forgotten.
LEMMA NextSetInv == SetInv /\ [SysV!SysVNext]_sysVVars => SetInv'
<1> SUFFICES ASSUME SetInv, [SysV!SysVNext]_sysVVars PROVE SetInv'
  OBVIOUS
<1>1. SetChairInv /\ SetChairInv' /\ SetTypeOK /\ SetTypeOK' /\ IsFiniteSet(SysV!Come)
  BY NextSetChair DEF SetInv, SetChairInv, SetsInv
<1>2. IsFiniteSet(SysV!Come') /\ (Roomy' => Roomy)
  BY <1>1, ComeGrows
<1>3. SUFFICES ASSUME Roomy' PROVE SetQueueInv'
  BY <1>1, <1>2 DEF SetInv
<1>4. /\ SetQueueInv /\ Barber \notin killed /\ Cardinality(SysV!Come) <= SysVSeats
      /\ LivingShop /\ Barber \notin killed'
  BY <1>1, <1>2, <1>3 DEF SetInv, Roomy, SetChairInv
<1>5. CASE SysV!SysVBarberStep
  BY <1>1, <1>4, <1>5, BarberQueue
<1>6. ASSUME NEW c \in Clients, SysV!SysVClientStep(c)
      PROVE  SetQueueInv'
  BY <1>1, <1>4, <1>6, ClientQueue
<1>7. CASE \/ UNCHANGED SysV!sysVVars
           \/ \E p \in Clients \cup {Barber} : SysV!Kill(p) /\ UNCHANGED SysV!setVars
  <2>1. UNCHANGED <<barber_chair, SysV!ring, SysV!seats, next, bpc, cpc, SysV!clientVars, SysV!setVars>>
    BY <1>7 DEF SysV!sysVVars, SysV!vars, SysV!Kill
  <2>2. \A c \in Clients : /\ SysV!InUse(c)' = SysV!InUse(c) /\ SysV!Serving(c)' = SysV!Serving(c)
                           /\ cpc'[c] = cpc[c] /\ haircuts'[c] = haircuts[c]
    BY <2>1 DEF SysV!InUse, SysV!Set, SysV!NoSet, SysV!Serving,
       SysV!clientVars, SysV!setVars
  <2>3. \A c \in Clients : /\ cpc[c] # "left"
                           /\ blocked[c] # SysV!NoSet => cpc[c] \in {"waiting", "sit", "seated"}
                           /\ OutOfRing(c) /\ cpc[c] = "waiting" =>
                                /\ bpc \in {"invite", "invited", "await"}
                                /\ \A d \in Clients : ~SysV!Serving(d)
    BY <1>4 DEF SetQueueInv, SeatSets, OneOut
  <2> QED BY <1>1, <1>4, <2>1, <2>2, <2>3, QuietQueue DEF SysV!clientVars
<1> QED BY <1>5, <1>6, <1>7 DEF SysV!SysVNext, sysVVars

\* The instance has a Cardinality of its own.
LEMMA SameCardinality == \A S : SysV!Cardinality(S) = Cardinality(S)
  BY DEF SysV!Cardinality, Cardinality

\* The invariant implies the property.
LEMMA SetInvSetsInUse == SetInv => SysV!SetsInUse
<1> SUFFICES ASSUME SetInv PROVE SysV!SetsInUse
  OBVIOUS
<1>1. SysV!OneClientServed
  BY DEF SetInv, SetChairInv, SetsInv
<1>2. SUFFICES ASSUME Barber \notin killed, Cardinality(SysV!Come) <= SysVSeats
      PROVE  /\ DOMAIN sets = UNION {SysV!InUse(c) : c \in Clients}
             /\ \A c \in Clients :
                  /\ cpc[c] # "left"
                  /\ blocked[c] \in {SysV!NoSet, SysV!Set(c, "seat")}
                  /\ cpc[c] = "waiting" => waiting[my_seat[c]] = SysV!Set(c, "seat")
             /\ bpc = "invite" => waiting[next] \in DOMAIN sets
  BY <1>1, SameCardinality DEF SysV!SetsInUse
<1>3. SetQueueInv
  BY <1>2 DEF SetInv, Roomy
<1>4. ASSUME bpc = "invite" PROVE waiting[next] \in DOMAIN sets
  <2>1. PICK c \in Clients : OutOfRing(c) /\ cpc[c] = "waiting"
    BY <1>3, <1>4 DEF SetQueueInv, OneOut
  <2>2. waiting[next] = SysV!Set(c, "seat")
    BY <1>3, <2>1 DEF SetQueueInv, OneOut, SeatSets, OutOfRing
  <2>3. SysV!Set(c, "seat") \in SysV!InUse(c)
    BY <2>1 DEF SysV!InUse
  <2> QED BY <1>3, <2>2, <2>3 DEF SetQueueInv, SeatSets
<1> QED BY <1>3, <1>4 DEF SetQueueInv, SeatSets, HoldsSeat


\* The kernel keeps exactly the sets in use as long as there is a seat for
\* everybody that has come and the barber lives (barber-shop.c:44-62,
\* client.c:73-85), in a shop of any size and with any number of signals.
THEOREM SysVSetsKept == BuildsSpec => []SysVSetsInUse
<1>1. BuildsInit => (build = "System V" => SetInv)
  BY InitSetQueue DEF BuildsInit
<1>2. (build = "System V" => SetInv) /\ [BuildsNext]_buildsVars
        => (build = "System V" => SetInv)'
  <2> SUFFICES ASSUME build = "System V" => SetInv, [BuildsNext]_buildsVars,
                      build' = "System V"
               PROVE  SetInv'
    OBVIOUS
  <2>1. build = "System V" /\ [SysV!SysVNext]_(SysV!sysVVars)
    BY DEF BuildsNext, buildsVars, sysVVars
  <2> QED
    BY <2>1, NextSetInv DEF sysVVars
<1>3. (build = "System V" => SetInv) => SysVSetsInUse
  BY SetInvSetsInUse DEF SysVSetsInUse
<1> QED
  BY <1>1, <1>2, <1>3, PTL DEF BuildsSpec
=============================================================================
