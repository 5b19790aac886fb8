--------------------------- MODULE MCBarberBuilds ---------------------------
(***************************************************************************)
(* The barber shop for TLC, both builds in one run: each behaviour is one  *)
(* of the POSIX build or of the System V build.  The builds have the same  *)
(* processes; the sizes of the POSIX shop are BarberShop's, with as many   *)
(* clients as seats and no signals in the run, those of the System V shop  *)
(* are the constants below, with one client more than seats and a signal.  *)
(***************************************************************************)
EXTENDS BarberShop

CONSTANTS SysVSeats, SysVHaircuts, SysVKills

ASSUME SysVAssumption ==
  SysVSeats \in Nat \ {0} /\ SysVHaircuts \in Nat /\ SysVKills \in Nat

VARIABLES
  build,                   \* the build that runs
  chair_id, sets, blocked  \* of the System V build

SysV == INSTANCE BarberSysV
          WITH Capacity <- SysVSeats, Haircuts <- SysVHaircuts,
               MaxKills <- SysVKills

sysVVars == SysV!sysVVars
buildsVars == <<build, sysVVars>>

BuildsInit == \/ build = "POSIX" /\ Init /\ SysV!NoSets
              \/ build = "System V" /\ SysV!SysVInit

BuildsNext ==
  /\ UNCHANGED build
  /\ \/ build = "POSIX" /\ Next /\ UNCHANGED <<chair_id, sets, blocked>>
     \/ build = "System V" /\ SysV!SysVNext

BuildsFairness ==
  /\ WF_vars(build = "POSIX" /\ BarberStep)
  /\ WF_sysVVars(build = "System V" /\ SysV!SysVBarberStep)
  /\ \A c \in Clients :
       /\ WF_vars(build = "POSIX" /\ ClientStep(c))
       /\ WF_sysVVars(build = "System V" /\ SysV!SysVClientStep(c))

BuildsSpec == BuildsInit /\ [][BuildsNext]_buildsVars /\ BuildsFairness

(* POSIX: with as many clients as seats wr_push finds a seat for everybody *)
(* (barber-shop.c:35-42).                                                  *)
PosixNobodyTurnedAway == build = "POSIX" => NobodyTurnedAway

(* POSIX: with as many clients as seats and no signals, every client goes  *)
(* home with all its haircuts (client.c:43-103, barber.c:96-150).          *)
PosixEveryClientServed == build = "POSIX" => EveryClientServed

(* POSIX: the client that follows the barber's call is the one whose pid   *)
(* the barber read from the seat (barber.c:108-110).                       *)
PosixCalledClientComes == [][build = "POSIX" => CalledFollows]_buildsVars

(* System V: while there are seats for all clients, the sets that the      *)
(* kernel keeps are those in use (barber-shop.c:44-62).                    *)
SysVSetsInUse == build = "System V" => SysV!SetsInUse

(* System V: the barber's end releases the clients that wait for it        *)
(* (barber-shop.c:189-200).                                                *)
SysVClientsEndWithBarber == build = "System V" => SysV!ClientsEndWithBarber
=============================================================================
