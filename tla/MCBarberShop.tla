---------------------------- MODULE MCBarberShop ----------------------------
(***************************************************************************)
(* Instances of BarberShop for TLC.  The clients are interchangeable, so   *)
(* the runs that check no liveness use their symmetry.                     *)
(***************************************************************************)
EXTENDS BarberShop, TLC

ClientSymmetry == Permutations(Clients)
=============================================================================
