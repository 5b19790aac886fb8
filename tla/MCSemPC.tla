------------------------------ MODULE MCSemPC -------------------------------
(***************************************************************************)
(* Instances of SemPC for TLC.                                             *)
(***************************************************************************)
EXTENDS SemPC, TLC

\* The input file: an empty line between two lines of different lengths.
ThreeLines == <<1, 0, 2>>

ThreadSymmetry == Permutations(Producers) \cup Permutations(Consumers)
=============================================================================
