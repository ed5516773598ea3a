------------------------------ MODULE MCPreload ------------------------------
(* Instances of Preload for TLC. *)
EXTENDS Preload, TLC

TrackSymmetry == Permutations(Track)

===============================================================================
