------------------------------ MODULE MCAutoDj ------------------------------
\* Module AutoDj with two tracks.
EXTENDS AutoDj, TLC

CONSTANTS t1, t2

TrackSymmetry == Permutations(Track)
=============================================================================
