---------------------------- MODULE MCListening ----------------------------
\* Module Listening with two tracks.
EXTENDS Listening, TLC

CONSTANTS c1, t1, t2

TrackSymmetry == Permutations(Track)
=============================================================================
