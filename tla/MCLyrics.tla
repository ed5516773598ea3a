------------------------------ MODULE MCLyrics ------------------------------
(* Small instances of Lyrics.                                              *)
EXTENDS Lyrics, TLC

AskSymmetry == Permutations(Asks)

=============================================================================
