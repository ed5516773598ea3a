------------------------------- MODULE MCAudio -------------------------------
(* The instance of Audio that TLC checks.  Listeners are interchangeable. *)
EXTENDS Audio, TLC

ListenerSymmetry == Permutations(Listener)

===============================================================================
