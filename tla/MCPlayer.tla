------------------------------- MODULE MCPlayer -------------------------------
(***************************************************************************)
(* The instance of Player that TLC checks.  Tracks and voters are          *)
(* interchangeable.                                                        *)
(* The view leaves out what no later step can read:                        *)
(*   - the bookkeeping of Audio (chains, respawns, what a listener was     *)
(*     sent before it fell out of sync), which no guard reads;             *)
(*   - the fields of a process that can neither end nor call onStart any   *)
(*     more, and of an object that is no longer the room's, whose process  *)
(*     is no more.                                                         *)
(***************************************************************************)
EXTENDS Player, TLC

PlayerSymmetry == Permutations(Track) \cup Permutations(Voter)

Matters(s) == proc[s] = "live" \/ (proc[s] = "killed" /\ s \notin started)
ListenersSee(o) == Listener # {} /\ o = cur

PlayerView ==
  <<spawned, cur, retrying, sync, streamState, votes, queue, pb, young, task,
    startWrites, removed, deletions, room, calls, raced, HasFfmpeg,
    [s \in Stream |-> IF Matters(s)
                      THEN <<proc[s], header[s], s \in started, playing[s], song[s], s \in leftover>>
                      ELSE IF s \in retrying THEN <<song[s], s \in leftover>> ELSE <<>>],
    [o \in Object |-> ListenersSee(o) /\ playing[o]],
    [o \in Object |-> ListenersSee(o) /\ init[o]],
    [l \in Listener |-> IF sync[l] = "synced" THEN <<lastInit[l], song[lastInit[l]]>> ELSE <<>>]>>

===============================================================================
