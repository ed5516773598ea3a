------------------------------ MODULE MCQueue ------------------------------
\* Module Queue with two tracks, the host and a user.
EXTENDS Queue, TLC

CONSTANTS t1, t2, u1

\* The host may add three rows at once, two of which are played together.
MCLists == {<<t1>>, <<t2>>, <<t1, t1, t2>>, <<t2, t2, t1>>}

TrackSymmetry == Permutations(Track)

\* No step reads the history, and the properties only these of it.
Unordered == {"write", "late", "back"} \cap overlap # {}
Disturbed == overlap \cap {"write", "play", "previous", "twice", "unplayed"} # {}
History == <<Unordered, Disturbed, IF Unordered THEN {} ELSE given>>

\* What has been heard is looked at by additions up to their fourth query.
Heard == IF queueCalls < MaxQueueCalls
            \/ \E k \in Slot : req[k].pc \in {"addRoom", "addDup", "addNow", "addCooldown"}
         THEN heard ELSE {}

\* The slots of requests are alike, and there are two of them: the set of what they
\* hold says how many hold what.
MCView == <<rows, playing, status, taken, ending, Heard, {req[k] : k \in Slot},
            queueCalls, History>>
=============================================================================
