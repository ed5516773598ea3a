------------------------------ MODULE MCGateway ------------------------------
(* Instances of Gateway for TLC. *)
EXTENDS Gateway, TLC

CONSTANTS u1, u2, r1, r2

AllRequests == {"join", "leave", "remove", "kick", "unban", "transfer", "permissions"}

(* What is left of a connection that is refused, or closed and dropped, matters
   to nothing that can happen. *)
Over(c) == \/ phase[c] = "refused"
           \/ phase[c] = "up" /\ socket[c] = "closed" /\ c \notin roomClients[place[c]] \cup unheard

GatewayView ==
  <<[c \in Conn |-> IF Over(c) THEN <<>>
                    ELSE <<owner[c], place[c], phase[c], socket[c], c \in kickCode, c \in alive>>],
    opened, unheard, wsVars, rowVars, taskVars>>

(* Rooms are interchangeable; the users other than the founder are too, but
   there is only one. *)
RoomSymmetry == Permutations(Room)

===============================================================================
