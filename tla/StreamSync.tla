------------------------------ MODULE StreamSync ------------------------------
(***************************************************************************)
(* What the audio service of a room promises its WebSocket listeners, with *)
(* no process, header or retry in sight.  Streams are numbered in the      *)
(* order they are opened.  At most the newest one is published (its fMP4   *)
(* init segment is known), a listener tunes in to the published stream     *)
(* only, and opening or cutting a stream detunes everybody.                *)
(***************************************************************************)
EXTENDS Naturals

CONSTANTS Listener,   \* the WebSocket clients of the room
          None        \* no stream; not a number

VARIABLES latest,     \* number of streams opened so far, so the newest one
          published,  \* the stream listeners can tune in to, or None
          tuned       \* tuned[l]: the stream l decodes, or None

syncVars == <<latest, published, tuned>>

Nobody == [l \in Listener |-> None]

SyncInit ==
  /\ latest = 0
  /\ published = None
  /\ tuned = Nobody

(* A new stream replaces the old one; nobody follows it until it is published. *)
Open ==
  /\ latest' = latest + 1
  /\ published' = None
  /\ tuned' = Nobody

Publish ==
  /\ published = None
  /\ latest > 0
  /\ published' = latest
  /\ UNCHANGED <<latest, tuned>>

Cut ==
  /\ published' = None
  /\ tuned' = Nobody
  /\ UNCHANGED latest

Tune(l) ==
  /\ published # None
  /\ tuned' = [tuned EXCEPT ![l] = published]
  /\ UNCHANGED <<latest, published>>

Detune(l) ==
  /\ tuned' = [tuned EXCEPT ![l] = None]
  /\ UNCHANGED <<latest, published>>

SyncNext ==
  \/ Open
  \/ Publish
  \/ Cut
  \/ \E l \in Listener: Tune(l) \/ Detune(l)

SyncSpec == SyncInit /\ [][SyncNext]_syncVars

===============================================================================
