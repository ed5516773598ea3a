--------------------------- MODULE ListeningProofs ---------------------------
(***************************************************************************)
(* Proofs about one listener end to end, for every set of tracks and every *)
(* number of streams, messages, updates and retries.                       *)
(*                                                                         *)
(* The wire keeps order, so what the client will make of a message is      *)
(* known when it is sent: what is left of an earlier stream is followed by *)
(* an update that clears the buffer (Covered), and a listener of a room at *)
(* rest has been told, has asked, or has been answered (SteadyOK).         *)
(***************************************************************************)
EXTENDS Listening, TLAPS

RoomType == [shown : Shown, airing : BOOLEAN, skip : BOOLEAN, say : 0 .. MaxSay,
             phase : {"rest", "over", "chosen", "saved", "opened"}]
StreamNo == 1 .. MaxStreams \cup {None}
Hooks == [listening : BOOLEAN, state : States, heard : Track \cup {NoTrack},
          base : StreamNo, fed : StreamNo,
          buffered : BOOLEAN, clearing : BOOLEAN, removing : BOOLEAN,
          retries : 0 .. MaxResyncs, timer : BOOLEAN, restore : BOOLEAN,
          refetch : BOOLEAN, starting : {"no", "yes", "resync"}]

LEMMA Consts ==
  /\ Listener = {Client} /\ NoTrack \notin Track /\ None \notin Nat
  /\ MaxResyncs \in Nat /\ MaxStreams \in Nat /\ MaxWire \in Nat
  /\ MaxSay \in Nat /\ MaxEvents \in Nat
BY ListeningAssumption DEF ListeningAssumption

Typed ==
  /\ latest \in 0 .. MaxStreams /\ published \in StreamNo
  /\ tuned \in [Listener -> StreamNo]
  /\ room \in RoomType /\ conn \in BOOLEAN
  /\ up \in Seq({"resync", "off"}) /\ down \in Seq(Message)
  /\ client \in Hooks
  /\ spoiled \subseteq Causes /\ events \in 0 .. MaxEvents

LEMMA TypedIsTypeOK == Typed <=> ListeningTypeOK
BY DEF Typed, ListeningTypeOK, RoomType, StreamNo, Hooks

(* Messages: one of each kind. *)
LEMMA Messages ==
  /\ \A s \in 1 .. MaxStreams : /\ [kind |-> "init", stream |-> s] \in Message
                                /\ [kind |-> "media", stream |-> s] \in Message
  /\ [kind |-> "wait"] \in Message /\ [kind |-> "skipping"] \in Message
  /\ \A x \in Shown : [kind |-> "playback", shows |-> x] \in Message
  /\ \A m \in Message :
       /\ m.kind \in {"init", "media", "wait", "skipping", "playback"}
       /\ m.kind \in {"init", "media"} => m.stream \in 1 .. MaxStreams
       /\ m.kind = "playback" => m.shows \in Shown
       /\ m.kind = "init" => m = [kind |-> "init", stream |-> m.stream]
<1>1. /\ \A s \in 1 .. MaxStreams : /\ [kind |-> "init", stream |-> s] \in Message
                                    /\ [kind |-> "media", stream |-> s] \in Message
      /\ [kind |-> "wait"] \in Message /\ [kind |-> "skipping"] \in Message
      /\ \A x \in Shown : [kind |-> "playback", shows |-> x] \in Message
  BY DEF Message
<1>2. ASSUME NEW m \in Message
      PROVE  /\ m.kind \in {"init", "media", "wait", "skipping", "playback"}
             /\ m.kind \in {"init", "media"} => m.stream \in 1 .. MaxStreams
             /\ m.kind = "playback" => m.shows \in Shown
             /\ m.kind = "init" => m = [kind |-> "init", stream |-> m.stream]
  BY DEF Message
<1> QED BY <1>1, <1>2

(* Sequences. *)
LEMMA Appended ==
  ASSUME NEW S, NEW s \in Seq(S), NEW m \in S, NEW q, q = Append(s, m)
  PROVE  /\ q \in Seq(S) /\ Len(q) = Len(s) + 1 /\ q[Len(q)] = m
         /\ DOMAIN s = 1 .. Len(s) /\ DOMAIN q = 1 .. Len(q) /\ Len(s) \in Nat
         /\ \A i \in 1 .. Len(s) : q[i] = s[i]
OBVIOUS

LEMMA Tailed ==
  ASSUME NEW S, NEW s \in Seq(S), s # <<>>, NEW q, q = Tail(s)
  PROVE  /\ q \in Seq(S) /\ Len(s) = Len(q) + 1 /\ Head(s) = s[1] /\ Head(s) \in S
         /\ DOMAIN s = 1 .. Len(s) /\ DOMAIN q = 1 .. Len(q) /\ Len(q) \in Nat
         /\ \A i \in 1 .. Len(q) : q[i] = s[i + 1]
OBVIOUS

LEMMA Sends ==
  ASSUME NEW m, Send(m), m \in {"resync", "off"}, up \in Seq({"resync", "off"})
  PROVE  up' \in Seq({"resync", "off"})
BY DEF Send

LEMMA Tells ==
  ASSUME NEW m \in Message, Tell(m), down \in Seq(Message)
  PROVE  down' \in Seq(Message)
BY DEF Tell

(* The updates of the records keep their types. *)
LEMMA SaysTyped ==
  ASSUME NEW r \in RoomType, NEW n \in Int, r.say + n \in 0 .. MaxSay
  PROVE  Says(r, n) \in RoomType /\ Says(r, n).say = r.say + n
BY Consts DEF RoomType, Says

LEMMA ShowTyped ==
  ASSUME NEW r \in RoomType, NEW s \in States
  PROVE  ShowState(r, s) \in RoomType /\ ShowState(r, s).say = r.say
BY DEF RoomType, ShowState, Shown

LEMMA ClientUpdates ==
  ASSUME NEW c \in Hooks
  PROVE  /\ Cleared(c) \in Hooks /\ Prepared(c) \in Hooks /\ Asked(c) \in Hooks
         /\ \A s \in 1 .. MaxStreams : InitTaken(c, s) \in Hooks /\ MediaTaken(c, s) \in Hooks
         /\ \A x \in Shown : Followed(c, x) \in Hooks
<1>1. ASSUME NEW d \in Hooks
      PROVE  Cleared(d) \in Hooks /\ Prepared(d) \in Hooks /\ Asked(d) \in Hooks
  <2>1. Cleared(d) \in Hooks
    <3>1. (d.buffered /\ ~d.removing) \in BOOLEAN /\ (d.buffered \/ d.removing) \in BOOLEAN
      OBVIOUS
    <3>2. \A x, y \in BOOLEAN :
            [d EXCEPT !.base = None, !.fed = None, !.clearing = x, !.removing = y] \in Hooks
      BY DEF Hooks, StreamNo
    <3> QED BY <3>1, <3>2 DEF Cleared
  <2>2. Asked(d) \in Hooks
    <3>1. 0 \in 0 .. MaxResyncs
      BY Consts
    <3> QED BY <3>1 DEF Asked, Hooks
  <2> QED BY <2>1, <2>2 DEF Prepared
<1>2. \A s \in 1 .. MaxStreams : InitTaken(c, s) \in Hooks /\ MediaTaken(c, s) \in Hooks
  BY DEF InitTaken, MediaTaken, Hooks, StreamNo
<1>3. ASSUME NEW x \in Shown
      PROVE  Followed(c, x) \in Hooks
  <2>1. [c EXCEPT !.heard = x.track, !.state = "preparing"] \in Hooks
    BY DEF Hooks, Shown, States
  <2> QED BY <1>1, <2>1 DEF Followed
<1> QED BY <1>1, <1>2, <1>3

-------------------------------------------------------------------------------
(* Types. *)
LEMMA RoomKeepsTypes ==
  ASSUME Typed, RoomStep
  PROVE  Typed'
<1>0. /\ latest \in 0 .. MaxStreams /\ published \in StreamNo
      /\ tuned \in [Listener -> StreamNo]
      /\ room \in RoomType /\ conn \in BOOLEAN
      /\ up \in Seq({"resync", "off"}) /\ down \in Seq(Message)
      /\ client \in Hooks
      /\ spoiled \subseteq Causes /\ events \in 0 .. MaxEvents
  BY DEF Typed
<1>a. room.say \in 0 .. MaxSay /\ room.shown \in Shown
  BY <1>0 DEF RoomType
<1> USE DEF syncVars, RoomVars, ClientVars, RoomOnly
<1>1. CASE Say
  <2>1. [kind |-> "playback", shows |-> room.shown] \in Message
    BY <1>a, Messages
  <2>2. down' \in Seq(Message)
    BY <1>0, <1>1, <2>1, Tells DEF Say
  <2>3. room' \in RoomType
    BY <1>0, <1>1, <1>a, SaysTyped, Consts DEF Say
  <2> QED BY <1>0, <1>1, <2>2, <2>3 DEF Typed, Say
<1>2. CASE StreamEnds
  <2>1. room' \in RoomType
    BY <1>0, <1>2 DEF StreamEnds, RoomType
  <2> QED BY <1>0, <1>2, <2>1 DEF Typed, StreamEnds
<1>3. CASE NextChosen
  <2> DEFINE r == [ShowState(room, "preparing") EXCEPT !.phase = "chosen"]
             q == [room EXCEPT !.phase = "rest",
                     !.shown = [track |-> NoTrack, playing |-> FALSE, state |-> Idle]]
  <2>1. r \in RoomType /\ r.say = room.say
    <3>1. ShowState(room, "preparing") \in RoomType /\ ShowState(room, "preparing").say = room.say
      BY <1>0, ShowTyped DEF States
    <3> QED BY <3>1 DEF RoomType
  <2>2. q \in RoomType /\ q.say = room.say
    BY <1>0 DEF RoomType, States, Shown
  <2>3. room.say + 1 \in 0 .. MaxSay
    BY <1>3, <1>a, Consts DEF NextChosen, CanSay
  <2>4. room' = Says(r, 1) \/ room' = Says(q, 1)
    BY <1>3 DEF NextChosen
  <2> HIDE DEF r, q
  <2>5. room' \in RoomType
    BY <2>1, <2>2, <2>3, <2>4, SaysTyped
  <2> QED BY <1>0, <1>3, <2>5 DEF Typed, NextChosen
<1>4. CASE \E t \in Track : PlaySave(t)
  <2>1. PICK t \in Track : PlaySave(t)
    BY <1>4
  <2> DEFINE r == [room EXCEPT !.phase = "saved",
                     !.shown = [track |-> t, playing |-> TRUE, state |-> "preparing"]]
  <2>2. r \in RoomType /\ r.say = room.say /\ room' = Says(r, 1)
    BY <1>0, <2>1 DEF RoomType, States, Shown, PlaySave
  <2>3. room.say + 1 \in 0 .. MaxSay
    BY <2>1, <1>a, Consts DEF PlaySave, CanSay
  <2> HIDE DEF r
  <2>4. room' \in RoomType
    BY <2>2, <2>3, SaysTyped
  <2>5. spoiled' \subseteq Causes
    BY <1>0, <2>1 DEF PlaySave, Spoil, Causes
  <2> QED BY <1>0, <2>1, <2>4, <2>5 DEF Typed, PlaySave
<1>5. CASE OpenStream
  <2> DEFINE r == [room EXCEPT !.phase = "opened", !.airing = TRUE]
  <2>1. r \in RoomType /\ r.say = room.say
    BY <1>0 DEF RoomType
  <2>2. PICK n \in {0, 1} : room.say + n <= MaxSay /\ room' = Says(r, n)
    BY <1>5 DEF OpenStream, CanSay
  <2>3. room.say + n \in 0 .. MaxSay
    BY <1>a, <2>2, Consts
  <2> HIDE DEF r
  <2>4. room' \in RoomType
    BY <2>1, <2>2, <2>3, SaysTyped
  <2>5. /\ latest' \in 0 .. MaxStreams /\ published' \in StreamNo
        /\ tuned' \in [Listener -> StreamNo]
    BY <1>0, <1>5, Consts DEF OpenStream, Open, Nobody, StreamNo
  <2> QED BY <1>0, <1>5, <2>4, <2>5 DEF Typed, OpenStream
<1>6. CASE UrlFails
  <2>1. ShowState(room, Idle) \in RoomType
    BY <1>0, ShowTyped DEF States
  <2>2. room' \in RoomType
    BY <1>6, <2>1 DEF UrlFails, RoomType
  <2> QED BY <1>0, <1>6, <2>2 DEF Typed, UrlFails
<1>7. CASE HeaderRead
  <2>1. published' \in StreamNo
    BY <1>0, <1>7, Consts DEF HeaderRead, Publish, StreamNo
  <2> QED BY <1>0, <1>7, <2>1 DEF Typed, HeaderRead, Publish
<1>8. CASE Started
  <2> DEFINE r == [ShowState(room, "streaming") EXCEPT !.phase = "rest"]
  <2>1. r \in RoomType /\ r.say = room.say /\ room' = Says(r, 1)
    <3>1. ShowState(room, "streaming") \in RoomType /\ ShowState(room, "streaming").say = room.say
      BY <1>0, ShowTyped DEF States
    <3> QED BY <1>8, <3>1 DEF RoomType, Started
  <2>2. room.say + 1 \in 0 .. MaxSay
    BY <1>8, <1>a, Consts DEF Started, CanSay
  <2> HIDE DEF r
  <2>3. room' \in RoomType
    BY <2>1, <2>2, SaysTyped
  <2> QED BY <1>0, <1>8, <2>3 DEF Typed, Started
<1>9. CASE Respawn
  <2>1. room' \in RoomType
    BY <1>0, <1>9 DEF Respawn, RoomType
  <2>2. /\ latest' \in 0 .. MaxStreams /\ published' \in StreamNo
        /\ tuned' \in [Listener -> StreamNo]
    BY <1>0, <1>9, Consts DEF Respawn, Open, Nobody, StreamNo
  <2>3. spoiled' \subseteq Causes
    BY <1>0, <1>9 DEF Respawn, Spoil, Causes
  <2> QED BY <1>0, <1>9, <2>1, <2>2, <2>3 DEF Typed, Respawn
<1>10. CASE Media
  <2>1. tuned[Client] \in 1 .. MaxStreams
    BY <1>0, <1>10, Consts DEF Media, StreamNo
  <2>2. down' \in Seq(Message)
    BY <1>0, <1>10, <2>1, Messages, Tells DEF Media
  <2> QED BY <1>0, <1>10, <2>2 DEF Typed, Media
<1>11. CASE SkipAsked
  <2>1. room' \in RoomType
    BY <1>0, <1>11 DEF SkipAsked, RoomType
  <2>2. down' \in Seq(Message)
    BY <1>0, <1>11, Messages, Tells DEF SkipAsked
  <2>3. events' \in 0 .. MaxEvents
    BY <1>0, <1>11, Consts DEF SkipAsked, Happens
  <2> QED BY <1>0, <1>11, <2>1, <2>2, <2>3 DEF Typed, SkipAsked
<1>12. CASE SkipRefused
  <2>1. room' \in RoomType /\ spoiled' \subseteq Causes
    BY <1>0, <1>12 DEF SkipRefused, RoomType, Spoil, Causes
  <2> QED BY <1>0, <1>12, <2>1 DEF Typed, SkipRefused
<1>13. CASE SkipDone
  <2> DEFINE r == [ShowState(room, "skipping") EXCEPT !.skip = FALSE, !.airing = FALSE,
                                                      !.phase = "over"]
  <2>1. r \in RoomType /\ r.say = room.say /\ room' = Says(r, 1)
    <3>1. ShowState(room, "skipping") \in RoomType /\ ShowState(room, "skipping").say = room.say
      BY <1>0, ShowTyped DEF States
    <3> QED BY <1>13, <3>1 DEF RoomType, SkipDone
  <2>2. room.say + 1 \in 0 .. MaxSay
    BY <1>13, <1>a, Consts DEF SkipDone, CanSay
  <2> HIDE DEF r
  <2>3. room' \in RoomType
    BY <2>1, <2>2, SaysTyped
  <2>4. published' \in StreamNo /\ tuned' \in [Listener -> StreamNo] /\ latest' = latest
    BY <1>13 DEF SkipDone, Cut, Nobody, StreamNo
  <2> QED BY <1>0, <1>13, <2>3, <2>4 DEF Typed, SkipDone
<1>14. CASE PauseOrResume
  <2> DEFINE r == [room EXCEPT !.airing = ~@, !.shown.playing = ~room.airing]
  <2>1. r \in RoomType /\ r.say = room.say /\ room' = Says(r, 1)
    BY <1>0, <1>14 DEF RoomType, Shown, PauseOrResume
  <2>2. room.say + 1 \in 0 .. MaxSay
    BY <1>14, <1>a, Consts DEF PauseOrResume, CanSay
  <2> HIDE DEF r
  <2>3. room' \in RoomType
    BY <2>1, <2>2, SaysTyped
  <2>4. events' \in 0 .. MaxEvents
    BY <1>0, <1>14, Consts DEF PauseOrResume, Happens
  <2> QED BY <1>0, <1>14, <2>3, <2>4 DEF Typed, PauseOrResume
<1> QED BY <1>1, <1>2, <1>3, <1>4, <1>5, <1>6, <1>7, <1>8, <1>9, <1>10, <1>11, <1>12,
           <1>13, <1>14 DEF RoomStep

LEMMA ServerKeepsTypes ==
  ASSUME Typed, ServerReceives
  PROVE  Typed'
<1>0. /\ latest \in 0 .. MaxStreams /\ published \in StreamNo
      /\ tuned \in [Listener -> StreamNo]
      /\ up \in Seq({"resync", "off"}) /\ down \in Seq(Message)
      /\ spoiled \subseteq Causes
  BY DEF Typed
<1>1. up' \in Seq({"resync", "off"})
  BY <1>0, Tailed DEF ServerReceives
<1>2. spoiled' \subseteq Causes
  BY <1>0 DEF ServerReceives, Spoil, Causes
<1>3. /\ down' \in Seq(Message) /\ published' \in StreamNo /\ latest' \in 0 .. MaxStreams
      /\ tuned' \in [Listener -> StreamNo]
  <2>1. CASE Detune(Client) /\ UNCHANGED down
    BY <1>0, <2>1 DEF Detune, StreamNo
  <2>2. CASE ResyncAnswer
    <3>1. CASE published # None /\ Tune(Client) /\ Tell([kind |-> "init", stream |-> published])
      <4>1. published \in 1 .. MaxStreams
        BY <1>0, <3>1 DEF StreamNo
      <4> QED BY <1>0, <3>1, <4>1, Messages, Tells DEF Tune
    <3>2. CASE UNCHANGED <<syncVars, down>>
      BY <1>0, <3>2 DEF syncVars
    <3>3. CASE Detune(Client) /\ Tell([kind |-> "wait"])
      BY <1>0, <3>3, Messages, Tells DEF Detune, StreamNo
    <3> QED BY <2>2, <3>1, <3>2, <3>3 DEF ResyncAnswer
  <2> QED BY <2>1, <2>2 DEF ServerReceives
<1> QED BY <1>1, <1>2, <1>3 DEF Typed, ServerReceives

LEMMA ReceiveKeepsTypes ==
  ASSUME Typed, ClientReceives
  PROVE  Typed'
<1>0. /\ up \in Seq({"resync", "off"}) /\ down \in Seq(Message)
      /\ client \in Hooks /\ spoiled \subseteq Causes
  BY DEF Typed
<1>1. /\ down' \in Seq(Message) /\ Head(down) \in Message
  BY <1>0, Tailed DEF ClientReceives
<1> DEFINE m == Head(down)
<1>2. client' \in Hooks /\ spoiled' \subseteq Causes /\ up' \in Seq({"resync", "off"})
  <2> HIDE DEF m
  <2>0. m \in Message
    BY <1>1 DEF m
  <2>1. CASE HearFrame(m) /\ UNCHANGED up
    BY <1>0, <2>0, <2>1, Messages, ClientUpdates DEF HearFrame, Spoil, Causes
  <2>2. CASE HearWait(m) /\ UNCHANGED up
    <3>1. client.retries \in 0 .. MaxResyncs /\ (client.retries < MaxResyncs) \in BOOLEAN
      BY <1>0 DEF Hooks
    <3>2. \A b \in BOOLEAN, n \in 0 .. MaxResyncs :
            [client EXCEPT !.timer = b, !.retries = n] \in Hooks
      BY <1>0 DEF Hooks
    <3>3. \E b \in BOOLEAN, n \in 0 .. MaxResyncs :
            client' = [client EXCEPT !.timer = b, !.retries = n]
      <4>1. CASE client.retries < MaxResyncs
        <5>1. client' = [client EXCEPT !.timer = TRUE, !.retries = client.retries + 1]
          BY <2>2, <4>1 DEF HearWait
        <5>2. client.retries + 1 \in 0 .. MaxResyncs
          BY <3>1, <4>1, Consts
        <5> QED BY <5>1, <5>2
      <4>2. CASE ~(client.retries < MaxResyncs)
        <5>1. client' = [client EXCEPT !.timer = (client.retries < MaxResyncs),
                                       !.retries = client.retries]
          BY <2>2, <4>2 DEF HearWait
        <5> QED BY <3>1, <5>1
      <4> QED BY <4>1, <4>2
    <3>4. spoiled' \subseteq Causes
      BY <1>0, <2>2 DEF HearWait, Spoil, Causes
    <3> QED BY <1>0, <2>2, <3>2, <3>3, <3>4
  <2>3. CASE HearSkipping(m) /\ UNCHANGED up
    <3>1. [client EXCEPT !.state = "skipping"] \in Hooks
      BY <1>0 DEF Hooks, States
    <3> QED BY <1>0, <2>3, <3>1, ClientUpdates DEF HearSkipping
  <2>4. CASE HearPlayback(m)
    <3>1. m.shows \in Shown /\ m.shows.state \in States
      BY <2>0, <2>4, Messages DEF HearPlayback, Shown
    <3> DEFINE f == Followed(client, m.shows)
    <3>2. f \in Hooks
      BY <1>0, <3>1, ClientUpdates
    <3>3. /\ [f EXCEPT !.state = m.shows.state] \in Hooks
          /\ [f EXCEPT !.state = Idle, !.heard = NoTrack] \in Hooks
      <4> HIDE DEF f
      <4> QED BY <3>1, <3>2 DEF Hooks, States
    <3>4. \E c \in Hooks : client' = c \/ client' = Asked(c)
      <4>1. \/ client' = [f EXCEPT !.state = m.shows.state]
            \/ client' = Asked([f EXCEPT !.state = m.shows.state])
            \/ client' = [f EXCEPT !.state = Idle, !.heard = NoTrack]
            \/ client' = Asked([f EXCEPT !.state = Idle, !.heard = NoTrack])
        BY <2>4 DEF HearPlayback
      <4> HIDE DEF f
      <4> QED BY <3>3, <4>1
    <3>5. client' \in Hooks
      BY <3>4, ClientUpdates
    <3>6. spoiled' \subseteq Causes
      BY <1>0, <2>4 DEF HearPlayback
    <3>7. up' \in Seq({"resync", "off"})
      BY <1>0, <2>4, Sends DEF HearPlayback
    <3> QED BY <3>5, <3>6, <3>7
  <2> QED BY <2>1, <2>2, <2>3, <2>4 DEF ClientReceives, m
<1> QED BY <1>1, <1>2 DEF Typed, ClientReceives, RoomVars, syncVars

LEMMA ClientKeepsTypes ==
  ASSUME Typed, ClientStep
  PROVE  Typed'
<1>0. /\ up \in Seq({"resync", "off"}) /\ down \in Seq(Message)
      /\ client \in Hooks /\ spoiled \subseteq Causes /\ events \in 0 .. MaxEvents
      /\ tuned \in [Listener -> StreamNo] /\ room \in RoomType
  BY DEF Typed
<1> USE DEF RoomVars, syncVars, ClientOnly
<1>1. CASE UpdateEnd
  <2>1. /\ [client EXCEPT !.clearing = FALSE, !.removing = FALSE, !.buffered = FALSE] \in Hooks
        /\ [client EXCEPT !.clearing = FALSE] \in Hooks
    BY <1>0 DEF Hooks
  <2>2. client' \in Hooks
    BY <1>1, <2>1 DEF UpdateEnd
  <2> QED BY <1>1, <2>2 DEF UpdateEnd, Typed
<1>2. CASE TimerFires
  <2>1. client' \in Hooks
    BY <1>0, <1>2 DEF TimerFires, Hooks
  <2>2. up' \in Seq({"resync", "off"})
    BY <1>0, <1>2, Sends DEF TimerFires
  <2> QED BY <1>2, <2>1, <2>2 DEF TimerFires, Typed
<1>3. CASE Restore
  <2>1. [client EXCEPT !.restore = FALSE] \in Hooks
    BY <1>0 DEF Hooks
  <2>2. client' \in Hooks
    BY <1>3, <2>1, ClientUpdates DEF Restore
  <2>3. up' \in Seq({"resync", "off"})
    BY <1>0, <1>3, Sends DEF Restore
  <2> QED BY <1>3, <2>2, <2>3 DEF Restore, Typed
<1>4. CASE ListenOn
  <2>1. \A x \in {"yes", "resync"} :
          [client EXCEPT !.listening = TRUE, !.starting = x] \in Hooks
    BY <1>0 DEF Hooks
  <2>2. \E x \in {"yes", "resync"} :
          client' = Cleared([client EXCEPT !.listening = TRUE, !.starting = x])
    BY <1>4 DEF ListenOn
  <2>3. client' \in Hooks
    BY <2>1, <2>2, ClientUpdates
  <2>4. events' \in 0 .. MaxEvents
    BY <1>0, <1>4, Consts DEF ListenOn, Happens
  <2> QED BY <1>4, <2>3, <2>4 DEF ListenOn, Typed
<1>5. CASE ListenStarted
  <2>1. [client EXCEPT !.starting = "no"] \in Hooks
    BY <1>0 DEF Hooks
  <2>2. client' \in Hooks
    BY <1>5, <2>1, ClientUpdates DEF ListenStarted
  <2>3. up' \in Seq({"resync", "off"})
    BY <1>0, <1>5, Sends DEF ListenStarted
  <2> QED BY <1>5, <2>2, <2>3 DEF ListenStarted, Typed
<1>6. CASE ListenOff
  <2>1. client' \in Hooks
    BY <1>0, <1>6 DEF ListenOff, Hooks
  <2>2. up' \in Seq({"resync", "off"})
    BY <1>0, <1>6, Sends DEF ListenOff
  <2>3. events' \in 0 .. MaxEvents
    BY <1>0, <1>6, Consts DEF ListenOff, Happens
  <2> QED BY <1>6, <2>1, <2>2, <2>3 DEF ListenOff, Typed
<1>7. CASE Lost
  <2>1. up' \in Seq({"resync", "off"}) /\ down' \in Seq(Message)
    BY <1>7 DEF Lost
  <2>2. events' \in 0 .. MaxEvents /\ spoiled' \subseteq Causes
    BY <1>0, <1>7, Consts DEF Lost, Happens, Spoil, Causes
  <2>3. tuned' \in [Listener -> StreamNo] /\ UNCHANGED <<latest, published>>
    BY <1>0, <1>7 DEF Lost, Detune, StreamNo
  <2> QED BY <1>7, <2>1, <2>2, <2>3 DEF Lost, Typed
<1>8. CASE Reconnected
  <2>1. (client.restore \/ client.listening) \in BOOLEAN
    OBVIOUS
  <2>2. \A x \in BOOLEAN : [client EXCEPT !.refetch = TRUE, !.restore = x] \in Hooks
    BY <1>0 DEF Hooks
  <2>3. client' \in Hooks
    BY <1>8, <2>1, <2>2 DEF Reconnected
  <2> QED BY <1>8, <2>3 DEF Reconnected, Typed
<1>9. CASE Refetched
  <2>1. room.shown.track \in Track \cup {NoTrack} /\ room.shown.state \in States
    BY <1>0 DEF RoomType, Shown
  <2>2. client' \in Hooks
    BY <1>0, <1>9, <2>1 DEF Refetched, Hooks
  <2>3. spoiled' \subseteq Causes
    BY <1>0, <1>9 DEF Refetched, Spoil, Causes
  <2> QED BY <1>9, <2>2, <2>3 DEF Refetched, Typed
<1> QED BY <1>1, <1>2, <1>3, <1>4, <1>5, <1>6, <1>7, <1>8, <1>9 DEF ClientStep

LEMMA TypesHold ==
  /\ ListeningInit => Typed
  /\ Typed /\ [ListeningNext]_listenVars => Typed'
<1>1. ASSUME ListeningInit
      PROVE  Typed
  BY <1>1, Consts DEF ListeningInit, SyncInit, Nobody, Typed, RoomType, Shown, States, Idle,
                      Hooks, StreamNo, Causes
<1>2. ASSUME Typed, [ListeningNext]_listenVars
      PROVE  Typed'
  <2>1. CASE UNCHANGED listenVars
    BY <1>2, <2>1 DEF listenVars, syncVars, Typed
  <2> QED BY <1>2, <2>1, RoomKeepsTypes, ServerKeepsTypes, ReceiveKeepsTypes, ClientKeepsTypes
          DEF ListeningNext
<1> QED BY <1>1, <1>2

-------------------------------------------------------------------------------
(***************************************************************************)
(* The invariant.  Message j makes a listening client clear its buffer.    *)
(***************************************************************************)
Clears(j) == j \in Updates /\ ~ShowsAt(j, down[j].shows.track)

(* ... as the update does that the room has still to send. *)
SayClears == room.say > 0 /\ ~Told(room.shown.track)
ClearAfter(i) == SayClears \/ \E j \in DOMAIN down : i < j /\ Clears(j)

NoInit(i, n) == \A k \in DOMAIN down : i < k /\ k < n => down[k].kind # "init"

(* When it comes to message n, a client that listens has cleared its buffer and
   taken no init segment since. *)
BaseGone(n) ==
  \/ (client.base = None \/ ~client.listening) /\ NoInit(0, n)
  \/ \E j \in DOMAIN down : j < n /\ Clears(j) /\ NoInit(j, n)

(* The room has a stream, or is about to open it; which streams it follows. *)
Airs == room.phase \in {"saved", "opened"} \/ (room.phase = "rest" /\ room.shown.state = "streaming")
Old(s) == s # latest \/ room.phase = "saved"

(* What the client has, or is sent, of an earlier stream is cleared or not taken. *)
BaseOK == client.listening =>
  \A s \in {client.base, client.fed} : s # None /\ Old(s) => ClearAfter(0)
InitsOK == \A i \in DOMAIN down :
  down[i].kind = "init" /\ Old(down[i].stream) => ClearAfter(i)
MediaOK == \A i \in DOMAIN down :
  down[i].kind = "media" /\ Old(down[i].stream) => ClearAfter(i) \/ BaseGone(i)
SavedOK == room.phase = "saved" => SayClears \/ BaseGone(Len(down) + 1)
Covered == BaseOK /\ InitsOK /\ MediaOK /\ SavedOK

(* A room that plays on, and has said so: the client knows, and one that listens has
   asked for the stream or been answered. *)
Steady == room.phase = "rest" /\ ~room.skip /\ Streams /\ room.say = 0
SkipsOK == \A i \in DOMAIN down : down[i].kind = "skipping" => \E j \in Updates : i < j
Asking ==
  \/ client.starting = "resync"
  \/ \E i \in DOMAIN up : up[i] = "resync" /\ \A j \in DOMAIN up : i < j => up[j] # "off"
Answered ==
  /\ tuned[Client] = latest /\ \A i \in DOMAIN up : up[i] # "off"
  /\ \/ client.base = latest
     \/ \E i \in DOMAIN down : down[i].kind = "init" /\ down[i].stream = latest
SteadyOK ==
  /\ SkipsOK
  /\ Updates = {} => /\ client.state = "streaming"
                     /\ client.listening => Asking \/ Answered

(* Nothing is on the wire of a lost connection; who is tuned follows the newest
   stream, published once the room streams; the last update shows the room at rest. *)
WireOK == conn \/ (up = <<>> /\ down = <<>>)
SyncOK ==
  /\ published \in {None, latest} /\ tuned[Client] \in {None, published}
  /\ room.phase = "rest" /\ room.shown.state = "streaming" => published = latest
LastOK == room.say = 0 /\ room.phase = "rest" =>
  \A i \in Updates : (\A j \in Updates : j <= i) => down[i].shows = room.shown

Unspoiled == conn /\ (Airs => Covered) /\ (Steady => SteadyOK)

ListeningInv == Typed /\ WireOK /\ SyncOK /\ LastOK /\ (spoiled = {} => Unspoiled)

-------------------------------------------------------------------------------
(* The wire: what a step does to the messages, and to what they will do. *)
LEMMA SameWire ==
  ASSUME UNCHANGED down, client'.heard = client.heard
  PROVE  /\ Updates' = Updates
         /\ \A n, t : ShowsAt(n, t)' <=> ShowsAt(n, t)
         /\ \A t : Told(t)' <=> Told(t)
         /\ \A j : Clears(j)' <=> Clears(j)
         /\ \A i, n : NoInit(i, n)' <=> NoInit(i, n)
<1>1. Updates' = Updates
  BY DEF Updates
<1>2. \A n, t : ShowsAt(n, t)' <=> ShowsAt(n, t)
  BY <1>1 DEF ShowsAt
<1> QED BY <1>1, <1>2 DEF Told, Clears, NoInit

LEMMA FrameSent ==
  ASSUME down \in Seq(Message), NEW m \in Message, down' = Append(down, m),
         m.kind # "playback", client'.heard = client.heard
  PROVE  /\ Len(down) \in Nat /\ Len(down') = Len(down) + 1
         /\ DOMAIN down = 1 .. Len(down) /\ DOMAIN down' = 1 .. (Len(down) + 1)
         /\ \A i \in 1 .. Len(down) : down'[i] = down[i]
         /\ down'[Len(down) + 1] = m
         /\ Updates' = Updates
         /\ \A t : Told(t)' <=> Told(t)
         /\ \A j : Clears(j)' <=> Clears(j)
<1>1. /\ Len(down) \in Nat /\ Len(down') = Len(down) + 1
      /\ DOMAIN down = 1 .. Len(down) /\ DOMAIN down' = 1 .. (Len(down) + 1)
      /\ \A i \in 1 .. Len(down) : down'[i] = down[i]
      /\ down'[Len(down) + 1] = m
  BY Appended
<1>2. Updates' = Updates
  BY <1>1 DEF Updates
<1>3. \A i \in Updates : down'[i] = down[i] /\ i \in 1 .. Len(down)
  BY <1>1 DEF Updates
<1>4. ASSUME NEW n, NEW t
      PROVE  ShowsAt(n, t)' <=> ShowsAt(n, t)
  BY <1>2, <1>3 DEF ShowsAt
<1>5. ASSUME NEW t
      PROVE  Told(t)' <=> Told(t)
  <2>1. \A i \in Updates : i < Len(down) + 1 /\ i < Len(down) + 2
                           /\ ~(Len(down) + 1 <= i) /\ ~(Len(down) + 2 <= i)
    BY <1>1, <1>3
  <2> QED BY <1>1, <1>2, <1>3, <2>1 DEF Told, ShowsAt
<1>6. ASSUME NEW j
      PROVE  Clears(j)' <=> Clears(j)
  BY <1>2, <1>3, <1>4 DEF Clears
<1> QED BY <1>1, <1>2, <1>5, <1>6

LEMMA UpdateSent ==
  ASSUME down \in Seq(Message), NEW m \in Message, down' = Append(down, m),
         m.kind = "playback", client'.heard = client.heard
  PROVE  /\ Len(down) \in Nat /\ Len(down') = Len(down) + 1
         /\ DOMAIN down = 1 .. Len(down) /\ DOMAIN down' = 1 .. (Len(down) + 1)
         /\ \A i \in 1 .. Len(down) : down'[i] = down[i]
         /\ down'[Len(down) + 1] = m
         /\ Len(down) + 1 \in Updates' /\ Updates' \subseteq 1 .. (Len(down) + 1)
         /\ \A j \in 1 .. Len(down) : Clears(j)' <=> Clears(j)
         /\ \A n : n = Len(down) + 1 => (Clears(n)' <=> ~Told(m.shows.track))
<1>1. /\ Len(down) \in Nat /\ Len(down') = Len(down) + 1
      /\ DOMAIN down = 1 .. Len(down) /\ DOMAIN down' = 1 .. (Len(down) + 1)
      /\ \A i \in 1 .. Len(down) : down'[i] = down[i]
      /\ down'[Len(down) + 1] = m
  BY Appended
<1>2. Updates' = Updates \cup {Len(down) + 1} /\ Updates \subseteq 1 .. Len(down)
  BY <1>1 DEF Updates
<1>3. ASSUME NEW n \in 1 .. (Len(down) + 1), NEW t
      PROVE  ShowsAt(n, t)' <=> ShowsAt(n, t)
  <2>1. n <= Len(down) + 1 /\ ~(Len(down) + 1 < n)
    BY <1>1
  <2>2. \A i \in Updates : down'[i] = down[i]
    BY <1>1, <1>2
  <2> QED BY <1>2, <2>1, <2>2 DEF ShowsAt
<1>4. ASSUME NEW j \in 1 .. Len(down)
      PROVE  Clears(j)' <=> Clears(j)
  <2>1. j \in 1 .. (Len(down) + 1) /\ j # Len(down) + 1
    BY <1>1
  <2> QED BY <1>1, <1>2, <1>3, <2>1 DEF Clears
<1>5. ASSUME NEW n, n = Len(down) + 1
      PROVE  Clears(n)' <=> ~Told(m.shows.track)
  <2>1. n \in 1 .. (Len(down) + 1)
    BY <1>1, <1>5
  <2>2. ShowsAt(n, m.shows.track)' <=> Told(m.shows.track)
    BY <1>3, <1>5, <2>1 DEF Told
  <2>3. n \in Updates' /\ down'[n] = m
    BY <1>1, <1>2, <1>5
  <2> QED BY <2>2, <2>3 DEF Clears
<1>6. Len(down) + 1 \in Updates' /\ Updates' \subseteq 1 .. (Len(down) + 1)
  <2>1. PICK n : n = Len(down)
    OBVIOUS
  <2>2. n \in Nat /\ Updates' = Updates \cup {n + 1} /\ Updates \subseteq 1 .. n
    BY <1>1, <1>2, <2>1
  <2>3. n + 1 \in Updates' /\ Updates' \subseteq 1 .. (n + 1)
    BY <2>2
  <2> QED BY <2>1, <2>3
<1> QED BY <1>1, <1>4, <1>5, <1>6

(* Places of a sequence and of its tail. *)
LEMMA Shift ==
  ASSUME NEW N \in Nat, NEW U, NEW V, U \subseteq 1 .. (N + 1), V \subseteq 1 .. N,
         \A i \in 1 .. N : i \in V <=> i + 1 \in U, NEW n \in 1 .. (N + 1)
  PROVE  /\ \A i \in V : i \in 1 .. N /\ i + 1 \in U /\ (i < n <=> i + 1 < n + 1)
         /\ \A j \in U : j # 1 => j - 1 \in V /\ (j < n + 1 <=> j - 1 < n) /\ j - 1 \in 1 .. N
         /\ 1 \in U => ((\A j \in U : j < n + 1 => j <= 1) <=> \A j \in V : n <= j)
         /\ 1 \notin U => ((\A j \in U : n + 1 <= j) <=> \A j \in V : n <= j)
         /\ \A i \in V : (\A j \in V : j < n => j <= i) <=> (\A j \in U : j < n + 1 => j <= i + 1)
<1>1. \A i \in V : i \in 1 .. N /\ i + 1 \in U /\ (i < n <=> i + 1 < n + 1)
  OBVIOUS
<1>2. ASSUME NEW j \in U, j # 1
      PROVE  /\ j - 1 \in V /\ (j < n + 1 <=> j - 1 < n) /\ j - 1 \in 1 .. N
             /\ j = (j - 1) + 1 /\ j \in Int
  <2>1. j - 1 \in 1 .. N /\ j = (j - 1) + 1 /\ j \in Int
    BY <1>2
  <2> QED BY <2>1
<1>3. ASSUME \A j \in U : j < n + 1 => j <= 1, NEW j \in V
      PROVE  n <= j
  BY <1>1, <1>3
<1>4. ASSUME \A j \in V : n <= j, NEW j \in U, j < n + 1
      PROVE  j <= 1
  <2>1. CASE j # 1
    BY <1>2, <1>4, <2>1
  <2> QED BY <2>1
<1>5. ASSUME \A j \in U : n + 1 <= j, NEW j \in V
      PROVE  n <= j
  BY <1>1, <1>5
<1>6. ASSUME \A j \in V : n <= j, NEW j \in U, 1 \notin U
      PROVE  n + 1 <= j
  <2>1. j # 1
    BY <1>6
  <2>2. n <= j - 1
    BY <1>2, <1>6, <2>1
  <2> QED BY <1>2, <2>1, <2>2
<1>7. ASSUME NEW i \in V, \A j \in V : j < n => j <= i, NEW j \in U, j < n + 1
      PROVE  j <= i + 1
  <2>1. CASE j # 1
    <3>1. j - 1 <= i
      BY <1>2, <1>7, <2>1
    <3> QED BY <1>1, <1>2, <2>1, <3>1
  <2> QED BY <1>1, <2>1
<1>8. ASSUME NEW i \in V, \A j \in U : j < n + 1 => j <= i + 1, NEW j \in V, j < n
      PROVE  j <= i
  <2>1. j + 1 <= i + 1
    BY <1>1, <1>8
  <2> QED BY <1>1, <2>1
<1> QED BY <1>1, <1>2, <1>3, <1>4, <1>5, <1>6, <1>7, <1>8

LEMMA MessageRead ==
  ASSUME down \in Seq(Message), down # <<>>, down' = Tail(down),
         client'.heard = IF Head(down).kind = "playback" THEN ShownAfter(Head(down).shows)
                         ELSE client.heard
  PROVE  /\ Len(down') \in Nat /\ Len(down) = Len(down') + 1
         /\ DOMAIN down = 1 .. (Len(down') + 1) /\ DOMAIN down' = 1 .. Len(down')
         /\ Head(down) = down[1] /\ down[1] \in Message
         /\ \A i \in 1 .. Len(down') : down'[i] = down[i + 1]
         /\ \A i \in 1 .. Len(down') : i \in Updates' <=> i + 1 \in Updates
         /\ Updates \subseteq 1 .. (Len(down') + 1) /\ Updates' \subseteq 1 .. Len(down')
         /\ \A t : Told(t)' <=> Told(t)
         /\ \A j \in 1 .. Len(down') : Clears(j)' <=> Clears(j + 1)
         /\ Clears(1) <=> down[1].kind = "playback" /\ down[1].shows.track # client.heard
<1>1. /\ Len(down') \in Nat /\ Len(down) = Len(down') + 1
      /\ DOMAIN down = 1 .. (Len(down') + 1) /\ DOMAIN down' = 1 .. Len(down')
      /\ Head(down) = down[1] /\ down[1] \in Message
      /\ \A i \in 1 .. Len(down') : down'[i] = down[i + 1]
  BY Tailed
<1>2. /\ \A i \in 1 .. Len(down') : i \in Updates' <=> i + 1 \in Updates
      /\ Updates \subseteq 1 .. (Len(down') + 1) /\ Updates' \subseteq 1 .. Len(down')
      /\ 1 \in Updates <=> down[1].kind = "playback"
  BY <1>1 DEF Updates
<1>3. ASSUME NEW n \in 1 .. (Len(down') + 1), NEW t
      PROVE  ShowsAt(n, t)' <=> ShowsAt(n + 1, t)
  <2> DEFINE N == Len(down')
  <2>0. /\ N \in Nat /\ n \in Int /\ n >= 1
        /\ \A i \in Updates' : i \in 1 .. N /\ i + 1 \in Updates /\ (i < n <=> i + 1 < n + 1)
        /\ \A j \in Updates : j # 1 => j - 1 \in Updates' /\ (j < n + 1 <=> j - 1 < n) /\ j - 1 \in 1 .. N
        /\ 1 \in Updates => ((\A j \in Updates : j < n + 1 => j <= 1) <=> \A j \in Updates' : n <= j)
        /\ 1 \notin Updates => ((\A j \in Updates : n + 1 <= j) <=> \A j \in Updates' : n <= j)
        /\ \A i \in Updates' : (\A j \in Updates' : j < n => j <= i)
                               <=> (\A j \in Updates : j < n + 1 => j <= i + 1)
    <3>1. PICK U, V : U = Updates /\ V = Updates'
      OBVIOUS
    <3>2. /\ N \in Nat /\ U \subseteq 1 .. (N + 1) /\ V \subseteq 1 .. N /\ n \in 1 .. (N + 1)
          /\ \A i \in 1 .. N : i \in V <=> i + 1 \in U
      BY <1>1, <1>2, <3>1
    <3> HIDE DEF N
    <3>3. n \in Int /\ n >= 1
      BY <3>2
    <3>4. /\ \A i \in V : i \in 1 .. N /\ i + 1 \in U /\ (i < n <=> i + 1 < n + 1)
          /\ \A j \in U : j # 1 => j - 1 \in V /\ (j < n + 1 <=> j - 1 < n) /\ j - 1 \in 1 .. N
          /\ 1 \in U => ((\A j \in U : j < n + 1 => j <= 1) <=> \A j \in V : n <= j)
          /\ 1 \notin U => ((\A j \in U : n + 1 <= j) <=> \A j \in V : n <= j)
          /\ \A i \in V : (\A j \in V : j < n => j <= i) <=> (\A j \in U : j < n + 1 => j <= i + 1)
      BY <3>2, Shift
    <3> QED BY <3>1, <3>2, <3>3, <3>4
  <2>1. \A i \in Updates' : down'[i].shows = down[i + 1].shows
    BY <1>1, <2>0
  <2>2. ASSUME NEW i \in Updates', i < n, t = ShownAfter(down'[i].shows),
               \A j \in Updates' : j < n => j <= i
        PROVE  ShowsAt(n + 1, t)
    <3>1. /\ i + 1 \in Updates /\ i + 1 < n + 1 /\ t = ShownAfter(down[i + 1].shows)
          /\ \A j \in Updates : j < n + 1 => j <= i + 1
      <4> HIDE DEF N
      <4> QED BY <2>0, <2>1, <2>2
    <3> QED BY <3>1 DEF ShowsAt
  <2>3. ASSUME NEW i \in Updates, i # 1, i < n + 1, t = ShownAfter(down[i].shows),
               \A j \in Updates : j < n + 1 => j <= i
        PROVE  ShowsAt(n, t)'
    <3>1. i - 1 \in Updates' /\ i - 1 < n /\ (i - 1) + 1 = i
      BY <1>2, <2>0, <2>3
    <3>2. PICK k : k = i - 1
      OBVIOUS
    <3>3. k \in Updates' /\ k < n /\ k + 1 = i
      BY <3>1, <3>2
    <3>4. t = ShownAfter(down'[k].shows) /\ \A j \in Updates' : j < n => j <= k
      <4> HIDE DEF N
      <4> QED BY <2>0, <2>1, <2>3, <3>3
    <3> QED BY <3>3, <3>4 DEF ShowsAt
  <2>4. CASE 1 \in Updates
    <3>0. client'.heard = ShownAfter(down[1].shows)
      BY <1>1, <1>2, <2>4
    <3>1. ASSUME t = client'.heard, \A i \in Updates' : n <= i
          PROVE  ShowsAt(n + 1, t)
      <4>1. 1 < n + 1 /\ \A j \in Updates : j < n + 1 => j <= 1
        BY <2>0, <2>4, <3>1
      <4> QED BY <2>4, <3>0, <3>1, <4>1 DEF ShowsAt
    <3>2. ASSUME \A j \in Updates : j < n + 1 => j <= 1, t = ShownAfter(down[1].shows)
          PROVE  ShowsAt(n, t)'
      <4>1. \A j \in Updates' : n <= j
        BY <2>0, <2>4, <3>2
      <4> QED BY <3>0, <3>2, <4>1 DEF ShowsAt
    <3>3. ~(n + 1 <= 1)
      BY <2>0
    <3> QED BY <2>2, <2>3, <2>4, <3>1, <3>2, <3>3 DEF ShowsAt
  <2>5. CASE 1 \notin Updates
    <3>0. client'.heard = client.heard
      BY <1>1, <1>2, <2>5
    <3>1. (\A i \in Updates' : n <= i) <=> (\A i \in Updates : n + 1 <= i)
      BY <2>0, <2>5
    <3> QED BY <2>2, <2>3, <2>5, <3>0, <3>1 DEF ShowsAt
  <2> QED BY <2>4, <2>5
<1>4. ASSUME NEW t
      PROVE  Told(t)' <=> Told(t)
  <2>1. Len(down') + 1 \in 1 .. (Len(down') + 1)
    BY <1>1
  <2> QED BY <1>1, <1>3, <2>1 DEF Told
<1>5. ASSUME NEW j \in 1 .. Len(down')
      PROVE  Clears(j)' <=> Clears(j + 1)
  <2>1. j \in 1 .. (Len(down') + 1) /\ down'[j] = down[j + 1]
    BY <1>1
  <2> QED BY <1>2, <1>3, <2>1 DEF Clears
<1>6. Clears(1) <=> down[1].kind = "playback" /\ down[1].shows.track # client.heard
  <2>1. \A i \in Updates : 1 <= i /\ ~(i < 1)
    BY <1>1, <1>2
  <2> QED BY <1>2, <2>1 DEF Clears, ShowsAt
<1> QED BY <1>1, <1>2, <1>4, <1>5, <1>6

-------------------------------------------------------------------------------
(* What is left of earlier streams stays covered. *)

(* A step of the room, the wire and the client untouched. *)
LEMMA RoomCovers ==
  ASSUME UNCHANGED <<down, client>>,
         \/ SayClears'
         \/ /\ Covered /\ (SayClears => SayClears')
            /\ \A s : (s # latest' \/ room'.phase = "saved") => Old(s)
            /\ room'.phase = "saved" => room.phase = "saved"
  PROVE  Covered'
<1>0. /\ \A j : Clears(j)' <=> Clears(j)
      /\ \A i, n : NoInit(i, n)' <=> NoInit(i, n)
  BY SameWire
<1>1. CASE SayClears'
  BY <1>1 DEF Covered, BaseOK, InitsOK, MediaOK, SavedOK, ClearAfter
<1>2. CASE /\ Covered /\ (SayClears => SayClears')
           /\ \A s : (s # latest' \/ room'.phase = "saved") => Old(s)
           /\ room'.phase = "saved" => room.phase = "saved"
  <2>1. \A i : ClearAfter(i) => ClearAfter(i)'
    BY <1>0, <1>2 DEF ClearAfter
  <2>2. \A n : BaseGone(n) => BaseGone(n)'
    BY <1>0 DEF BaseGone
  <2>3. \A s : Old(s)' => Old(s)
    BY <1>2 DEF Old
  <2>4. BaseOK' /\ InitsOK'
    BY <1>2, <2>1, <2>3 DEF Covered, BaseOK, InitsOK, Old
  <2>5. MediaOK'
    BY <1>2, <2>1, <2>2, <2>3 DEF Covered, MediaOK, Old
  <2>6. SavedOK'
    BY <1>2, <2>2 DEF Covered, SavedOK, BaseGone, NoInit
  <2> QED BY <2>4, <2>5, <2>6 DEF Covered
<1> QED BY <1>1, <1>2

(* A step of the client that reads nothing. *)
LEMMA ClientCovers ==
  ASSUME Covered, UNCHANGED <<down, room, latest>>, client'.heard = client.heard,
         client'.listening => \/ client'.base = None /\ client'.fed = None
                              \/ /\ client.listening
                                 /\ client'.base = client.base /\ client'.fed = client.fed
  PROVE  Covered'
<1>0. /\ \A j : Clears(j)' <=> Clears(j)
      /\ \A i, n : NoInit(i, n)' <=> NoInit(i, n)
      /\ \A t : Told(t)' <=> Told(t)
  BY SameWire
<1>1. SayClears' <=> SayClears
  BY <1>0 DEF SayClears, Told, ShowsAt, Updates
<1>2. \A i : ClearAfter(i)' <=> ClearAfter(i)
  BY <1>0, <1>1 DEF ClearAfter
<1>3. \A n : BaseGone(n) => BaseGone(n)'
  BY <1>0 DEF BaseGone
<1>4. \A s : Old(s)' <=> Old(s)
  BY DEF Old
<1>5. BaseOK'
  BY <1>2, <1>4 DEF Covered, BaseOK
<1>6. InitsOK'
  BY <1>2 DEF Covered, InitsOK, Old
<1>7. MediaOK'
  BY <1>2, <1>3 DEF Covered, MediaOK, Old
<1>8. SavedOK'
  BY <1>0, <1>1 DEF Covered, SavedOK, BaseGone, NoInit
<1> QED BY <1>5, <1>6, <1>7, <1>8 DEF Covered

(* Other messages than updates are sent: an init segment of the stream of the room
   only, and media of another only while the room is about to open one. *)
LEMMA SendingCovers ==
  ASSUME Covered, down \in Seq(Message), NEW m \in Message, down' = Append(down, m),
         m.kind # "playback", UNCHANGED <<client, latest>>,
         room'.say = room.say, room'.shown = room.shown, room'.phase = room.phase,
         m.kind = "init" => ~Old(m.stream),
         m.kind = "media" => ~Old(m.stream) \/ room.phase = "saved"
  PROVE  Covered'
<1>0. /\ Len(down) \in Nat /\ Len(down') = Len(down) + 1
      /\ DOMAIN down = 1 .. Len(down) /\ DOMAIN down' = 1 .. (Len(down) + 1)
      /\ \A i \in 1 .. Len(down) : down'[i] = down[i]
      /\ down'[Len(down) + 1] = m
      /\ \A t : Told(t)' <=> Told(t)
      /\ \A j : Clears(j)' <=> Clears(j)
  BY FrameSent
<1> DEFINE N == Len(down)
<1>1. SayClears => SayClears'
  BY <1>0 DEF SayClears, Told, ShowsAt, Updates
<1>2. \A i : ClearAfter(i) => ClearAfter(i)'
  BY <1>0, <1>1 DEF ClearAfter
<1>3. \A i, n : n <= N + 1 /\ n \in Int /\ NoInit(i, n) => NoInit(i, n)'
  BY <1>0 DEF NoInit
<1>4. \A n : n <= N + 1 /\ n \in Int /\ BaseGone(n) => BaseGone(n)'
  BY <1>0, <1>3 DEF BaseGone
<1>5. BaseOK'
  BY <1>2 DEF Covered, BaseOK, Old
<1>6. InitsOK'
  <2>1. ASSUME NEW i \in DOMAIN down', down'[i].kind = "init", Old(down'[i].stream)
        PROVE  ClearAfter(i)'
    <3>1. i # N + 1
      BY <1>0, <2>1
    <3>2. i \in 1 .. N
      BY <1>0, <2>1, <3>1
    <3> QED BY <1>0, <1>2, <2>1, <3>2 DEF Covered, InitsOK
  <2> QED BY <2>1 DEF InitsOK, Old
<1>7. \A n : n = N + 1 => ((SayClears \/ BaseGone(n)) => (SayClears' \/ BaseGone(n)'))
  BY <1>0, <1>1, <1>4
<1>8. MediaOK'
  <2>1. ASSUME NEW i \in DOMAIN down', down'[i].kind = "media", Old(down'[i].stream)
        PROVE  ClearAfter(i)' \/ BaseGone(i)'
    <3>1. CASE i = N + 1
      <4>1. room.phase = "saved"
        BY <1>0, <2>1, <3>1
      <4>2. SayClears \/ BaseGone(i)
        BY <3>1, <4>1 DEF Covered, SavedOK
      <4> QED BY <1>7, <3>1, <4>2 DEF ClearAfter
    <3>2. CASE i # N + 1
      <4>1. i \in 1 .. N /\ i \in Int /\ i <= N + 1
        BY <1>0, <2>1, <3>2
      <4> QED BY <1>0, <1>2, <1>4, <2>1, <4>1 DEF Covered, MediaOK
    <3> QED BY <3>1, <3>2
  <2> QED BY <2>1 DEF MediaOK, Old
<1>9. SavedOK'
  <2>1. ASSUME room.phase = "saved"
        PROVE  SayClears' \/ BaseGone(Len(down) + 1)'
    <3>1. m.kind # "init"
      BY <2>1 DEF Old
    <3>2. PICK n : n = N + 1
      OBVIOUS
    <3>3. SayClears' \/ BaseGone(n)'
      BY <1>7, <2>1, <3>2 DEF Covered, SavedOK
    <3>4. \A i : NoInit(i, n)' => NoInit(i, n + 1)'
      BY <1>0, <3>1, <3>2 DEF NoInit
    <3>5. BaseGone(n)' => BaseGone(n + 1)'
      BY <1>0, <3>2, <3>4 DEF BaseGone
    <3>6. Len(down') + 1 = n + 1
      BY <1>0, <3>2
    <3> QED BY <3>3, <3>5, <3>6 DEF BaseGone, NoInit
  <2> QED BY <2>1 DEF SavedOK
<1> QED BY <1>5, <1>6, <1>8, <1>9 DEF Covered

(* The update the room had to send is sent. *)
LEMMA SayCovers ==
  ASSUME Covered, down \in Seq(Message), NEW m \in Message, down' = Append(down, m),
         m.kind = "playback", m.shows.track = room.shown.track,
         UNCHANGED <<client, latest>>, room'.phase = room.phase
  PROVE  Covered'
<1>0. /\ Len(down) \in Nat /\ Len(down') = Len(down) + 1
      /\ DOMAIN down = 1 .. Len(down) /\ DOMAIN down' = 1 .. (Len(down) + 1)
      /\ \A i \in 1 .. Len(down) : down'[i] = down[i]
      /\ down'[Len(down) + 1] = m
      /\ \A j \in 1 .. Len(down) : Clears(j)' <=> Clears(j)
      /\ \A n : n = Len(down) + 1 => (Clears(n)' <=> ~Told(m.shows.track))
  BY UpdateSent
<1>1. PICK n : n = Len(down) + 1
  OBVIOUS
<1>2. /\ n \in Nat /\ DOMAIN down' = 1 .. n /\ n \in 1 .. n /\ Len(down') + 1 = n + 1
      /\ DOMAIN down = 1 .. Len(down) /\ \A i \in 1 .. Len(down) : i < n /\ i \in 1 .. n
      /\ \A i \in 1 .. n : i # n => i \in 1 .. Len(down)
      /\ down'[n] = m
  BY <1>0, <1>1
<1>3. SayClears => Clears(n)'
  BY <1>0, <1>1 DEF SayClears
<1>4. \A i : i < n /\ ClearAfter(i) => ClearAfter(i)'
  BY <1>0, <1>2, <1>3 DEF ClearAfter
<1>5. \A i, k : NoInit(i, k) => NoInit(i, k)'
  BY <1>0, <1>2 DEF NoInit
<1>6. \A k : BaseGone(k) => BaseGone(k)'
  BY <1>0, <1>2, <1>5 DEF BaseGone
<1>7. BaseOK'
  <2>1. 0 < n
    BY <1>0, <1>1
  <2> QED BY <1>4, <2>1 DEF Covered, BaseOK, Old
<1>8. InitsOK'
  BY <1>0, <1>2, <1>4 DEF Covered, InitsOK, Old
<1>9. MediaOK'
  BY <1>0, <1>2, <1>4, <1>6 DEF Covered, MediaOK, Old
<1>10. SavedOK'
  <2>1. ASSUME room.phase = "saved"
        PROVE  BaseGone(n + 1)'
    <3>1. CASE SayClears
      <4>1. n < n + 1 /\ NoInit(n, n + 1)'
        BY <1>2 DEF NoInit
      <4> QED BY <1>2, <1>3, <3>1, <4>1 DEF BaseGone
    <3>2. CASE BaseGone(n)
      <4>1. \A i : NoInit(i, n)' => NoInit(i, n + 1)'
        BY <1>2 DEF NoInit
      <4>2. \A j \in DOMAIN down' : j < n => j < n + 1
        BY <1>2
      <4> QED BY <1>6, <3>2, <4>1, <4>2 DEF BaseGone
    <3> QED BY <1>1, <2>1, <3>1, <3>2 DEF Covered, SavedOK
  <2>2. ASSUME NEW k, k = Len(down') + 1
        PROVE  BaseGone(n + 1)' => BaseGone(k)'
    BY <1>2, <2>2
  <2>3. PICK k : k = Len(down') + 1
    OBVIOUS
  <2>4. room.phase = "saved" => BaseGone(k)'
    BY <2>1, <2>2, <2>3
  <2> QED BY <2>3, <2>4 DEF SavedOK, BaseGone, NoInit
<1> QED BY <1>7, <1>8, <1>9, <1>10 DEF Covered

(* What the client does with the message it reads. *)
Reads(m) ==
  /\ client'.listening = client.listening
  /\ client'.heard = IF m.kind = "playback" THEN ShownAfter(m.shows) ELSE client.heard
  /\ \/ /\ client'.base = client.base /\ client'.fed = client.fed
        /\ ~(client.listening /\ m.kind = "playback" /\ m.shows.track # client.heard)
     \/ client'.base = None /\ client'.fed = None
     \/ m.kind = "init" /\ client'.base = m.stream /\ client'.fed = client.fed
     \/ /\ m.kind = "media" /\ client'.base = client.base /\ client'.fed = m.stream
        /\ client.base # None /\ client.listening

LEMMA Reading ==
  ASSUME Typed, NEW m \in Message,
         HearFrame(m) \/ HearWait(m) \/ HearSkipping(m) \/ HearPlayback(m)
  PROVE  Reads(m)
<1>0. client \in Hooks
  BY DEF Typed
<1>1. CASE HearFrame(m)
  BY <1>0, <1>1 DEF HearFrame, InitTaken, MediaTaken, Hooks, Reads
<1>2. CASE HearWait(m)
  BY <1>0, <1>2 DEF HearWait, Hooks, Reads
<1>3. CASE HearSkipping(m)
  BY <1>0, <1>3 DEF HearSkipping, Prepared, Cleared, Hooks, Reads
<1>4. CASE HearPlayback(m)
  <2> DEFINE f == Followed(client, m.shows)
  <2>1. /\ f \in Hooks /\ f.listening = client.listening /\ f.heard = m.shows.track
        /\ \/ f.base = client.base /\ f.fed = client.fed
              /\ ~(client.listening /\ m.shows.track # client.heard)
           \/ f.base = None /\ f.fed = None
    <3>1. m.shows \in Shown
      BY <1>4, Messages DEF HearPlayback
    <3>2. f \in Hooks
      BY <1>0, <3>1, ClientUpdates
    <3> QED BY <1>0, <3>2 DEF Followed, Prepared, Cleared, Hooks
  <2>2. \E c \in {[f EXCEPT !.state = m.shows.state], [f EXCEPT !.state = Idle, !.heard = NoTrack]} :
          /\ c = IF m.shows.playing THEN [f EXCEPT !.state = m.shows.state]
                                    ELSE [f EXCEPT !.state = Idle, !.heard = NoTrack]
          /\ client' = c \/ client' = Asked(c)
    BY <1>4 DEF HearPlayback
  <2> HIDE DEF f
  <2>3. PICK c : /\ c = IF m.shows.playing THEN [f EXCEPT !.state = m.shows.state]
                                           ELSE [f EXCEPT !.state = Idle, !.heard = NoTrack]
                 /\ client' = c \/ client' = Asked(c)
    BY <2>2
  <2>4. /\ c.listening = client.listening /\ c.heard = ShownAfter(m.shows)
        /\ c.base = f.base /\ c.fed = f.fed
    BY <2>1, <2>3 DEF Hooks, ShownAfter
  <2>5. /\ client'.listening = client.listening /\ client'.heard = ShownAfter(m.shows)
        /\ client'.base = f.base /\ client'.fed = f.fed
    <3>1. /\ Asked(c).listening = c.listening /\ Asked(c).heard = c.heard
          /\ Asked(c).base = c.base /\ Asked(c).fed = c.fed
      BY <2>1, <2>3 DEF Hooks, Asked
    <3> QED BY <2>3, <2>4, <3>1
  <2>6. m.kind = "playback"
    BY <1>4 DEF HearPlayback
  <2> QED BY <2>1, <2>5, <2>6 DEF Reads
<1> QED BY <1>1, <1>2, <1>3, <1>4

LEMMA ReadingCovers ==
  ASSUME Covered, down \in Seq(Message), down # <<>>, down' = Tail(down),
         UNCHANGED <<room, latest>>, Reads(Head(down))
  PROVE  Covered'
<1>0. /\ Len(down') \in Nat /\ Len(down) = Len(down') + 1
      /\ DOMAIN down = 1 .. (Len(down') + 1) /\ DOMAIN down' = 1 .. Len(down')
      /\ Head(down) = down[1] /\ down[1] \in Message
      /\ \A i \in 1 .. Len(down') : down'[i] = down[i + 1]
      /\ \A t : Told(t)' <=> Told(t)
      /\ \A j \in 1 .. Len(down') : Clears(j)' <=> Clears(j + 1)
      /\ Clears(1) <=> down[1].kind = "playback" /\ down[1].shows.track # client.heard
  BY MessageRead DEF Reads
<1>1. PICK N : N = Len(down')
  OBVIOUS
<1>2. /\ N \in Nat /\ DOMAIN down = 1 .. (N + 1) /\ DOMAIN down' = 1 .. N
      /\ \A i \in 1 .. N : down'[i] = down[i + 1]
      /\ \A j \in 1 .. N : Clears(j)' <=> Clears(j + 1)
      /\ Len(down) = N + 1
  BY <1>0, <1>1
<1>3. \A j \in DOMAIN down : j = 1 \/ (j \in 2 .. (N + 1) /\ j - 1 \in 1 .. N /\ j = (j - 1) + 1)
  BY <1>2
<1>4. SayClears => SayClears'
  BY <1>0 DEF SayClears, Told, ShowsAt, Updates
<1>5. ASSUME NEW i \in Nat, ClearAfter(i + 1)
      PROVE  ClearAfter(i)'
  <2>1. CASE SayClears
    BY <1>4, <2>1 DEF ClearAfter
  <2>2. CASE \E j \in DOMAIN down : i + 1 < j /\ Clears(j)
    <3>1. PICK j \in DOMAIN down : i + 1 < j /\ Clears(j)
      BY <2>2
    <3>2. PICK k : k = j - 1
      OBVIOUS
    <3>3. k \in 1 .. N /\ j = k + 1 /\ i < k
      BY <1>2, <3>1, <3>2
    <3> QED BY <1>2, <3>1, <3>3 DEF ClearAfter
  <2> QED BY <1>5, <2>1, <2>2 DEF ClearAfter
<1>6. ASSUME ClearAfter(0), ~Clears(1)
      PROVE  ClearAfter(1)
  <2>1. \A j \in DOMAIN down : Clears(j) => 1 < j
    BY <1>3, <1>6
  <2> QED BY <1>6, <2>1 DEF ClearAfter
<1>7. ClearAfter(1) => ClearAfter(0)'
  <2>1. 0 \in Nat /\ 0 + 1 = 1
    OBVIOUS
  <2> QED BY <1>5, <2>1
<1>8. ASSUME NEW i \in Nat, NEW n \in Nat, NoInit(i + 1, n + 1)
      PROVE  NoInit(i, n)'
  <2>1. \A k \in DOMAIN down' : i < k /\ k < n =>
          k + 1 \in DOMAIN down /\ i + 1 < k + 1 /\ k + 1 < n + 1 /\ down'[k] = down[k + 1]
    BY <1>2
  <2> QED BY <1>8, <2>1 DEF NoInit
<1> DEFINE m == down[1]
<1>9. Reads(m)
  BY <1>0
<1>10. ASSUME NEW n \in 1 .. (N + 1), BaseGone(n + 1)
       PROVE  BaseGone(n)'
  <2>0. n \in Nat /\ 0 \in Nat /\ 1 < n + 1 /\ 0 < 1 /\ 0 + 1 = 1 /\ 1 \in DOMAIN down
    BY <1>2
  <2>1. CASE (client.base = None \/ ~client.listening) /\ NoInit(0, n + 1)
    <3>1. m.kind # "init"
      BY <2>0, <2>1 DEF NoInit
    <3>2. client'.base = None \/ ~client'.listening
      BY <1>9, <2>1, <3>1 DEF Reads
    <3>3. NoInit(0 + 1, n + 1)
      <4>1. \A k \in DOMAIN down : 1 < k => 0 < k
        BY <1>2
      <4> QED BY <2>0, <2>1, <4>1 DEF NoInit
    <3> QED BY <1>8, <2>0, <3>2, <3>3 DEF BaseGone
  <2>2. CASE \E j \in DOMAIN down : j < n + 1 /\ Clears(j) /\ NoInit(j, n + 1)
    <3>1. PICK j \in DOMAIN down : j < n + 1 /\ Clears(j) /\ NoInit(j, n + 1)
      BY <2>2
    <3>2. CASE j = 1
      <4>1. m.kind = "playback" /\ m.shows.track # client.heard
        BY <1>0, <3>1, <3>2
      <4>2. client'.base = None \/ ~client'.listening
        BY <1>9, <4>1 DEF Reads
      <4> QED BY <1>8, <2>0, <3>1, <3>2, <4>2 DEF BaseGone
    <3>3. CASE j # 1
      <4>1. PICK k : k = j - 1
        OBVIOUS
      <4>2. k \in 1 .. N /\ k \in Nat /\ j = k + 1 /\ k < n
        BY <1>2, <2>0, <3>1, <3>3, <4>1
      <4> QED BY <1>2, <1>8, <2>0, <3>1, <4>2 DEF BaseGone
    <3> QED BY <3>2, <3>3
  <2> QED BY <1>10, <2>1, <2>2 DEF BaseGone
<1>11. \A s : Old(s)' <=> Old(s)
  BY DEF Old
<1>12. 1 \in DOMAIN down
  BY <1>2
<1>13. BaseOK'
  <2>1. ASSUME client'.listening, NEW s \in {client'.base, client'.fed}, s # None, Old(s)
        PROVE  ClearAfter(1)
    <3>0. client.listening
      BY <1>9, <2>1 DEF Reads
    <3>1. ASSUME s \in {client.base, client.fed}, ~Clears(1)
          PROVE  ClearAfter(1)
      BY <1>6, <2>1, <3>0, <3>1 DEF Covered, BaseOK
    <3>2. CASE client'.base = client.base /\ client'.fed = client.fed
               /\ ~(client.listening /\ m.kind = "playback" /\ m.shows.track # client.heard)
      BY <1>0, <2>1, <3>0, <3>1, <3>2
    <3>3. CASE client'.base = None /\ client'.fed = None
      BY <2>1, <3>3
    <3>4. CASE m.kind = "init" /\ client'.base = m.stream /\ client'.fed = client.fed
      <4>1. CASE s = m.stream
        BY <1>12, <2>1, <3>4, <4>1 DEF Covered, InitsOK
      <4>2. CASE s = client.fed
        BY <1>0, <3>1, <3>4, <4>2
      <4> QED BY <2>1, <3>4, <4>1, <4>2
    <3>5. CASE m.kind = "media" /\ client'.base = client.base /\ client'.fed = m.stream
               /\ client.base # None /\ client.listening
      <4>1. CASE s = m.stream
        <5>1. \A j \in DOMAIN down : ~(j < 1)
          BY <1>2
        <5>2. ~BaseGone(1)
          BY <3>5, <5>1 DEF BaseGone
        <5> QED BY <1>12, <2>1, <3>5, <4>1, <5>2 DEF Covered, MediaOK
      <4>2. CASE s = client.base
        BY <1>0, <3>1, <3>5, <4>2
      <4> QED BY <2>1, <3>5, <4>1, <4>2
    <3> QED BY <1>9, <3>2, <3>3, <3>4, <3>5 DEF Reads
  <2> QED BY <1>7, <1>11, <2>1 DEF BaseOK
<1>14. InitsOK' /\ MediaOK'
  <2>1. ASSUME NEW i \in DOMAIN down'
        PROVE  /\ i \in Nat /\ i \in 1 .. (N + 1) /\ i + 1 \in DOMAIN down
               /\ down'[i] = down[i + 1]
    BY <1>2, <2>1
  <2>2. InitsOK'
    BY <1>5, <1>11, <2>1 DEF Covered, InitsOK
  <2>3. MediaOK'
    BY <1>5, <1>10, <1>11, <2>1 DEF Covered, MediaOK
  <2> QED BY <2>2, <2>3
<1>15. SavedOK'
  <2>1. PICK n : n = N + 1
    OBVIOUS
  <2>2. n \in 1 .. (N + 1) /\ n = Len(down') + 1 /\ n + 1 = Len(down) + 1
    BY <1>1, <1>2, <2>1
  <2>3. room.phase = "saved" => SayClears \/ BaseGone(n + 1)
    BY <2>2 DEF Covered, SavedOK
  <2>4. room.phase = "saved" => SayClears' \/ BaseGone(n)'
    BY <1>4, <1>10, <2>2, <2>3
  <2> QED BY <2>2, <2>4 DEF SavedOK, BaseGone, NoInit
<1> QED BY <1>13, <1>14, <1>15 DEF Covered

(* A client that clears its buffer, with no init segment under way, has nothing left
   of an earlier stream. *)
LEMMA ResetCovers ==
  ASSUME down' \in Seq(Message), client'.base = None, client'.fed = None,
         \A i \in DOMAIN down' : down'[i].kind # "init"
  PROVE  Covered'
<1>1. \A n : BaseGone(n)'
  BY DEF BaseGone, NoInit
<1> QED BY <1>1 DEF Covered, BaseOK, InitsOK, MediaOK, SavedOK

-------------------------------------------------------------------------------
(* The connection, the streams and the last update. *)
LEMMA SaysFields ==
  ASSUME NEW r \in RoomType, NEW n \in {-1, 0, 1}
  PROVE  /\ Says(r, n).say = r.say + n /\ Says(r, n).shown = r.shown
         /\ Says(r, n).phase = r.phase /\ Says(r, n).skip = r.skip
         /\ Says(r, n).airing = r.airing
BY DEF RoomType, Says

(* Each step of the room, field by field. *)
SameShow == room'.shown = room.shown /\ room'.say = room.say
Waiting == room'.phase \in {"over", "chosen"} \/ (room'.phase = "rest" /\ room'.shown.state = Idle)

LEMMA RoomMoves ==
  ASSUME Typed, RoomStep
  PROVE  \/ /\ Say /\ room'.shown = room.shown /\ room'.phase = room.phase
            /\ room.say > 0 /\ room'.skip = room.skip /\ room'.airing = room.airing
         \/ Media
         \/ SkipAsked /\ SameShow /\ room'.phase = room.phase /\ room'.skip
         \/ /\ UNCHANGED <<down, client, up, conn>>
            /\ \/ /\ Waiting /\ (room'.phase = "rest" => room'.say > 0)
                  /\ UNCHANGED syncVars \/ Cut
               \/ /\ room'.phase = "opened" /\ room'.shown = room.shown
                  /\ room'.say >= room.say /\ Open
                  /\ room.phase = "saved" \/ spoiled' # {}
               \/ UNCHANGED room /\ HeaderRead
               \/ /\ \/ room.phase = "opened" /\ published = latest
                     \/ room.phase = "rest" /\ room.shown.state = "streaming"
                  /\ room'.phase = "rest"
                  /\ room'.say = room.say + 1 /\ room'.shown.track = room.shown.track
                  /\ UNCHANGED syncVars
               \/ SameShow /\ room'.phase = room.phase /\ UNCHANGED syncVars /\ spoiled' # {}
               \/ /\ room'.phase = "saved" /\ room'.say > 0 /\ UNCHANGED syncVars
                  /\ Told(room'.shown.track) => spoiled' # {}
<1>0. room \in RoomType /\ room.say \in Nat
  BY Consts DEF Typed, RoomType
<1>a. 1 \in {-1, 0, 1} /\ 0 \in {-1, 0, 1} /\ -1 \in {-1, 0, 1}
  OBVIOUS
<1> USE DEF RoomVars, ClientVars, RoomOnly
<1>1. CASE Say
  <2>1. /\ room'.shown = room.shown /\ room'.phase = room.phase
        /\ room.say > 0 /\ room'.skip = room.skip /\ room'.airing = room.airing
    BY <1>0, <1>1, <1>a, SaysFields DEF Say
  <2> QED BY <1>1, <2>1
<1>2. CASE StreamEnds
  <2>1. room'.phase = "over"
    BY <1>0, <1>2 DEF StreamEnds, RoomType
  <2> QED BY <1>2, <2>1 DEF StreamEnds, Waiting
<1>3. CASE NextChosen
  <2> DEFINE r == [ShowState(room, "preparing") EXCEPT !.phase = "chosen"]
             q == [room EXCEPT !.phase = "rest",
                     !.shown = [track |-> NoTrack, playing |-> FALSE, state |-> Idle]]
  <2>1. r \in RoomType /\ r.say = room.say /\ r.phase = "chosen"
    <3>1. ShowState(room, "preparing") \in RoomType /\ ShowState(room, "preparing").say = room.say
      BY <1>0, ShowTyped DEF States
    <3> QED BY <3>1 DEF RoomType
  <2>2. q \in RoomType /\ q.say = room.say /\ q.phase = "rest" /\ q.shown.state = Idle
    BY <1>0 DEF RoomType, States, Shown
  <2>3. room' = Says(r, 1) \/ room' = Says(q, 1)
    BY <1>3 DEF NextChosen
  <2> HIDE DEF r, q
  <2>4. room'.say > 0 /\ Waiting
    BY <1>0, <1>a, <2>1, <2>2, <2>3, SaysFields DEF Waiting
  <2> QED BY <1>3, <2>4 DEF NextChosen
<1>4. CASE \E t \in Track : PlaySave(t)
  <2>1. PICK t \in Track : PlaySave(t)
    BY <1>4
  <2> DEFINE r == [room EXCEPT !.phase = "saved",
                     !.shown = [track |-> t, playing |-> TRUE, state |-> "preparing"]]
  <2>2. r \in RoomType /\ r.say = room.say /\ r.phase = "saved" /\ r.shown.track = t
    BY <1>0 DEF RoomType, States, Shown
  <2>3. room' = Says(r, 1)
    BY <2>1 DEF PlaySave
  <2> HIDE DEF r
  <2>4. room'.phase = "saved" /\ room'.say > 0 /\ room'.shown.track = t
    BY <1>0, <1>a, <2>2, <2>3, SaysFields
  <2>5. Told(t) => spoiled' # {}
    BY <2>1 DEF PlaySave, Spoil
  <2> QED BY <2>1, <2>4, <2>5 DEF PlaySave
<1>5. CASE OpenStream
  <2> DEFINE r == [room EXCEPT !.phase = "opened", !.airing = TRUE]
  <2>1. r \in RoomType /\ r.say = room.say /\ r.phase = "opened" /\ r.shown = room.shown
    BY <1>0 DEF RoomType
  <2>2. PICK n \in {0, 1} : room' = Says(r, n)
    BY <1>5 DEF OpenStream
  <2> HIDE DEF r
  <2>3. room'.phase = "opened" /\ room'.say >= room.say /\ room'.shown = room.shown
    BY <1>0, <2>1, <2>2, SaysFields
  <2> QED BY <1>5, <2>3 DEF OpenStream
<1>6. CASE UrlFails
  <2>1. ShowState(room, Idle) \in RoomType
    BY <1>0, ShowTyped DEF States
  <2>2. room'.phase = "over"
    BY <1>6, <2>1 DEF UrlFails, RoomType
  <2> QED BY <1>6, <2>2 DEF UrlFails, Waiting
<1>7. CASE HeaderRead
  BY <1>7 DEF HeaderRead
<1>8. CASE Started
  <2> DEFINE r == [ShowState(room, "streaming") EXCEPT !.phase = "rest"]
  <2>1. /\ r \in RoomType /\ r.say = room.say /\ r.phase = "rest"
        /\ r.shown.track = room.shown.track
    <3>1. ShowState(room, "streaming") \in RoomType /\ ShowState(room, "streaming").say = room.say
      BY <1>0, ShowTyped DEF States
    <3>2. ShowState(room, "streaming").shown.track = room.shown.track
      BY <1>0 DEF ShowState, RoomType, Shown
    <3> QED BY <3>1, <3>2 DEF RoomType
  <2>2. room' = Says(r, 1)
    BY <1>8 DEF Started
  <2> HIDE DEF r
  <2>3. /\ room'.phase = "rest" /\ room'.say = room.say + 1
        /\ room'.shown.track = room.shown.track
    BY <1>0, <1>a, <2>1, <2>2, SaysFields
  <2> QED BY <1>8, <2>3 DEF Started
<1>9. CASE Respawn
  <2>1. room'.phase = "opened" /\ room'.shown = room.shown /\ room'.say = room.say
    BY <1>0, <1>9 DEF Respawn, RoomType
  <2>2. spoiled' # {}
    BY <1>9 DEF Respawn, Spoil
  <2> QED BY <1>0, <1>9, <2>1, <2>2 DEF Respawn
<1>10. CASE Media
  BY <1>10
<1>11. CASE SkipAsked
  <2>1. SameShow /\ room'.phase = room.phase /\ room'.skip
    BY <1>0, <1>11 DEF SkipAsked, RoomType, SameShow
  <2> QED BY <1>11, <2>1
<1>12. CASE SkipRefused
  <2>1. SameShow /\ room'.phase = room.phase /\ spoiled' # {}
    BY <1>0, <1>12 DEF SkipRefused, RoomType, SameShow, Spoil
  <2> QED BY <1>12, <2>1 DEF SkipRefused
<1>13. CASE SkipDone
  <2> DEFINE r == [ShowState(room, "skipping") EXCEPT !.skip = FALSE, !.airing = FALSE,
                                                      !.phase = "over"]
  <2>1. r \in RoomType /\ r.phase = "over"
    <3>1. ShowState(room, "skipping") \in RoomType
      BY <1>0, ShowTyped DEF States
    <3> QED BY <3>1 DEF RoomType
  <2>2. room' = Says(r, 1)
    BY <1>13 DEF SkipDone
  <2> HIDE DEF r
  <2>3. room'.phase = "over"
    BY <1>a, <2>1, <2>2, SaysFields
  <2> QED BY <1>13, <2>3 DEF SkipDone, Waiting
<1>14. CASE PauseOrResume
  <2> DEFINE r == [room EXCEPT !.airing = ~@, !.shown.playing = ~room.airing]
  <2>1. /\ r \in RoomType /\ r.say = room.say /\ r.phase = room.phase
        /\ r.shown.track = room.shown.track
    BY <1>0 DEF RoomType, Shown
  <2>2. room' = Says(r, 1) /\ room.phase = "rest" /\ room.shown.state = "streaming"
    BY <1>14 DEF PauseOrResume
  <2> HIDE DEF r
  <2>3. /\ room'.phase = "rest" /\ room'.say = room.say + 1
        /\ room'.shown.track = room.shown.track
    BY <1>0, <1>a, <2>1, <2>2, SaysFields
  <2> QED BY <1>14, <2>2, <2>3 DEF PauseOrResume
<1> QED BY <1>1, <1>2, <1>3, <1>4, <1>5, <1>6, <1>7, <1>8, <1>9, <1>10, <1>11, <1>12,
           <1>13, <1>14 DEF RoomStep

LEMMA WireKept ==
  ASSUME WireOK, ListeningNext
  PROVE  WireOK'
<1> USE DEF RoomVars, ClientVars, RoomOnly, ClientOnly, Tell, Send, WireOK
<1>1. CASE RoomStep
  <2>1. UNCHANGED <<conn, up>> /\ (~conn => UNCHANGED down)
    BY <1>1 DEF RoomStep, Say, StreamEnds, NextChosen, OpenStream, UrlFails, HeaderRead,
                Started, Respawn, Media, SkipAsked, SkipRefused, SkipDone, PauseOrResume,
                PlaySave
  <2> QED BY <2>1
<1>2. CASE ServerReceives
  BY <1>2 DEF ServerReceives
<1>3. CASE ClientReceives
  BY <1>3 DEF ClientReceives
<1>4. CASE ClientStep
  <2>1. \/ conn' \/ (up' = <<>> /\ down' = <<>>)
        \/ UNCHANGED <<conn, down>> /\ (~conn => UNCHANGED up)
    BY <1>4 DEF ClientStep, UpdateEnd, TimerFires, Restore, ListenOn, ListenStarted,
                ListenOff, Lost, Reconnected, Refetched
  <2> QED BY <2>1
<1> QED BY <1>1, <1>2, <1>3, <1>4 DEF ListeningNext

LEMMA SyncKept ==
  ASSUME Typed, SyncOK, ListeningNext
  PROVE  SyncOK'
<1>0. Client \in Listener /\ tuned \in [Listener -> StreamNo] /\ latest \in Nat
  BY Consts DEF Typed
<1>1. CASE RoomStep
  <2>1. CASE Say \/ Media
    <3>1. CASE Media
      BY <3>1 DEF Media, SyncOK, RoomVars, syncVars
    <3>2. CASE Say
      <4>1. room'.shown = room.shown /\ room'.phase = room.phase
        BY <3>2, SaysFields DEF Say, Typed
      <4> QED BY <3>2, <4>1 DEF Say, SyncOK, syncVars
    <3> QED BY <2>1, <3>1, <3>2
  <2>2. CASE SkipAsked /\ SameShow /\ room'.phase = room.phase
    BY <2>2 DEF SkipAsked, SyncOK, syncVars, SameShow
  <2>3. CASE Waiting /\ (UNCHANGED syncVars \/ Cut)
    BY <1>0, <2>3 DEF SyncOK, Waiting, Cut, Nobody, syncVars, Idle
  <2>4. CASE room'.phase = "opened" /\ Open
    BY <1>0, <2>4 DEF SyncOK, Open, Nobody
  <2>5. CASE UNCHANGED room /\ HeaderRead
    BY <1>0, <2>5 DEF SyncOK, HeaderRead, Publish
  <2>6. CASE /\ published = latest \/ (room.phase = "rest" /\ room.shown.state = "streaming")
             /\ UNCHANGED syncVars
    BY <2>6 DEF SyncOK, syncVars
  <2>7. CASE SameShow /\ room'.phase = room.phase /\ UNCHANGED syncVars
    BY <2>7 DEF SyncOK, SameShow, syncVars
  <2>8. CASE room'.phase = "saved" /\ UNCHANGED syncVars
    BY <2>8 DEF SyncOK, syncVars
  <2> QED BY <1>1, <2>1, <2>2, <2>3, <2>4, <2>5, <2>6, <2>7, <2>8, RoomMoves
<1>2. CASE ServerReceives
  <2>1. /\ UNCHANGED <<latest, published, room>>
        /\ tuned' = tuned \/ (\E s \in {None, published} : tuned' = [tuned EXCEPT ![Client] = s])
    BY <1>2 DEF ServerReceives, ResyncAnswer, Tune, Detune, syncVars
  <2>2. tuned'[Client] \in {tuned[Client], None, published}
    BY <1>0, <2>1
  <2> QED BY <2>1, <2>2 DEF SyncOK
<1>3. CASE ClientReceives
  BY <1>3 DEF ClientReceives, SyncOK, RoomVars, syncVars
<1>4. CASE ClientStep
  <2>1. CASE Lost
    BY <1>0, <2>1 DEF Lost, Detune, SyncOK
  <2>2. CASE UNCHANGED <<syncVars, room>>
    BY <2>2 DEF SyncOK, syncVars
  <2> QED BY <1>4, <2>1, <2>2 DEF ClientStep, UpdateEnd, TimerFires, Restore, ListenOn,
        ListenStarted, ListenOff, Reconnected, Refetched, ClientOnly, RoomVars
<1> QED BY <1>1, <1>2, <1>3, <1>4 DEF ListeningNext

(* A step that sends no update, or none at all. *)
Frame(m) == m \in Message /\ m.kind # "playback" /\ down' = Append(down, m)
NoUpdate == UNCHANGED down \/ \E m : Frame(m)

LEMMA OthersSent ==
  ASSUME Typed, NoUpdate, client'.heard = client.heard
  PROVE  /\ Updates' = Updates /\ \A i \in Updates : down'[i] = down[i]
         /\ \A i \in DOMAIN down : i \in DOMAIN down' /\ down'[i] = down[i]
         /\ \A t : Told(t)' <=> Told(t)
<1>0. down \in Seq(Message)
  BY DEF Typed
<1>1. CASE UNCHANGED down
  BY <1>1, SameWire
<1>2. CASE \E m : Frame(m)
  <2>1. PICK m : Frame(m)
    BY <1>2
  <2>2. /\ m \in Message /\ down' = Append(down, m) /\ m.kind # "playback"
    BY <2>1 DEF Frame
  <2>3. /\ Updates' = Updates /\ \A i \in 1 .. Len(down) : down'[i] = down[i]
        /\ DOMAIN down = 1 .. Len(down) /\ DOMAIN down' = 1 .. (Len(down) + 1)
        /\ Len(down) \in Nat /\ \A t : Told(t)' <=> Told(t)
    BY <1>0, <2>2, FrameSent
  <2>4. Updates \subseteq DOMAIN down
    BY DEF Updates
  <2>5. \A i \in DOMAIN down : i \in DOMAIN down' /\ down'[i] = down[i]
    BY <2>3
  <2> QED BY <2>3, <2>4, <2>5
<1> QED BY <1>1, <1>2 DEF NoUpdate

LEMMA LastKept ==
  ASSUME Typed, WireOK, SyncOK, LastOK, ListeningNext
  PROVE  LastOK'
<1>0. down \in Seq(Message) /\ room \in RoomType /\ room.shown \in Shown
  BY DEF Typed, RoomType
<1>1. ASSUME NoUpdate, client'.heard = client.heard,
             \/ SameShow /\ room'.phase = room.phase
             \/ room'.phase = "rest" => room'.say # 0
      PROVE  LastOK'
  BY <1>1, OthersSent DEF LastOK, SameShow
<1>2. CASE RoomStep
  <2>1. CASE Say /\ room'.shown = room.shown
    <3>1. CASE conn
      <4> DEFINE m == [kind |-> "playback", shows |-> room.shown]
      <4>1. m \in Message /\ m.kind = "playback" /\ m.shows = room.shown
            /\ down' = Append(down, m) /\ client' = client
        BY <1>0, <2>1, <3>1, Messages DEF Say, Tell, ClientVars
      <4> HIDE DEF m
      <4>2. /\ Len(down) + 1 \in Updates' /\ Updates' \subseteq 1 .. (Len(down) + 1)
            /\ down'[Len(down) + 1] = m /\ Len(down) \in Nat
        BY <1>0, <4>1, UpdateSent
      <4>3. ASSUME NEW i \in Updates', \A j \in Updates' : j <= i
            PROVE  i = Len(down) + 1
        BY <4>2, <4>3
      <4> QED BY <2>1, <4>1, <4>2, <4>3 DEF LastOK
    <3>2. CASE ~conn
      <4>1. down' = <<>>
        BY <2>1, <3>2 DEF Say, Tell, WireOK
      <4> QED BY <4>1 DEF LastOK, Updates
    <3> QED BY <3>1, <3>2
  <2>2. CASE Media
    <3>1. tuned[Client] \in 1 .. MaxStreams
      BY <2>2, Consts DEF Media, Typed, StreamNo
    <3>2. [kind |-> "media", stream |-> tuned[Client]] \in Message
      BY <3>1, Messages
    <3>3. NoUpdate
      BY <2>2, <3>2 DEF Media, Tell, NoUpdate, Frame
    <3> QED BY <1>1, <2>2, <3>3 DEF Media, RoomVars, ClientVars, SameShow
  <2>3. CASE SkipAsked /\ SameShow /\ room'.phase = room.phase
    <3>1. NoUpdate
      BY <2>3, Messages DEF SkipAsked, Tell, NoUpdate, Frame
    <3> QED BY <1>1, <2>3, <3>1 DEF SkipAsked, ClientVars
  <2>4. CASE /\ UNCHANGED <<down, client>>
             /\ \/ SameShow /\ room'.phase = room.phase
                \/ room'.phase = "rest" => room'.say # 0
    BY <1>1, <2>4 DEF NoUpdate
  <2>5. room.say \in Nat
    BY <1>0, Consts DEF RoomType
  <2>6. \/ Say /\ room'.shown = room.shown
        \/ Media
        \/ SkipAsked /\ SameShow /\ room'.phase = room.phase
        \/ /\ UNCHANGED <<down, client>>
           /\ \/ SameShow /\ room'.phase = room.phase
              \/ room'.phase = "rest" => room'.say # 0
    BY <1>2, <2>5, RoomMoves DEF Waiting, SameShow
  <2> QED BY <2>1, <2>2, <2>3, <2>4, <2>6
<1>3. CASE ServerReceives
  <2>1. NoUpdate
    <3>1. published # None => [kind |-> "init", stream |-> published] \in Message
      BY Messages DEF Typed, StreamNo
    <3> QED BY <1>3, <3>1, Messages DEF ServerReceives, ResyncAnswer, Tell, NoUpdate, Frame
  <2> QED BY <1>1, <1>3, <2>1 DEF ServerReceives, SameShow
<1>4. CASE ClientReceives
  <2>1. /\ down # <<>> /\ down' = Tail(down) /\ Head(down) \in Message
        /\ \/ HearFrame(Head(down)) \/ HearWait(Head(down)) \/ HearSkipping(Head(down))
           \/ HearPlayback(Head(down))
    BY <1>0, <1>4, Tailed DEF ClientReceives
  <2>2. client'.heard = IF Head(down).kind = "playback" THEN ShownAfter(Head(down).shows)
                                                      ELSE client.heard
    BY <2>1, Reading DEF Reads
  <2>3. /\ Len(down') \in Nat /\ \A i \in 1 .. Len(down') : down'[i] = down[i + 1]
        /\ \A i \in 1 .. Len(down') : i \in Updates' <=> i + 1 \in Updates
        /\ Updates \subseteq 1 .. (Len(down') + 1) /\ Updates' \subseteq 1 .. Len(down')
    BY <1>0, <2>1, <2>2, MessageRead
  <2>4. ASSUME NEW i \in Updates', \A j \in Updates' : j <= i
        PROVE  i + 1 \in Updates /\ (\A j \in Updates : j <= i + 1) /\ down'[i] = down[i + 1]
    <3>1. i \in 1 .. Len(down')
      BY <2>3
    <3>2. ASSUME NEW j \in Updates
          PROVE  j <= i + 1
      <4>1. CASE j = 1
        BY <3>1, <4>1
      <4>2. CASE j # 1
        <5>1. PICK k : k = j - 1
          OBVIOUS
        <5>2. k \in 1 .. Len(down') /\ j = k + 1
          BY <2>3, <4>2, <5>1
        <5> QED BY <2>3, <2>4, <3>1, <5>2
      <4> QED BY <4>1, <4>2
    <3> QED BY <2>3, <3>1, <3>2
  <2>5. room' = room
    BY <1>4 DEF ClientReceives, RoomVars
  <2> QED BY <2>4, <2>5 DEF LastOK
<1>5. CASE ClientStep
  <2>1. (down' = <<>> \/ UNCHANGED down) /\ UNCHANGED room
    BY <1>5 DEF ClientStep, UpdateEnd, TimerFires, Restore, ListenOn, ListenStarted,
                ListenOff, Lost, Reconnected, Refetched, ClientOnly, RoomVars
  <2> QED BY <2>1 DEF LastOK, Updates
<1> QED BY <1>2, <1>3, <1>4, <1>5 DEF ListeningNext

-------------------------------------------------------------------------------
(* While nothing has gone wrong: the room. *)
LEMMA MediaSent ==
  ASSUME Typed, SyncOK, Media
  PROVE  \E m : /\ m \in Message /\ m.kind = "media" /\ m.stream = latest
                /\ down' = Append(down, m)
<1>1. tuned[Client] = latest /\ latest \in 1 .. MaxStreams
  BY Consts DEF Media, Typed, StreamNo, SyncOK
<1>2. [kind |-> "media", stream |-> latest] \in Message
  BY <1>1, Messages
<1> QED BY <1>1, <1>2 DEF Media, Tell

LEMMA RoomKeepsCovered ==
  ASSUME Typed, SyncOK, conn, Airs => Covered, RoomStep, spoiled' = {}, Airs'
  PROVE  Covered'
<1>0. down \in Seq(Message) /\ room.shown \in Shown /\ room.say \in Nat
  BY Consts DEF Typed, RoomType
<1>1. CASE Say /\ room'.shown = room.shown /\ room'.phase = room.phase
  <2> DEFINE m == [kind |-> "playback", shows |-> room.shown]
  <2>1. /\ m \in Message /\ m.kind = "playback" /\ m.shows.track = room.shown.track
        /\ down' = Append(down, m) /\ UNCHANGED <<client, latest>>
    BY <1>0, <1>1, Messages DEF Say, Tell, ClientVars, syncVars
  <2>2. Covered
    BY <1>1 DEF Airs
  <2> HIDE DEF m
  <2> QED BY <1>0, <1>1, <2>1, <2>2, SayCovers
<1>2. CASE Media
  <2>1. UNCHANGED <<room, client, latest>> /\ Covered
    BY <1>2 DEF Media, RoomVars, ClientVars, syncVars, Airs
  <2>2. PICK m : /\ m \in Message /\ m.kind = "media" /\ m.stream = latest
                 /\ down' = Append(down, m)
    BY <1>2, MediaSent
  <2>3. ~Old(m.stream) \/ room.phase = "saved"
    BY <2>2 DEF Old
  <2> QED BY <1>0, <2>1, <2>2, <2>3, SendingCovers
<1>3. CASE SkipAsked /\ SameShow /\ room'.phase = room.phase
  <2>1. UNCHANGED <<client, latest>> /\ Covered
    BY <1>3 DEF SkipAsked, ClientVars, syncVars, Airs, SameShow
  <2> DEFINE m == [kind |-> "skipping"]
  <2>2. m \in Message /\ m.kind = "skipping" /\ down' = Append(down, m)
    BY <1>3, Messages DEF SkipAsked, Tell
  <2> HIDE DEF m
  <2> QED BY <1>0, <1>3, <2>1, <2>2, SendingCovers DEF SameShow
<1>4. ASSUME UNCHANGED <<down, client>>
      PROVE  \A t : Told(t)' <=> Told(t)
  BY <1>4, SameWire
<1>5. CASE /\ UNCHANGED <<down, client>> /\ Covered
           /\ room'.shown.track = room.shown.track /\ room'.say >= room.say
           /\ \A s : (s # latest' \/ room'.phase = "saved") => Old(s)
           /\ room'.phase = "saved" => room.phase = "saved"
  <2>1. room'.say \in Int
    BY <1>0, <1>5, RoomKeepsTypes DEF Typed, RoomType
  <2>2. ASSUME SayClears
        PROVE  SayClears'
    <3>1. room'.say > 0
      BY <1>0, <1>5, <2>1, <2>2 DEF SayClears
    <3> QED BY <1>4, <1>5, <2>2, <3>1 DEF SayClears, Told, ShowsAt, Updates
  <2> QED BY <1>5, <2>2, RoomCovers
<1>6. CASE /\ UNCHANGED <<down, client>> /\ room'.phase = "saved" /\ room'.say > 0
           /\ ~Told(room'.shown.track)
  <2>1. PICK t : t = room'.shown.track
    OBVIOUS
  <2>2. ~Told(t)'
    BY <1>4, <1>6, <2>1
  <2>3. SayClears'
    BY <1>6, <2>1, <2>2 DEF SayClears, Told, ShowsAt, Updates
  <2> QED BY <1>6, <2>3, RoomCovers
<1>7. /\ UNCHANGED <<down, client, up, conn>> /\ room'.phase = "opened" /\ room'.shown = room.shown
      /\ room'.say >= room.say /\ Open /\ room.phase = "saved"
      => /\ UNCHANGED <<down, client>> /\ Covered
         /\ room'.shown.track = room.shown.track /\ room'.say >= room.say
         /\ \A s : (s # latest' \/ room'.phase = "saved") => Old(s)
         /\ room'.phase = "saved" => room.phase = "saved"
  BY DEF Airs, Old
<1>8. UNCHANGED <<down, client, up, conn, room>> /\ HeaderRead
      => /\ UNCHANGED <<down, client>> /\ Covered
         /\ room'.shown.track = room.shown.track /\ room'.say >= room.say
         /\ \A s : (s # latest' \/ room'.phase = "saved") => Old(s)
         /\ room'.phase = "saved" => room.phase = "saved"
  BY <1>0 DEF Airs, Old, HeaderRead, Publish
<1>9. /\ UNCHANGED <<down, client, up, conn>>
      /\ \/ room.phase = "opened" /\ published = latest
         \/ room.phase = "rest" /\ room.shown.state = "streaming"
      /\ room'.phase = "rest"
      /\ room'.say = room.say + 1 /\ room'.shown.track = room.shown.track
      /\ UNCHANGED syncVars
      => /\ UNCHANGED <<down, client>> /\ Covered
         /\ room'.shown.track = room.shown.track /\ room'.say >= room.say
         /\ \A s : (s # latest' \/ room'.phase = "saved") => Old(s)
         /\ room'.phase = "saved" => room.phase = "saved"
  BY <1>0 DEF Airs, Old, syncVars
<1>10. ~Waiting
  BY DEF Waiting, Airs, Idle
<1> QED BY <1>1, <1>2, <1>3, <1>5, <1>6, <1>7, <1>8, <1>9, <1>10, RoomMoves

(* What a steady room owes to a listener is not touched by a frame it is sent. *)
LEMMA FrameKeepsSteady ==
  ASSUME Typed, SteadyOK, NEW m \in Message, m.kind = "media", down' = Append(down, m),
         UNCHANGED <<client, up, syncVars>>
  PROVE  SteadyOK'
<1>1. /\ Updates' = Updates
      /\ \A i \in DOMAIN down : i \in DOMAIN down' /\ down'[i] = down[i]
  BY OthersSent DEF NoUpdate, Frame
<1>2. \A i \in DOMAIN down' : i \notin DOMAIN down => down'[i] = m
  <2>1. /\ DOMAIN down = 1 .. Len(down) /\ DOMAIN down' = 1 .. Len(down')
        /\ Len(down') = Len(down) + 1 /\ down'[Len(down')] = m /\ Len(down) \in Nat
    BY Appended DEF Typed
  <2> QED BY <2>1
<1>3. SkipsOK'
  BY <1>1, <1>2 DEF SteadyOK, SkipsOK
<1>4. Asking => Asking'
  BY DEF Asking
<1>5. Answered => Answered'
  BY <1>1 DEF Answered, syncVars
<1> QED BY <1>1, <1>3, <1>4, <1>5 DEF SteadyOK

LEMMA RoomKeepsSteady ==
  ASSUME Typed, WireOK, SyncOK, conn, Steady => SteadyOK, RoomStep, spoiled' = {}, Steady'
  PROVE  SteadyOK'
<1>0. down \in Seq(Message) /\ room.shown \in Shown /\ room.say \in Nat
  BY Consts DEF Typed, RoomType
<1>1. CASE Say /\ room'.shown = room.shown
  <2> DEFINE m == [kind |-> "playback", shows |-> room.shown]
  <2>1. /\ m \in Message /\ m.kind = "playback" /\ client'.heard = client.heard
        /\ down' = Append(down, m)
    BY <1>0, <1>1, Messages DEF Say, Tell, ClientVars
  <2> HIDE DEF m
  <2>2. /\ Len(down) + 1 \in Updates' /\ DOMAIN down' = 1 .. (Len(down) + 1)
        /\ down'[Len(down) + 1] = m /\ Len(down) \in Nat
    BY <1>0, <2>1, UpdateSent
  <2>3. ASSUME NEW i \in DOMAIN down', down'[i].kind = "skipping"
        PROVE  i < Len(down) + 1
    BY <2>1, <2>2, <2>3
  <2> QED BY <2>2, <2>3 DEF SteadyOK, SkipsOK
<1>2. CASE Media
  <2>1. PICK m : m \in Message /\ m.kind = "media" /\ down' = Append(down, m)
    BY <1>2, MediaSent
  <2>2. UNCHANGED <<room, client, up, syncVars>>
    BY <1>2 DEF Media, RoomVars, ClientVars, syncVars
  <2>3. Steady
    BY <2>2 DEF Steady, Streams
  <2> QED BY <2>1, <2>2, <2>3, FrameKeepsSteady
<1>3. /\ ~room'.skip /\ room'.phase = "rest" /\ ~Waiting /\ room'.say = 0
      /\ room'.shown.state = "streaming"
  BY DEF Steady, Streams, Waiting, Idle
<1>4. ~(UNCHANGED room /\ HeaderRead)
  BY <1>3 DEF HeaderRead
<1>5. \/ Say /\ room'.shown = room.shown
      \/ Media
      \/ room'.skip \/ Waiting \/ room'.phase = "opened" \/ (UNCHANGED room /\ HeaderRead)
      \/ room'.say = room.say + 1 \/ spoiled' # {} \/ room'.phase = "saved"
  BY RoomMoves
<1>6. room'.say # room.say + 1
  BY <1>0, <1>3
<1> QED BY <1>1, <1>2, <1>3, <1>4, <1>5, <1>6

(* While nothing has gone wrong: the server answers. *)
LEMMA Answers ==
  ASSUME Typed, conn, SyncOK, ServerReceives, spoiled' = {}
  PROVE  /\ UNCHANGED <<room, conn, client, latest, published>>
         /\ up # <<>> /\ up' = Tail(up)
         /\ \/ /\ Head(up) = "resync" /\ published # None /\ ~Late
               /\ tuned'[Client] = latest /\ latest # None
               /\ \E m : /\ m \in Message /\ m.kind = "init" /\ m.stream = latest
                         /\ down' = Append(down, m)
            \/ Head(up) = "resync" /\ published = None /\ UNCHANGED <<tuned, down>>
            \/ /\ Head(up) = "resync" /\ published = None
               /\ \E m : m \in Message /\ m.kind = "wait" /\ down' = Append(down, m)
            \/ Head(up) = "off" /\ UNCHANGED down
<1>0. Client \in Listener /\ tuned \in [Listener -> StreamNo]
  BY Consts DEF Typed
<1>1. UNCHANGED <<room, conn, client>> /\ up # <<>> /\ up' = Tail(up)
  BY DEF ServerReceives
<1>2. CASE Head(up) = "off" /\ Detune(Client) /\ UNCHANGED down
  BY <1>1, <1>2 DEF Detune
<1>3. CASE Head(up) = "resync" /\ ResyncAnswer /\ Spoil(IF Late THEN {"late"} ELSE {})
  <2>1. ~Late
    BY <1>3 DEF Spoil
  <2>2. CASE published # None /\ Tune(Client) /\ Tell([kind |-> "init", stream |-> published])
    <3>1. published = latest /\ published \in 1 .. MaxStreams /\ UNCHANGED <<latest, published>>
      BY <2>2 DEF SyncOK, Typed, StreamNo, Tune
    <3>2. tuned'[Client] = published
      BY <1>0, <2>2 DEF Tune
    <3> DEFINE m == [kind |-> "init", stream |-> published]
    <3>3. m \in Message /\ m.kind = "init" /\ m.stream = latest /\ down' = Append(down, m)
      BY <2>2, <3>1, Messages DEF Tell
    <3> HIDE DEF m
    <3> QED BY <1>1, <1>3, <2>1, <2>2, <3>1, <3>2, <3>3
  <2>3. CASE published = None /\ UNCHANGED <<syncVars, down>>
    BY <1>1, <1>3, <2>3 DEF syncVars
  <2>4. CASE published = None /\ Detune(Client) /\ Tell([kind |-> "wait"])
    <3> DEFINE m == [kind |-> "wait"]
    <3>1. m \in Message /\ m.kind = "wait" /\ down' = Append(down, m)
      BY <2>4, Messages DEF Tell
    <3> HIDE DEF m
    <3> QED BY <1>1, <1>3, <2>4, <3>1 DEF Detune
  <2> QED BY <1>3, <2>2, <2>3, <2>4 DEF ResyncAnswer
<1> QED BY <1>2, <1>3 DEF ServerReceives

LEMMA ServerKeepsCovered ==
  ASSUME Typed, SyncOK, conn, Airs => Covered, ServerReceives, spoiled' = {}, Airs'
  PROVE  Covered'
<1>0. /\ down \in Seq(Message) /\ UNCHANGED <<room, client, latest>> /\ Covered
  BY Answers DEF Typed, Airs
<1>1. CASE UNCHANGED down
  <2>1. \A t : Told(t)' <=> Told(t)
    BY <1>0, <1>1, SameWire
  <2>2. SayClears => SayClears'
    BY <1>0, <2>1 DEF SayClears, Told, ShowsAt, Updates
  <2>3. \A s : (s # latest' \/ room'.phase = "saved") => Old(s)
    BY <1>0 DEF Old
  <2> QED BY <1>0, <1>1, <2>2, <2>3, RoomCovers
<1>2. CASE /\ published # None /\ ~Late
           /\ \E m : /\ m \in Message /\ m.kind = "init" /\ m.stream = latest
                     /\ down' = Append(down, m)
  <2>1. PICK m : m \in Message /\ m.kind = "init" /\ m.stream = latest /\ down' = Append(down, m)
    BY <1>2
  <2>2. ~Old(m.stream)
    BY <1>2, <2>1 DEF Old, Late
  <2> QED BY <1>0, <2>1, <2>2, SendingCovers
<1>3. CASE \E m : m \in Message /\ m.kind = "wait" /\ down' = Append(down, m)
  <2>1. PICK m : m \in Message /\ m.kind = "wait" /\ down' = Append(down, m)
    BY <1>3
  <2> QED BY <1>0, <2>1, SendingCovers
<1> QED BY <1>1, <1>2, <1>3, Answers

LEMMA ServerKeepsSteady ==
  ASSUME Typed, SyncOK, conn, Steady => SteadyOK, ServerReceives, spoiled' = {}, Steady'
  PROVE  SteadyOK'
<1>0. /\ down \in Seq(Message) /\ up \in Seq({"resync", "off"})
      /\ UNCHANGED <<room, client, latest>> /\ up # <<>> /\ up' = Tail(up)
  BY Answers DEF Typed
<1>1. Steady /\ SteadyOK
  BY <1>0 DEF Steady, Streams
<1>2. published = latest /\ latest # None
  BY <1>1, Consts DEF Steady, Streams, SyncOK, Typed
<1>3. PICK m : \/ UNCHANGED down
               \/ /\ m \in Message /\ m.kind \in {"init", "wait"} /\ down' = Append(down, m)
  BY Answers
<1>4. /\ Updates' = Updates
      /\ \A i \in DOMAIN down : i \in DOMAIN down' /\ down'[i] = down[i]
  BY <1>0, <1>3, OthersSent DEF NoUpdate, Frame
<1>5. \A i \in DOMAIN down' : i \notin DOMAIN down => down'[i].kind # "skipping"
  <2>1. CASE UNCHANGED down
    BY <2>1
  <2>2. CASE m \in Message /\ m.kind \in {"init", "wait"} /\ down' = Append(down, m)
    <3>1. /\ DOMAIN down = 1 .. Len(down) /\ DOMAIN down' = 1 .. Len(down')
          /\ Len(down') = Len(down) + 1 /\ down'[Len(down')] = m /\ Len(down) \in Nat
      BY <1>0, <2>2, Appended
    <3>2. \A i \in DOMAIN down' : i \notin DOMAIN down => i = Len(down')
      BY <3>1
    <3> QED BY <2>2, <3>1, <3>2
  <2> QED BY <1>3, <2>1, <2>2
<1>6. SkipsOK'
  BY <1>1, <1>4, <1>5 DEF SteadyOK, SkipsOK
<1>7. /\ Len(up) = Len(up') + 1 /\ Head(up) = up[1] /\ Len(up') \in Nat
      /\ DOMAIN up = 1 .. Len(up) /\ DOMAIN up' = 1 .. Len(up')
      /\ \A i \in 1 .. Len(up') : up'[i] = up[i + 1]
  BY <1>0, Tailed
<1>8. PICK N : N = Len(up')
  OBVIOUS
<1>9. /\ N \in Nat /\ DOMAIN up = 1 .. (N + 1) /\ DOMAIN up' = 1 .. N
      /\ \A i \in 1 .. N : up'[i] = up[i + 1]
  BY <1>7, <1>8
<1>a. 1 \in DOMAIN up
  BY <1>9
<1>b. ASSUME NEW i \in DOMAIN up'
      PROVE  i + 1 \in DOMAIN up /\ 1 < i + 1 /\ up'[i] = up[i + 1]
  <2>1. i \in 1 .. N
    BY <1>9
  <2> QED BY <1>9, <2>1
<1>10. ASSUME Asking
       PROVE  Asking' \/ Answered'
  <2>1. CASE client.starting = "resync"
    BY <1>0, <2>1 DEF Asking
  <2>2. CASE \E i \in DOMAIN up : up[i] = "resync" /\ \A j \in DOMAIN up : i < j => up[j] # "off"
    <3>1. PICK i \in DOMAIN up : up[i] = "resync" /\ \A j \in DOMAIN up : i < j => up[j] # "off"
      BY <2>2
    <3>2. CASE i = 1
      <4>1. \A j \in DOMAIN up' : up'[j] # "off"
        BY <1>b, <3>1, <3>2
      <4>2. /\ tuned'[Client] = latest
            /\ \E q : q \in Message /\ q.kind = "init" /\ q.stream = latest
                      /\ down' = Append(down, q)
        BY <1>2, <1>7, <3>1, <3>2, Answers
      <4>3. PICK q : q \in Message /\ q.kind = "init" /\ q.stream = latest
                     /\ down' = Append(down, q)
        BY <4>2
      <4>4. Len(down') \in DOMAIN down' /\ down'[Len(down')] = q
        BY <1>0, <4>3, Appended
      <4> QED BY <1>0, <4>1, <4>2, <4>3, <4>4 DEF Answered
    <3>3. CASE i # 1
      <4>1. PICK k : k = i - 1
        OBVIOUS
      <4>2. k \in 1 .. N /\ i = k + 1
        BY <1>9, <3>1, <3>3, <4>1
      <4>3. ASSUME NEW j \in DOMAIN up', k < j
            PROVE  up'[j] # "off"
        <5>1. j \in 1 .. N /\ i < j + 1
          BY <1>9, <4>2, <4>3
        <5> QED BY <1>b, <3>1, <5>1
      <4>4. k \in DOMAIN up' /\ up'[k] = "resync"
        BY <1>9, <3>1, <4>2
      <4> QED BY <4>3, <4>4 DEF Asking
    <3> QED BY <3>2, <3>3
  <2> QED BY <1>10, <2>1, <2>2 DEF Asking
<1>11. ASSUME Answered
       PROVE  Answered'
  <2>1. \A i \in DOMAIN up' : up'[i] # "off"
    BY <1>b, <1>11 DEF Answered
  <2>2. tuned'[Client] = latest
    BY <1>2, <1>7, <1>a, <1>11, Answers DEF Answered
  <2> QED BY <1>0, <1>4, <1>11, <2>1, <2>2 DEF Answered
<1> QED BY <1>0, <1>1, <1>4, <1>6, <1>10, <1>11 DEF SteadyOK

(* While nothing has gone wrong: the client. *)
LEMMA Received ==
  ASSUME Typed, ClientReceives
  PROVE  /\ down \in Seq(Message) /\ down # <<>> /\ down' = Tail(down)
         /\ Head(down) \in Message /\ Reads(Head(down))
         /\ UNCHANGED <<room, conn, syncVars>>
         /\ \/ /\ UNCHANGED up
               /\ \/ HearFrame(Head(down)) \/ HearWait(Head(down)) \/ HearSkipping(Head(down))
            \/ HearPlayback(Head(down))
<1>1. down \in Seq(Message) /\ down # <<>> /\ down' = Tail(down)
  BY DEF Typed, ClientReceives
<1>2. Head(down) \in Message
  BY <1>1, Tailed
<1>3. \/ HearFrame(Head(down)) \/ HearWait(Head(down)) \/ HearSkipping(Head(down))
      \/ HearPlayback(Head(down))
  BY DEF ClientReceives
<1> QED BY <1>1, <1>2, <1>3, Reading DEF ClientReceives, RoomVars

(* What is bad is only forgotten with the whole buffer. *)
Forgets ==
  /\ Head(down).kind = "playback" /\ Head(down).shows.track # client.heard
  /\ client.listening /\ NothingOld
LEMMA Forgetting ==
  ASSUME Typed, ClientReceives, spoiled' = {}
  PROVE  \/ spoiled = {}
         \/ Forgets /\ client'.base = None /\ client'.fed = None
<1>1. CASE ~HearPlayback(Head(down))
  BY <1>1, Received DEF HearFrame, HearWait, HearSkipping, Spoil
<1>2. CASE HearPlayback(Head(down))
  <2>1. spoiled = {} \/ Forgets
    BY <1>2 DEF HearPlayback, Forgets
  <2>2. ASSUME Forgets
        PROVE  client'.base = None /\ client'.fed = None
    <3> DEFINE f == Followed(client, Head(down).shows)
    <3>1. client \in Hooks /\ Head(down).shows \in Shown
      BY <2>2, Received, Messages DEF Typed, Forgets
    <3>2. f \in Hooks /\ f.base = None /\ f.fed = None
      <4>1. f \in Hooks
        BY <3>1, ClientUpdates
      <4> QED BY <2>2, <3>1, <4>1 DEF Forgets, Followed, Prepared, Cleared, Hooks
    <3>3. \/ client' = [f EXCEPT !.state = Head(down).shows.state]
          \/ client' = Asked([f EXCEPT !.state = Head(down).shows.state])
          \/ client' = [f EXCEPT !.state = Idle, !.heard = NoTrack]
          \/ client' = Asked([f EXCEPT !.state = Idle, !.heard = NoTrack])
      BY <1>2 DEF HearPlayback
    <3> HIDE DEF f
    <3> QED BY <3>2, <3>3 DEF Asked, Hooks
  <2> QED BY <2>1, <2>2
<1> QED BY <1>1, <1>2

LEMMA ReceiveKeepsCovered ==
  ASSUME Typed, spoiled = {} /\ Airs => Covered, ClientReceives, spoiled' = {}, Airs'
  PROVE  Covered'
<1>1. /\ down \in Seq(Message) /\ down # <<>> /\ down' = Tail(down)
      /\ UNCHANGED <<room, latest>> /\ Reads(Head(down))
  BY Received DEF syncVars
<1>2. CASE spoiled = {}
  <2>1. Covered
    BY <1>1, <1>2 DEF Airs
  <2> QED BY <1>1, <2>1, ReadingCovers
<1>3. CASE Forgets /\ client'.base = None /\ client'.fed = None
  <2>1. /\ down' \in Seq(Message) /\ Len(down) = Len(down') + 1 /\ DOMAIN down' = 1 .. Len(down')
        /\ \A i \in 1 .. Len(down') : down'[i] = down[i + 1] /\ i + 1 \in 2 .. Len(down)
    <3>1. /\ down' \in Seq(Message) /\ Len(down) = Len(down') + 1
          /\ DOMAIN down' = 1 .. Len(down') /\ Len(down') \in Nat
          /\ \A i \in 1 .. Len(down') : down'[i] = down[i + 1]
      BY <1>1, Tailed
    <3> QED BY <3>1
  <2>2. \A i \in DOMAIN down' : down'[i].kind # "init"
    BY <1>3, <2>1 DEF Forgets, NothingOld
  <2> QED BY <1>3, <2>1, <2>2, ResetCovers
<1> QED BY <1>2, <1>3, Forgetting

LEMMA ReceiveKeepsSteady ==
  ASSUME Typed, WireOK, SyncOK, LastOK, spoiled = {} => Unspoiled, ClientReceives,
         spoiled' = {}, Steady'
  PROVE  SteadyOK'
<1> DEFINE m == Head(down)
<1>0. /\ down \in Seq(Message) /\ down # <<>> /\ down' = Tail(down)
      /\ UNCHANGED <<room, conn, latest, published, tuned>> /\ m \in Message /\ Reads(m)
      /\ conn /\ client \in Hooks /\ client' \in Hooks
      /\ up \in Seq({"resync", "off"})
  BY Received, ReceiveKeepsTypes DEF syncVars, WireOK, Typed
<1>1. Steady
  BY <1>0 DEF Steady, Streams
<1>2. /\ Len(down') \in Nat /\ Len(down) = Len(down') + 1
      /\ DOMAIN down = 1 .. (Len(down') + 1) /\ DOMAIN down' = 1 .. Len(down')
      /\ m = down[1]
      /\ \A i \in 1 .. Len(down') : down'[i] = down[i + 1]
      /\ \A i \in 1 .. Len(down') : i \in Updates' <=> i + 1 \in Updates
      /\ Updates \subseteq 1 .. (Len(down') + 1) /\ Updates' \subseteq 1 .. Len(down')
  BY <1>0, MessageRead DEF Reads
<1>3. PICK N : N = Len(down')
  OBVIOUS
<1>4. /\ N \in Nat /\ DOMAIN down = 1 .. (N + 1) /\ DOMAIN down' = 1 .. N /\ Len(down) = N + 1
      /\ \A i \in 1 .. N : down'[i] = down[i + 1] /\ (i \in Updates' <=> i + 1 \in Updates)
      /\ Updates \subseteq 1 .. (N + 1) /\ Updates' \subseteq 1 .. N
  BY <1>2, <1>3
<1>5. ASSUME NEW j \in Updates, j # 1
      PROVE  \E k \in Updates' : j = k + 1
  <2>1. PICK k : k = j - 1
    OBVIOUS
  <2>2. k \in 1 .. N /\ j = k + 1
    BY <1>4, <1>5, <2>1
  <2> QED BY <1>4, <1>5, <2>2
<1>6. SkipsOK'
  <2>1. ASSUME NEW i \in DOMAIN down', down'[i].kind = "skipping"
        PROVE  \E k \in Updates' : i < k
    <3>1. i \in 1 .. N /\ i + 1 \in DOMAIN down /\ down[i + 1].kind = "skipping"
          /\ i + 1 \in 2 .. Len(down)
      BY <1>4, <2>1
    <3>2. ~Forgets
      BY <3>1 DEF Forgets, NothingOld
    <3>3. PICK j \in Updates : i + 1 < j
      BY <1>1, <3>1, <3>2, Forgetting DEF Unspoiled, SteadyOK, SkipsOK
    <3>4. j # 1
      BY <3>1, <3>3
    <3>5. PICK k \in Updates' : j = k + 1
      BY <1>5, <3>4
    <3>6. i < k
      BY <1>4, <3>1, <3>3, <3>5
    <3> QED BY <3>6
  <2> QED BY <2>1 DEF SkipsOK
<1>7. ASSUME Updates' = {}
      PROVE  Updates \subseteq {1}
  BY <1>5, <1>7
<1>8. ASSUME Updates' = {}, HearPlayback(m)
      PROVE  client'.state = "streaming" /\ (client'.listening => Asking')
  <2>1. m.kind = "playback" /\ 1 \in DOMAIN down /\ 1 \in Updates
    <3>1. m.kind = "playback"
      BY <1>8 DEF HearPlayback
    <3> QED BY <1>2, <1>4, <3>1 DEF Updates
  <2>2. \A j \in Updates : j <= 1
    BY <1>7, <1>8
  <2>3. m.shows = room.shown
    BY <1>1, <1>2, <2>1, <2>2 DEF LastOK, Steady
  <2>4. m.shows.playing /\ m.shows.state = "streaming" /\ m.shows \in Shown
    BY <1>1, <2>3 DEF Steady, Streams, Typed, RoomType
  <2> DEFINE f == Followed(client, m.shows)
             g == [f EXCEPT !.state = m.shows.state]
  <2>5. f \in Hooks
    BY <1>0, <2>4, ClientUpdates
  <2>6. /\ client' = IF client.listening THEN Asked(g) ELSE g
        /\ client.listening => Send("resync")
    BY <1>8, <2>4 DEF HearPlayback
  <2> HIDE DEF f
  <2>7. g \in Hooks /\ g.state = "streaming"
    BY <2>4, <2>5 DEF Hooks, States
  <2> HIDE DEF g
  <2>8. client'.state = "streaming"
    BY <2>6, <2>7 DEF Asked, Hooks
  <2>9. ASSUME client'.listening
        PROVE  Asking'
    <3>1. up' = Append(up, "resync")
      BY <1>0, <2>6, <2>9 DEF Reads, Send
    <3>2. /\ Len(up') \in DOMAIN up' /\ up'[Len(up')] = "resync"
          /\ \A j \in DOMAIN up' : ~(Len(up') < j)
      BY <1>0, <3>1, Appended
    <3> QED BY <3>2 DEF Asking
  <2> QED BY <2>8, <2>9
<1>9. ASSUME Updates' = {}, ~HearPlayback(m)
      PROVE  client'.state = "streaming" /\ (client'.listening => Asking' \/ Answered')
  <2>1. /\ UNCHANGED up
        /\ \/ HearFrame(m) \/ HearWait(m) \/ HearSkipping(m)
    BY <1>9, Received
  <2>2. m.kind # "playback" /\ 1 \notin Updates
    BY <1>2, <2>1 DEF HearFrame, HearWait, HearSkipping, Updates
  <2>3. Updates = {} /\ spoiled = {}
    BY <1>7, <1>9, <2>2, Forgetting DEF Forgets
  <2>4. SteadyOK /\ Covered
    BY <1>1, <2>3 DEF Unspoiled, Airs, Steady, Streams
  <2>5. ~HearSkipping(m)
    <3>1. 1 \in DOMAIN down
      BY <1>4
    <3> QED BY <1>2, <2>3, <2>4, <3>1 DEF SteadyOK, SkipsOK, HearSkipping
  <2>6. /\ client.state = "streaming"
        /\ client.listening => Asking \/ Answered
    BY <2>3, <2>4 DEF SteadyOK
  <2>7. /\ client'.state = client.state /\ client'.starting = client.starting
        /\ client'.listening = client.listening
        /\ client.base = latest => client'.base = latest
    <3>1. latest # None
      BY Consts DEF Typed
    <3> HIDE DEF m
    <3>2. CASE HearFrame(m)
      <4>1. CASE client' = InitTaken(client, m.stream)
        BY <1>0, <3>1, <4>1 DEF InitTaken, Hooks
      <4>2. CASE client' = MediaTaken(client, m.stream)
        BY <1>0, <4>2 DEF MediaTaken, Hooks
      <4> QED BY <3>2, <4>1, <4>2 DEF HearFrame
    <3>3. CASE HearWait(m)
      BY <1>0, <3>3 DEF HearWait, Hooks
    <3> QED BY <2>1, <2>5, <3>2, <3>3
  <2>8. Asking => Asking'
    BY <2>1, <2>7 DEF Asking
  <2>9. ASSUME Answered, client.listening
        PROVE  Answered'
    <3>1. CASE client.base = latest
      BY <1>0, <2>1, <2>7, <2>9, <3>1 DEF Answered
    <3>2. CASE \E i \in DOMAIN down : down[i].kind = "init" /\ down[i].stream = latest
      <4>1. PICK i \in DOMAIN down : down[i].kind = "init" /\ down[i].stream = latest
        BY <3>2
      <4>2. CASE i = 1
        <5>1. m.kind = "init" /\ m.stream = latest
          BY <1>2, <4>1, <4>2
        <5>2. client' = InitTaken(client, m.stream) /\ ~client.clearing
          BY <2>1, <2>5, <2>9, <5>1 DEF HearFrame, HearWait, Spoil
        <5>3. client.base \in {None, latest}
          <6>1. \A j : ~Clears(j)
            BY <2>3 DEF Clears
          <6>2. ~ClearAfter(0)
            BY <1>1, <6>1 DEF ClearAfter, SayClears, Steady
          <6> QED BY <2>4, <2>9, <6>2 DEF Covered, BaseOK, Old
        <5>4. client'.base = latest
          BY <1>0, <2>9, <5>1, <5>2, <5>3 DEF InitTaken, Hooks
        <5> QED BY <1>0, <2>1, <2>9, <5>4 DEF Answered
      <4>3. CASE i # 1
        <5>1. PICK k : k = i - 1
          OBVIOUS
        <5>2. k \in DOMAIN down' /\ k \in 1 .. N /\ i = k + 1
          BY <1>4, <4>1, <4>3, <5>1
        <5>3. down'[k] = down[i]
          BY <1>4, <5>2
        <5> QED BY <1>0, <2>1, <2>9, <4>1, <5>2, <5>3 DEF Answered
      <4> QED BY <4>2, <4>3
    <3> QED BY <2>9, <3>1, <3>2 DEF Answered
  <2> QED BY <2>6, <2>7, <2>8, <2>9
<1> QED BY <1>6, <1>8, <1>9 DEF SteadyOK

LEMMA ClientKeeps ==
  ASSUME Typed, Unspoiled, ClientStep, spoiled' = {}
  PROVE  Unspoiled'
<1>0. /\ client \in Hooks /\ client' \in Hooks /\ conn
      /\ up \in Seq({"resync", "off"}) /\ down \in Seq(Message)
  BY ClientKeepsTypes DEF Typed, Unspoiled
<1>1. ~Lost /\ ~Reconnected
  BY <1>0 DEF Lost, Reconnected, Spoil
<1>2. UNCHANGED <<RoomVars, conn, down>>
  BY <1>1 DEF ClientStep, UpdateEnd, TimerFires, Restore, ListenOn, ListenStarted, ListenOff,
              Refetched, ClientOnly
<1>3. /\ client'.heard = client.heard
      /\ client'.listening => \/ client'.base = None /\ client'.fed = None
                              \/ /\ client.listening
                                 /\ client'.base = client.base /\ client'.fed = client.fed
  <2>1. CASE UpdateEnd \/ TimerFires \/ Restore \/ ListenStarted \/ ListenOff
    <3>1. CASE UpdateEnd
      BY <1>0, <3>1 DEF UpdateEnd, Hooks
    <3>2. CASE TimerFires \/ ListenOff
      BY <1>0, <3>2 DEF TimerFires, ListenOff, Hooks
    <3>3. CASE Restore \/ ListenStarted
      BY <1>0, <3>3 DEF Restore, ListenStarted, Asked, Hooks
    <3> QED BY <2>1, <3>1, <3>2, <3>3
  <2>2. CASE ListenOn
    BY <1>0, <2>2 DEF ListenOn, Cleared, Hooks
  <2>3. CASE Refetched
    BY <1>0, <2>3 DEF Refetched, Spoil, Hooks
  <2> QED BY <1>1, <2>1, <2>2, <2>3 DEF ClientStep
<1>4. ASSUME Airs'
      PROVE  Covered'
  BY <1>2, <1>3, <1>4, ClientCovers DEF Unspoiled, Airs, RoomVars, syncVars
<1>5. ASSUME Steady'
      PROVE  SteadyOK'
  <2>1. Steady /\ SteadyOK
    BY <1>2, <1>5 DEF Steady, Streams, RoomVars, Unspoiled
  <2>2. Updates' = Updates /\ SkipsOK'
    BY <1>2, <2>1 DEF Updates, SteadyOK, SkipsOK
  <2>3. ASSUME Updates = {}
        PROVE  /\ client'.state = "streaming"
               /\ client'.listening => Asking' \/ Answered'
    <3>0. /\ client.state = "streaming"
          /\ client.listening => Asking \/ Answered
      BY <2>1, <2>3 DEF SteadyOK
    <3>1. ASSUME Send("resync")
          PROVE  Asking'
      <4>1. up' = Append(up, "resync")
        BY <1>0, <3>1 DEF Send
      <4>2. /\ Len(up') \in DOMAIN up' /\ up'[Len(up')] = "resync"
            /\ \A j \in DOMAIN up' : ~(Len(up') < j)
        BY <1>0, <4>1, Appended
      <4> QED BY <4>2 DEF Asking
    <3>2. ASSUME UNCHANGED up, client'.starting = client.starting,
                 client'.base = client.base, client'.listening => client.listening
          PROVE  client'.listening => Asking' \/ Answered'
      BY <1>2, <3>0, <3>2 DEF Asking, Answered, RoomVars, syncVars
    <3>3. CASE UpdateEnd
      <4>1. /\ client'.starting = client.starting /\ client'.base = client.base
            /\ client'.listening = client.listening /\ client'.state = client.state
        BY <1>0, <3>3 DEF UpdateEnd, Hooks
      <4> QED BY <3>0, <3>2, <3>3, <4>1 DEF UpdateEnd
    <3>4. CASE TimerFires
      <4>1. client'.state = client.state
        BY <1>0, <3>4 DEF TimerFires, Hooks
      <4> QED BY <3>0, <3>1, <3>4, <4>1 DEF TimerFires
    <3>5. CASE Restore
      <4>1. client'.state = client.state
        BY <1>0, <3>5 DEF Restore, Asked, Hooks
      <4> QED BY <3>0, <3>1, <3>5, <4>1 DEF Restore
    <3>6. CASE ListenOn
      <4>1. client'.state = client.state /\ client'.starting = "resync"
        BY <1>0, <3>0, <3>6 DEF ListenOn, Cleared, Hooks
      <4> QED BY <3>0, <4>1 DEF Asking
    <3>7. CASE ListenStarted
      <4>1. /\ client'.state = client.state /\ client'.base = client.base
            /\ client'.listening = client.listening
        BY <1>0, <3>7 DEF ListenStarted, Asked, Hooks
      <4>2. CASE client.starting = "resync"
        BY <3>0, <3>1, <3>7, <4>1, <4>2 DEF ListenStarted
      <4>3. CASE client.starting # "resync"
        <5>1. UNCHANGED up
          BY <3>7, <4>3 DEF ListenStarted
        <5> QED BY <1>2, <3>0, <4>1, <4>3, <5>1 DEF Asking, Answered, RoomVars, syncVars
      <4> QED BY <4>2, <4>3
    <3>8. CASE ListenOff
      <4>1. client'.state = client.state /\ ~client'.listening
        BY <1>0, <3>8 DEF ListenOff, Hooks
      <4> QED BY <3>0, <4>1
    <3>9. CASE Refetched
      <4>1. /\ client'.starting = client.starting /\ client'.base = client.base
            /\ client'.listening = client.listening
            /\ client'.state \in {client.state, room.shown.state}
        BY <1>0, <3>9 DEF Refetched, Hooks
      <4>2. UNCHANGED up /\ room.shown.state = "streaming"
        BY <2>1, <3>9 DEF Refetched, Steady, Streams
      <4> QED BY <3>0, <3>2, <4>1, <4>2
    <3> QED BY <1>1, <3>3, <3>4, <3>5, <3>6, <3>7, <3>8, <3>9 DEF ClientStep
  <2> QED BY <2>2, <2>3 DEF SteadyOK
<1> QED BY <1>0, <1>2, <1>4, <1>5 DEF Unspoiled

LEMMA UnspoiledKept ==
  ASSUME ListeningInv, ListeningNext, spoiled' = {}
  PROVE  Unspoiled'
<1>0. Typed /\ WireOK /\ SyncOK /\ LastOK /\ (spoiled = {} => Unspoiled)
  BY DEF ListeningInv
<1>1. CASE RoomStep
  <2>1. spoiled = {} /\ conn' = conn
    BY <1>1 DEF RoomStep, Say, StreamEnds, NextChosen, OpenStream, UrlFails, HeaderRead,
                Started, Respawn, Media, SkipAsked, SkipRefused, SkipDone, PauseOrResume,
                PlaySave, Spoil, RoomOnly, ClientVars
  <2> QED BY <1>0, <1>1, <2>1, RoomKeepsCovered, RoomKeepsSteady DEF Unspoiled
<1>2. CASE ServerReceives
  <2>1. spoiled = {} /\ conn' = conn
    BY <1>2 DEF ServerReceives, Spoil
  <2> QED BY <1>0, <1>2, <2>1, ServerKeepsCovered, ServerKeepsSteady DEF Unspoiled
<1>3. CASE ClientReceives
  <2>1. conn'
    BY <1>0, <1>3 DEF ClientReceives, WireOK
  <2>2. spoiled = {} /\ Airs => Covered
    BY <1>0 DEF Unspoiled
  <2> QED BY <1>0, <1>3, <2>1, <2>2, ReceiveKeepsCovered, ReceiveKeepsSteady DEF Unspoiled
<1>4. CASE ClientStep
  <2>1. spoiled = {}
    BY <1>4 DEF ClientStep, UpdateEnd, TimerFires, Restore, ListenOn, ListenStarted, ListenOff,
                Lost, Reconnected, Refetched, Spoil, ClientOnly
  <2> QED BY <1>0, <1>4, <2>1, ClientKeeps
<1> QED BY <1>1, <1>2, <1>3, <1>4 DEF ListeningNext

-------------------------------------------------------------------------------
LEMMA InvariantHolds ==
  /\ ListeningInit => ListeningInv
  /\ ListeningInv /\ [ListeningNext]_listenVars => ListeningInv'
<1>1. ASSUME ListeningInit
      PROVE  ListeningInv
  <2>1. Typed
    BY <1>1, TypesHold
  <2>2. /\ down = <<>> /\ up = <<>> /\ conn /\ latest = 0 /\ published = None
        /\ tuned[Client] = None
        /\ room.shown.state = Idle /\ room.phase = "rest"
    BY <1>1, Consts DEF ListeningInit, SyncInit, Nobody
  <2>3. WireOK /\ SyncOK /\ LastOK
    BY <2>2 DEF WireOK, SyncOK, LastOK, Updates, Idle
  <2>4. Unspoiled
    BY <2>2 DEF Unspoiled, Airs, Steady, Streams, Idle
  <2> QED BY <2>1, <2>3, <2>4 DEF ListeningInv
<1>2. ASSUME ListeningInv, ListeningNext
      PROVE  ListeningInv'
  <2>1. Typed /\ WireOK /\ SyncOK /\ LastOK
    BY <1>2 DEF ListeningInv
  <2>2. Typed'
    BY <1>2, <2>1, TypesHold
  <2>3. WireOK' /\ SyncOK' /\ LastOK'
    BY <1>2, <2>1, WireKept, SyncKept, LastKept
  <2>4. spoiled' = {} => Unspoiled'
    BY <1>2, UnspoiledKept
  <2> QED BY <2>2, <2>3, <2>4 DEF ListeningInv
<1>3. ASSUME ListeningInv, UNCHANGED listenVars
      PROVE  ListeningInv'
  <2>1. Typed'
    BY <1>3, TypesHold DEF ListeningInv
  <2> QED BY <1>3, <2>1 DEF listenVars, syncVars, ListeningInv, WireOK, SyncOK, LastOK,
        Unspoiled, Airs, Steady, Streams, SteadyOK, SkipsOK, Asking, Answered, Covered, BaseOK,
        InitsOK, MediaOK, SavedOK, ClearAfter, BaseGone, NoInit, Old, SayClears, Clears,
        Told, ShowsAt, Updates
<1> QED BY <1>1, <1>2, <1>3

(* A state at rest in which nothing went wrong is a state in which the client hears. *)
LEMMA InvariantMeansHearing ==
  ListeningInv => RestMeansHearing
<1> SUFFICES ASSUME ListeningInv, Quiet, client.listening, Streams, spoiled = {}
             PROVE  Hears
  BY DEF RestMeansHearing
<1>1. Steady
  BY DEF Quiet, Steady
<1>2. down = <<>> /\ up = <<>> /\ Updates = {} /\ client.starting = "no" /\ room.say = 0
  BY DEF Quiet, Updates
<1>3. SteadyOK /\ Covered
  BY <1>1 DEF ListeningInv, Unspoiled, Airs, Steady, Streams
<1>4. Answered
  BY <1>2, <1>3 DEF SteadyOK, Asking
<1>5. tuned[Client] = latest /\ client.base = latest
  BY <1>2, <1>4 DEF Answered
<1>6. client.fed \in {None, latest}
  <2>1. ~ClearAfter(0)
    BY <1>2 DEF ClearAfter, SayClears
  <2> QED BY <1>3, <2>1 DEF Covered, BaseOK, Old
<1> QED BY <1>5, <1>6 DEF Hears

(* ListeningInv is an invariant of Listening: whatever is lost, late or out of step has been
   noticed in spoiled, and as long as nothing is, what is left of an earlier stream is
   covered and a listener of a steady room has been told, has asked or has been answered. *)
THEOREM ListeningInvariant == ListeningSpec => []ListeningInv
<1>1. ListeningInit => ListeningInv
  BY InvariantHolds
<1>2. ListeningInv /\ [ListeningNext]_listenVars => ListeningInv'
  BY InvariantHolds
<1> QED BY <1>1, <1>2, PTL DEF ListeningSpec

(* The types hold: in particular the retries of onResyncWait never exceed
   MAX_RESYNC_RETRIES, whatever the order of its timers and answers. *)
THEOREM ListeningTypeCorrect == ListeningSpec => []ListeningTypeOK
<1>1. ListeningInv => ListeningTypeOK
  BY TypedIsTypeOK DEF ListeningInv
<1> QED BY <1>1, ListeningInvariant, PTL

(* RestMeansHearing: when nothing is under way between a room that streams and a client that
   listens, the client decodes the newest stream of the room, unless something went wrong
   since it last heard of a new track (useAudio, useRoomSync, usePlaybackState,
   resyncListener). *)
THEOREM RestIsHearing == ListeningSpec => []RestMeansHearing
<1>1. ListeningInv => RestMeansHearing
  BY InvariantMeansHearing
<1> QED BY <1>1, ListeningInvariant, PTL

=============================================================================
