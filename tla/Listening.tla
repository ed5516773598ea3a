------------------------------ MODULE Listening ------------------------------
(***************************************************************************)
(* One listener end to end: what PlayerService tells the room about its    *)
(* streams, the WebSocket between, and the hooks of the web client that    *)
(* fetch the audio (useRoomSync), decode it (useAudio), follow the room    *)
(* (usePlaybackState) and reconnect (useWebSocket).                        *)
(*                                                                         *)
(* Of the audio service only its promise is used, StreamSync, which module *)
(* AudioProofs proves it keeps.  One track is started at a time: what      *)
(* overlapping calls do to a room is the subject of module Player.         *)
(***************************************************************************)
EXTENDS StreamSync, SequencesExt

CONSTANTS Client,      \* the listener
          Track,
          NoTrack,
          MaxResyncs,  \* MAX_RESYNC_RETRIES
          MaxStreams,  \* bound: streams opened
          MaxWire,     \* bound: messages on their way, in each direction
          MaxSay,      \* bound: updates the room has yet to send
          MaxEvents    \* bound: skips, pauses, outages and toggles, together

ASSUME ListeningAssumption ==
  /\ Listener = {Client}
  /\ NoTrack \notin Track
  /\ None \notin Nat
  /\ \A n \in {MaxResyncs, MaxStreams, MaxWire, MaxSay, MaxEvents} : n \in Nat

VARIABLES
  room,     \* the player: what it shows, where it is, what it has yet to send
  conn,     \* the socket is open
  up, down, \* messages of the client and of the server on their way
  client,   \* the hooks of the client
  spoiled,  \* what has happened, since the client last heard of a new track,
            \* that can leave it silent or out of step
  events    \* so far

listenVars == <<syncVars, room, conn, up, down, client, spoiled, events>>

Idle == "idle"
States == {Idle, "preparing", "skipping", "streaming"}
Causes == {"respawn", "again", "outage", "late", "slow", "refused", "gaveUp"}

Shown == [track : Track \cup {NoTrack}, playing : BOOLEAN, state : States]
Message == [kind : {"init", "media"}, stream : 1 .. MaxStreams]
             \cup [kind : {"wait", "skipping"}] \cup [kind : {"playback"}, shows : Shown]

(***************************************************************************)
(* Types.  client.base is the stream whose init segment the client took    *)
(* since it last cleared its buffer (gotInit), client.fed the one whose    *)
(* media it took last since then.                                          *)
(***************************************************************************)
ListeningTypeOK ==
  /\ latest \in 0 .. MaxStreams /\ published \in 1 .. MaxStreams \cup {None}
  /\ tuned \in [Listener -> 1 .. MaxStreams \cup {None}]
  /\ room \in [shown : Shown, airing : BOOLEAN, skip : BOOLEAN, say : 0 .. MaxSay,
               phase : {"rest", "over", "chosen", "saved", "opened"}]
  /\ conn \in BOOLEAN
  /\ up \in Seq({"resync", "off"}) /\ down \in Seq(Message)
  /\ client \in [listening : BOOLEAN, state : States, heard : Track \cup {NoTrack},
                 base : 1 .. MaxStreams \cup {None}, fed : 1 .. MaxStreams \cup {None},
                 buffered : BOOLEAN, clearing : BOOLEAN, removing : BOOLEAN,
                 retries : 0 .. MaxResyncs, timer : BOOLEAN, restore : BOOLEAN,
                 refetch : BOOLEAN, starting : {"no", "yes", "resync"}]
  /\ spoiled \subseteq Causes /\ events \in 0 .. MaxEvents

ListeningInit ==
  /\ SyncInit
  /\ room = [shown |-> [track |-> NoTrack, playing |-> FALSE, state |-> Idle],
             airing |-> FALSE, skip |-> FALSE, say |-> 0, phase |-> "rest"]
  /\ conn = TRUE /\ up = <<>> /\ down = <<>>
  /\ client = [listening |-> FALSE, state |-> Idle, heard |-> NoTrack,
               base |-> None, fed |-> None, buffered |-> FALSE, clearing |-> FALSE,
               removing |-> FALSE, retries |-> 0, timer |-> FALSE,
               restore |-> FALSE, refetch |-> FALSE, starting |-> "no"]
  /\ spoiled = {} /\ events = 0

Spoil(causes) == spoiled' = spoiled \cup causes
Happens == events < MaxEvents /\ events' = events + 1

-----------------------------------------------------------------------------
(* The room.  It sends its updates after a query, and shows what it is then. *)

Tell(m) ==
  IF conn THEN Len(down) < MaxWire /\ down' = Append(down, m) ELSE UNCHANGED down

RoomVars == <<syncVars, room>>
ClientVars == <<client, up, conn>>
RoomOnly == UNCHANGED <<down, ClientVars, events>>

\* The updates on their way, and what the client shows after one.
Updates == {i \in DOMAIN down : down[i].kind = "playback"}
ShownAfter(shows) == IF shows.playing THEN shows.track ELSE NoTrack

\* The client will show t when it comes to message n.
ShowsAt(n, t) ==
  \/ t = client.heard /\ \A i \in Updates : n <= i
  \/ \E i \in Updates :
       i < n /\ t = ShownAfter(down[i].shows) /\ \A j \in Updates : j < n => j <= i

\* ... when it has read everything it was told.
Told(t) == ShowsAt(Len(down) + 1, t)

Says(r, n) == [r EXCEPT !.say = @ + n]
CanSay(n) == room.say + n <= MaxSay
ShowState(r, s) == [r EXCEPT !.shown.state = s]

\* handleTrackChanged and broadcastPlayback.
Say ==
  /\ room.say > 0
  /\ room' = Says(room, -1)
  /\ Tell([kind |-> "playback", shows |-> room.shown])
  /\ UNCHANGED <<syncVars, ClientVars, spoiled, events>>

\* A process that ends keeps its init segment until the next one starts.
StreamEnds ==
  /\ room.phase = "rest" /\ room.airing /\ room.shown.state = "streaming"
  /\ room' = [room EXCEPT !.airing = FALSE, !.phase = "over"]
  /\ RoomOnly /\ UNCHANGED <<syncVars, spoiled>>

\* onTrackEnd: a row is chosen, or nothing plays any more.
NextChosen ==
  /\ room.phase = "over" /\ CanSay(1)
  /\ \/ room' = Says([ShowState(room, "preparing") EXCEPT !.phase = "chosen"], 1)
     \/ room' = Says([room EXCEPT !.phase = "rest",
                        !.shown = [track |-> NoTrack, playing |-> FALSE, state |-> Idle]], 1)
  /\ RoomOnly /\ UNCHANGED <<syncVars, spoiled>>

\* play saves the playback and tells the room that it prepares the track.  The
\* track may be the one the client was told of last.
PlaySave(t) ==
  /\ room.phase \in {"rest", "chosen"} /\ ~room.skip /\ CanSay(1)
  /\ room' = Says([room EXCEPT !.phase = "saved",
                     !.shown = [track |-> t, playing |-> TRUE, state |-> "preparing"]], 1)
  /\ Spoil(IF Told(t) THEN {"again"} ELSE {})
  /\ RoomOnly /\ UNCHANGED syncVars

\* The URL is there and a process starts; a controller that waited for play
\* then sends the state once more.
OpenStream ==
  /\ room.phase = "saved" /\ latest < MaxStreams
  /\ Open
  /\ \E n \in {0, 1} : CanSay(n) /\ room' = Says([room EXCEPT !.phase = "opened",
                                                              !.airing = TRUE], n)
  /\ RoomOnly /\ UNCHANGED spoiled

UrlFails ==
  /\ room.phase = "saved"
  /\ room' = [ShowState(room, Idle) EXCEPT !.phase = "over"]
  /\ RoomOnly /\ UNCHANGED <<syncVars, spoiled>>

HeaderRead ==
  /\ room.phase = "opened"
  /\ Publish
  /\ RoomOnly /\ UNCHANGED <<room, spoiled>>

\* onStart, before the first chunk is sent.
Started ==
  /\ room.phase = "opened" /\ published = latest /\ CanSay(1)
  /\ room' = Says([ShowState(room, "streaming") EXCEPT !.phase = "rest"], 1)
  /\ RoomOnly /\ UNCHANGED <<syncVars, spoiled>>

\* The process crashes and another one takes its place, for the same track.
Respawn ==
  /\ room.phase = "rest" /\ room.airing /\ room.shown.state = "streaming"
  /\ ~room.skip /\ latest < MaxStreams
  /\ Open
  /\ room' = [room EXCEPT !.phase = "opened"]
  /\ Spoil({"respawn"})
  /\ RoomOnly

Media ==
  /\ conn /\ room.airing /\ tuned[Client] # None
  /\ LET m == [kind |-> "media", stream |-> tuned[Client]]
     IN /\ \A i \in DOMAIN down : i = Len(down) => down[i] # m
        /\ Tell(m)
  /\ UNCHANGED <<RoomVars, ClientVars, spoiled, events>>

\* A skip is announced before it is allowed, ...
SkipAsked ==
  /\ Happens
  /\ ~room.skip /\ room.phase = "rest" /\ room.shown.state = "streaming"
  /\ room' = [room EXCEPT !.skip = TRUE]
  /\ Tell([kind |-> "skipping"])
  /\ UNCHANGED <<syncVars, ClientVars, spoiled>>

\* ... and refused two queries later, ...
SkipRefused ==
  /\ room.skip
  /\ room' = [room EXCEPT !.skip = FALSE]
  /\ Spoil({"refused"})
  /\ RoomOnly /\ UNCHANGED syncVars

\* ... or carried out.
SkipDone ==
  /\ room.skip /\ room.phase = "rest" /\ CanSay(1)
  /\ Cut
  /\ room' = Says([ShowState(room, "skipping") EXCEPT !.skip = FALSE, !.airing = FALSE,
                                                      !.phase = "over"], 1)
  /\ RoomOnly /\ UNCHANGED spoiled

PauseOrResume ==
  /\ Happens
  /\ room.phase = "rest" /\ room.shown.state = "streaming" /\ ~room.skip /\ CanSay(1)
  /\ room' = Says([room EXCEPT !.airing = ~@, !.shown.playing = ~room.airing], 1)
  /\ UNCHANGED <<syncVars, down, ClientVars, spoiled>>

\* resyncListener sends the init segment, or has the client ask again.
ResyncAnswer ==
  \/ /\ published # None
     /\ Tune(Client)
     /\ Tell([kind |-> "init", stream |-> published])
  \/ /\ published = None /\ ~room.airing
     /\ UNCHANGED <<syncVars, down>>
  \/ /\ published = None /\ room.airing
     /\ Detune(Client)
     /\ Tell([kind |-> "wait"])

\* The init segment of a stream that is about to be replaced.
Late == published # None /\ (room.skip \/ room.phase \in {"over", "chosen", "saved"})

ServerReceives ==
  /\ up # <<>>
  /\ up' = Tail(up)
  /\ \/ /\ Head(up) = "resync"
        /\ ResyncAnswer
        /\ Spoil(IF Late THEN {"late"} ELSE {})
     \/ /\ Head(up) = "off"
        /\ Detune(Client)
        /\ UNCHANGED <<down, spoiled>>
  /\ UNCHANGED <<room, conn, client, events>>

-----------------------------------------------------------------------------
(* The client *)

Send(m) == IF conn THEN Len(up) < MaxWire /\ up' = Append(up, m) ELSE UNCHANGED up

\* clearBuffer drops what waits, and removes what was appended; a removal that
\* is under way makes it throw, and give up waiting.
Cleared(c) ==
  [c EXCEPT !.base = None, !.fed = None,
            !.clearing = c.buffered /\ ~c.removing,
            !.removing = c.buffered \/ c.removing]

\* updateend, of the removal or of an append that clearBuffer aborted.
UpdateEnd ==
  /\ client.removing
  /\ \/ client' = [client EXCEPT !.clearing = FALSE, !.removing = FALSE, !.buffered = FALSE]
     \/ client.clearing /\ client' = [client EXCEPT !.clearing = FALSE]
  /\ UNCHANGED <<RoomVars, conn, up, down, spoiled, events>>

Prepared(c) == IF c.listening THEN Cleared(c) ELSE c
Asked(c) == [c EXCEPT !.retries = 0, !.timer = FALSE]

\* pushFrame.
InitTaken(c, s) ==
  IF c.listening /\ ~c.clearing /\ c.base = None THEN [c EXCEPT !.base = s] ELSE c
MediaTaken(c, s) ==
  IF c.listening /\ ~c.clearing /\ c.base # None
    THEN [c EXCEPT !.fed = s, !.buffered = @ \/ ~c.removing] ELSE c

HearFrame(m) ==
  \/ /\ m.kind = "init"
     /\ client' = InitTaken(client, m.stream)
     /\ Spoil(IF client.listening /\ client.clearing THEN {"slow"} ELSE {})
  \/ /\ m.kind = "media"
     /\ client' = MediaTaken(client, m.stream)
     /\ UNCHANGED spoiled

\* Mutant of HearWait: retries are not limited.
HearWaitAlways(m) ==
  /\ m.kind = "wait"
  /\ client' = [client EXCEPT !.timer = TRUE, !.retries = @ + 1]
  /\ UNCHANGED spoiled

\* onResyncWait.
HearWait(m) ==
  /\ m.kind = "wait"
  /\ LET again == client.retries < MaxResyncs
     IN /\ client' = [client EXCEPT !.timer = again,
                                    !.retries = IF again THEN @ + 1 ELSE @]
        /\ Spoil(IF again THEN {} ELSE {"gaveUp"})

HearSkipping(m) ==
  /\ m.kind = "skipping"
  /\ client' = Prepared([client EXCEPT !.state = "skipping"])
  /\ UNCHANGED spoiled

\* Mutant of Followed: the buffer is kept when the track changes.
FollowedUncleared(c, shows) ==
  IF shows.track = c.heard THEN c
  ELSE [c EXCEPT !.heard = shows.track, !.state = "preparing"]

\* handlePlayback: a new track is prepared for, ...
Followed(c, shows) ==
  IF shows.track = c.heard THEN c
  ELSE Prepared([c EXCEPT !.heard = shows.track, !.state = "preparing"])

\* No answer to the client is on its way, and no skip.
NothingOld ==
  up = <<>> /\ \A i \in 2 .. Len(down) : down[i].kind \notin {"init", "wait", "skipping"}

\* ... and a stream that runs is asked for.  Stopped, the room shows no track.
HearPlayback(m) ==
  /\ m.kind = "playback"
  /\ LET shows == m.shows
         followed == Followed(client, shows)
         asks == client.listening /\ shows.playing /\ shows.state = "streaming"
         now == IF shows.playing THEN [followed EXCEPT !.state = shows.state]
                ELSE [followed EXCEPT !.state = Idle, !.heard = NoTrack]
     IN /\ client' = IF asks THEN Asked(now) ELSE now
        /\ IF asks THEN Send("resync") ELSE UNCHANGED up
        /\ spoiled' = IF client.listening /\ shows.track # client.heard /\ NothingOld
                        THEN {} ELSE spoiled

ClientReceives ==
  /\ down # <<>>
  /\ down' = Tail(down)
  /\ LET m == Head(down)
     IN \/ (HearFrame(m) \/ HearWait(m) \/ HearSkipping(m)) /\ UNCHANGED up
        \/ HearPlayback(m)
  /\ UNCHANGED <<RoomVars, conn, events>>

ClientOnly == UNCHANGED <<RoomVars, conn, down, spoiled>>

\* The timer of onResyncWait, and that of a reconnection.
TimerFires ==
  /\ client.timer
  /\ client' = [client EXCEPT !.timer = FALSE]
  /\ Send("resync")
  /\ ClientOnly /\ UNCHANGED events

Restore ==
  /\ client.restore
  /\ client' = Asked([client EXCEPT !.restore = FALSE])
  /\ Send("resync")
  /\ ClientOnly /\ UNCHANGED events

\* onListenToggle: init clears the buffer and is awaited, then the stream is
\* asked for if it was running when the user clicked.
ListenOn ==
  /\ Happens
  /\ ~client.listening /\ client.starting = "no"
  /\ client' = Cleared([client EXCEPT !.listening = TRUE,
                          !.starting = IF client.state = "streaming" THEN "resync" ELSE "yes"])
  /\ ClientOnly /\ UNCHANGED up

ListenStarted ==
  /\ client.starting # "no" /\ ~client.clearing
  /\ LET c == [client EXCEPT !.starting = "no"]
     IN IF client.starting = "resync" THEN client' = Asked(c) /\ Send("resync")
                                      ELSE client' = c /\ UNCHANGED up
  /\ ClientOnly /\ UNCHANGED events

ListenOff ==
  /\ Happens
  /\ client.listening
  /\ client' = [client EXCEPT !.listening = FALSE]
  /\ Send("off")
  /\ ClientOnly

\* The connection is lost with all that is on its way; the server drops the
\* listener.
Lost ==
  /\ Happens
  /\ conn /\ conn' = FALSE
  /\ up' = <<>> /\ down' = <<>>
  /\ Detune(Client)
  /\ Spoil({"outage"})
  /\ UNCHANGED <<room, client>>

\* onopen: the state is fetched again, and a listener asks for the stream
\* a moment later.
Reconnected ==
  /\ ~conn /\ conn' = TRUE
  /\ client' = [client EXCEPT !.refetch = TRUE, !.restore = @ \/ client.listening]
  /\ UNCHANGED <<RoomVars, up, down, spoiled, events>>

\* The state that was fetched is shown; the buffer is left alone.
Refetched ==
  /\ client.refetch
  /\ client' = IF room.shown.playing
                 THEN [client EXCEPT !.refetch = FALSE, !.heard = room.shown.track,
                                     !.state = room.shown.state]
                 ELSE [client EXCEPT !.refetch = FALSE]
  /\ Spoil(IF client'.heard # client.heard THEN {"outage"} ELSE {})
  /\ UNCHANGED <<RoomVars, conn, up, down, events>>

-----------------------------------------------------------------------------
RoomStep ==
  \/ Say \/ StreamEnds \/ NextChosen \/ OpenStream \/ UrlFails \/ HeaderRead \/ Started
  \/ Respawn \/ Media \/ SkipAsked \/ SkipRefused \/ SkipDone \/ PauseOrResume
  \/ \E t \in Track : PlaySave(t)

ClientStep ==
  \/ UpdateEnd \/ TimerFires \/ Restore \/ ListenOn \/ ListenStarted \/ ListenOff
  \/ Lost \/ Reconnected \/ Refetched

ListeningNext == RoomStep \/ ServerReceives \/ ClientReceives \/ ClientStep
ListeningSpec == ListeningInit /\ [][ListeningNext]_listenVars

-----------------------------------------------------------------------------
(* Properties *)

\* Nothing is under way: no message, timer, query or decoder is waited for.
Quiet ==
  /\ room.phase = "rest" /\ ~room.skip /\ room.say = 0
  /\ conn /\ up = <<>> /\ down = <<>>
  /\ ~client.timer /\ ~client.restore /\ ~client.refetch
  /\ client.starting = "no" /\ ~client.removing

Streams == room.airing /\ room.shown.playing /\ room.shown.state = "streaming"
Hears == tuned[Client] = latest /\ client.base = latest /\ client.fed \in {None, latest}

(***************************************************************************)
(* At rest a listening client hears the stream of the room, whatever went  *)
(* wrong before the last change of the track it has heard of.              *)
(***************************************************************************)
RestMeansHearing ==
  Quiet /\ client.listening /\ Streams => spoiled # {} \/ Hears

(***************************************************************************)
(* "Subsequent chunks → real-time broadcast", "Client: append to MSE       *)
(* SourceBuffer" (docs/architecture.md:39): whoever listens is sent the    *)
(* stream and appends it, when no connection, process or timer failed.     *)
(***************************************************************************)
ChunksAreAppended ==
  Quiet /\ client.listening /\ Streams => spoiled \ {"refused"} # {} \/ Hears

=============================================================================
