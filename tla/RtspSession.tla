----------------------------- MODULE RtspSession -----------------------------
(***************************************************************************)
(* One RTSP connection (librtmp/rtsp_server.go, rtsp_ingest.go).  Three     *)
(* kinds of goroutines share the session without a lock:                    *)
(*                                                                          *)
(*   - the control goroutine: run, which dispatches requests, and inside a  *)
(*     RECORD runIngestLoop, which dispatches requests in turn;             *)
(*   - stream loops, one per PLAY that found no other playing;              *)
(*   - UDP readers, one per track of a RECORD that uses UDP.                *)
(*                                                                          *)
(* Other publishers list a room under a name and close it (StreamRegistry   *)
(* says how); here that is one step each.  An RTP socket and its RTCP socket*)
(* are one pair.  A nil dereference in any goroutine ends the process.      *)
(***************************************************************************)
EXTENDS Integers, FiniteSets

CONSTANTS
    Streams,        \* names of streams
    NoStream,       \* no name
    Transports,     \* the transports the client asks for, per track
    Client,         \* "inOrder": asks in the order of RFC 2326, each thing once;
                    \* "oneRole": plays or records, in any order; "any": does both
    MaxRooms,       \* bound on the rooms of all streams
    MaxSocks,       \* bound on the socket pairs opened
    MaxDepth,       \* bound on RECORDs inside a RECORD
    MaxLoops,       \* bound on stream loops that run together
    MaxReaders      \* bound on UDP readers

Tracks == {"video", "audio"}
Urls == Tracks \cup {"other"}       \* "other" names no track

ASSUME RtspAssumption ==
    /\ NoStream \notin Streams
    /\ Transports \in [Urls -> SUBSET {"tcp", "udp"}]
    /\ Client \in {"inOrder", "oneRole", "any"}
    /\ MaxRooms \in Nat /\ MaxSocks \in Nat /\ MaxDepth \in Nat \ {0}
    /\ MaxLoops \in Nat \ {0} /\ MaxReaders \in Nat

VARIABLES
    ctl,        \* where the control goroutine stands
    depth,      \* calls of runIngestLoop under way
    hand,       \* the request in hand: its track, socket pair and room
    client,     \* the client is there
    stream,     \* streamID
    announced,  \* publishRTMP and ingest are set
    room,       \* publishRTMP.room, 0 for nil
    roomID,     \* the name it has
    chan,       \* videoChan, audioChan
    ingestChan, \* ingest.videoCh, audioCh
    packer,     \* videoRTP, audioRTP are set
    slot,       \* videoUDP, audioUDP: a socket pair, 0 for nil
    open,       \* socket pairs that are open
    nSocks,     \* socket pairs opened so far
    playing,
    recording,
    loops,      \* stream loops
    readers,    \* UDP readers
    listed,     \* App.rooms: the room listed under each name, 0 for none
    nRooms,     \* rooms created so far
    closed,     \* rooms that are closed
    mine,       \* rooms created by ANNOUNCE
    started,    \* which of "play" and "record" was accepted
    panicked

sessionVars == <<stream, announced, room, roomID, chan, ingestChan, packer>>
sockVars == <<slot, open, nSocks>>
roomVars == <<listed, nRooms, closed, mine>>
vars == <<ctl, depth, hand, client, sessionVars, sockVars, playing, recording, loops,
          readers, roomVars, started, panicked>>

LoopIds == 1 .. MaxLoops
ReaderIds == 1 .. MaxReaders
NoHand == [track |-> "video", sock |-> 0, room |-> 0]
NoLoop == [pc |-> "none", room |-> 0, track |-> "video"]
NoReader == [pc |-> "none", track |-> "video", sock |-> 0]

LoopPcs == {"none", "begin", "check", "read", "send", "end"}
Loops == [pc : LoopPcs, room : 0 .. MaxRooms, track : Tracks]
ReaderPcs == {"none", "check", "recv", "handle"}
Readers == [pc : ReaderPcs, track : Tracks, sock : 0 .. MaxSocks]

TypeOK ==
    /\ ctl \in {"read", "packer", "slot", "play", "cleanup", "sockets", "flag", "ended"}
    /\ depth \in 0 .. MaxDepth /\ (ctl = "ended" => depth = 0)
    /\ hand \in [track : Tracks, sock : 0 .. MaxSocks, room : 0 .. MaxRooms]
    /\ client \in BOOLEAN /\ announced \in BOOLEAN
    /\ stream \in Streams \cup {NoStream} /\ roomID \in Streams \cup {NoStream}
    /\ room \in 0 .. MaxRooms
    /\ chan \in [Tracks -> {-1, 0, 2}] /\ ingestChan \in [Tracks -> {-1, 0, 2}]
    /\ packer \in [Tracks -> BOOLEAN]
    /\ slot \in [Tracks -> 0 .. MaxSocks]
    /\ nSocks \in 0 .. MaxSocks /\ open \subseteq 1 .. nSocks
    /\ playing \in BOOLEAN /\ recording \in BOOLEAN
    /\ loops \in [LoopIds -> Loops]
    /\ readers \in [ReaderIds -> Readers]
    /\ nRooms \in 0 .. MaxRooms /\ listed \in [Streams -> 0 .. nRooms]
    /\ closed \subseteq 1 .. nRooms /\ mine \subseteq 1 .. nRooms
    /\ started \subseteq {"play", "record"} /\ panicked \in BOOLEAN

Init ==
    /\ ctl = "read"
    /\ depth = 0
    /\ hand = NoHand
    /\ client = TRUE
    /\ stream = NoStream
    /\ announced = FALSE
    /\ room = 0
    /\ roomID = NoStream
    /\ chan = [t \in Tracks |-> -1]
    /\ ingestChan = [t \in Tracks |-> -1]
    /\ packer = [t \in Tracks |-> FALSE]
    /\ slot = [t \in Tracks |-> 0]
    /\ open = {}
    /\ nSocks = 0
    /\ playing = FALSE
    /\ recording = FALSE
    /\ loops = [l \in LoopIds |-> NoLoop]
    /\ readers = [r \in ReaderIds |-> NoReader]
    /\ listed = [s \in Streams |-> 0]
    /\ nRooms = 0
    /\ closed = {}
    /\ mine = {}
    /\ started = {}
    /\ panicked = FALSE

Running == {l \in LoopIds : loops[l].pc # "none"}
Reading == {r \in ReaderIds : readers[r].pc # "none"}

-----------------------------------------------------------------------------
(* The control goroutine.  A request is read by run or by runIngestLoop.       *)

Asks == ctl = "read" /\ client /\ ~panicked
Ctl(at) == ctl = at /\ ~panicked
OneRole == Client # "any"
InOrder == Client = "inOrder"

\* dispatch answers nil: runIngestLoop returns through its deferred functions,
\* run returns and closes the connection.
Return(d) == IF d = 0 THEN "ended" ELSE "cleanup"

\* DESCRIBE remembers the stream it found.
Describe(s) ==
    /\ Asks
    /\ OneRole => ~announced
    /\ listed[s] # 0
    /\ stream' = s
    /\ UNCHANGED <<ctl, depth, hand, client, announced, room, roomID, chan, ingestChan, packer,
                   sockVars, playing, recording, loops, readers, roomVars, started, panicked>>

\* ANNOUNCE lists a room of a pseudo-publisher.  All it asks is that the name is
\* free: an earlier pseudo-publisher, of another name, is forgotten, in the
\* ingest loop too.
Announce(s) ==
    /\ Asks
    /\ OneRole => announced \/ stream = NoStream
    /\ InOrder => ~announced
    /\ listed[s] = 0
    /\ nRooms < MaxRooms
    /\ nRooms' = nRooms + 1
    /\ listed' = [listed EXCEPT ![s] = nRooms']
    /\ mine' = mine \cup {nRooms'}
    /\ room' = nRooms'
    /\ roomID' = s
    /\ stream' = s
    /\ announced' = TRUE
    /\ ingestChan' = [t \in Tracks |-> -1]
    /\ UNCHANGED <<ctl, depth, hand, client, chan, packer, sockVars, playing, recording,
                   loops, readers, closed, started, panicked>>

\* The channel of a track: the client's choice by TCP, zero by UDP.
RtpCh(t, transport) == IF transport = "tcp" /\ t = "audio" THEN 2 ELSE 0

\* SETUP opens a socket pair before it asks which track the URL names, and keeps
\* it when that is none (404).  ingest, or the channel of the track, is set.
Setup(url, transport) ==
    LET sock == IF transport = "udp" THEN nSocks + 1 ELSE 0
    IN  /\ Asks
        /\ InOrder => /\ stream # NoStream /\ started = {} /\ url # "other"
                      /\ chan[url] = -1 /\ ingestChan[url] = -1
        /\ sock <= MaxSocks
        /\ IF sock = 0
           THEN UNCHANGED <<nSocks, open>>
           ELSE nSocks' = sock /\ open' = open \cup {sock}
        /\ \/ /\ url = "other"
              /\ UNCHANGED <<ctl, hand, chan, ingestChan>>
           \/ /\ url # "other" /\ announced
              /\ ingestChan' = [ingestChan EXCEPT ![url] = RtpCh(url, transport)]
              /\ hand' = [NoHand EXCEPT !.track = url, !.sock = sock]
              /\ ctl' = "slot"
              /\ UNCHANGED chan
           \/ /\ url # "other" /\ ~announced
              /\ chan' = [chan EXCEPT ![url] = RtpCh(url, transport)]
              /\ hand' = [NoHand EXCEPT !.track = url, !.sock = sock]
              /\ ctl' = "packer"
              /\ UNCHANGED ingestChan
        /\ UNCHANGED <<depth, client, stream, announced, room, roomID, packer, slot, playing,
                       recording, loops, readers, roomVars, started, panicked>>

\* SETUP goes on: the packer of a track that is played.
SetupPacker ==
    /\ Ctl("packer")
    /\ packer' = [packer EXCEPT ![hand.track] = TRUE]
    /\ ctl' = "slot"
    /\ UNCHANGED <<depth, hand, client, stream, announced, room, roomID, chan, ingestChan, sockVars,
                   playing, recording, loops, readers, roomVars, started, panicked>>

\* SETUP ends: the sockets of the track, by UDP only.
SetupSlot ==
    /\ Ctl("slot")
    /\ slot' = IF hand.sock = 0 THEN slot ELSE [slot EXCEPT ![hand.track] = hand.sock]
    /\ hand' = NoHand
    /\ ctl' = "read"
    /\ UNCHANGED <<depth, client, sessionVars, open, nSocks, playing, recording, loops,
                   readers, roomVars, started, panicked>>

\* PLAY looks the room up.
PlayLoad ==
    /\ Asks
    /\ OneRole => ~announced
    /\ InOrder => \E t \in Tracks : chan[t] # -1
    /\ stream # NoStream
    /\ listed[stream] # 0
    /\ hand' = [NoHand EXCEPT !.room = listed[stream]]
    /\ ctl' = "play"
    /\ UNCHANGED <<depth, client, sessionVars, sockVars, playing, recording, loops, readers,
                   roomVars, started, panicked>>

\* Mutant of PlayStart: no compare-and-swap, each PLAY starts a loop.
PlayStartAlways ==
    /\ Ctl("play")
    /\ \E l \in LoopIds \ Running :
          loops' = [loops EXCEPT ![l] = [NoLoop EXCEPT !.pc = "begin", !.room = hand.room]]
    /\ playing' = TRUE
    /\ started' = started \cup {"play"}
    /\ hand' = NoHand
    /\ ctl' = "read"
    /\ UNCHANGED <<depth, client, sessionVars, sockVars, recording, readers, roomVars, panicked>>

\* PLAY starts a stream loop unless one is playing.
PlayStart ==
    /\ Ctl("play")
    /\ IF playing
       THEN UNCHANGED <<playing, loops>>
       ELSE /\ playing' = TRUE
            /\ \E l \in LoopIds \ Running :
                  loops' = [loops EXCEPT ![l] = [NoLoop EXCEPT !.pc = "begin",
                                                               !.room = hand.room]]
    /\ started' = started \cup {"play"}
    /\ hand' = NoHand
    /\ ctl' = "read"
    /\ UNCHANGED <<depth, client, sessionVars, sockVars, recording, readers, roomVars, panicked>>

\* RECORD starts a reader for each track that has a socket and enters the
\* ingest loop.
Record ==
    /\ Asks
    /\ InOrder => started = {} /\ \E t \in Tracks : ingestChan[t] # -1
    /\ announced
    /\ depth < MaxDepth
    /\ \E new \in [{t \in Tracks : slot[t] # 0} -> ReaderIds \ Reading] :
          /\ \A t, u \in DOMAIN new : new[t] = new[u] => t = u
          /\ readers' = [r \in ReaderIds |->
                            IF \E t \in DOMAIN new : new[t] = r
                            THEN LET t == CHOOSE t \in DOMAIN new : new[t] = r
                                 IN  [pc |-> "check", track |-> t, sock |-> slot[t]]
                            ELSE readers[r]]
    /\ recording' = TRUE
    /\ started' = started \cup {"record"}
    /\ depth' = depth + 1
    /\ UNCHANGED <<ctl, hand, client, sessionVars, sockVars, playing, loops, roomVars, panicked>>

\* The answer to RECORD cannot be written.
RecordFails ==
    /\ Ctl("read") /\ ~client
    /\ announced
    /\ ctl' = Return(depth)
    /\ UNCHANGED <<depth, hand, client, sessionVars, sockVars, playing, recording, loops,
                   readers, roomVars, started, panicked>>

\* An interleaved frame in the ingest loop is written to the room.
Interleaved(t) ==
    /\ Asks
    /\ depth > 0
    /\ ingestChan[t] # -1
    /\ panicked' = (room = 0)
    /\ UNCHANGED <<ctl, depth, hand, client, sessionVars, sockVars, playing, recording,
                   loops, readers, roomVars, started>>

Teardown ==
    /\ Asks
    /\ playing' = FALSE
    /\ ctl' = Return(depth)
    /\ UNCHANGED <<depth, hand, client, sessionVars, sockVars, recording, loops, readers,
                   roomVars, started, panicked>>

\* Mutant of ReadError: the end of the connection ends the goroutine at once.
ReadErrorEnds ==
    /\ Ctl("read") /\ ~client
    /\ ctl' = "ended"
    /\ UNCHANGED <<depth, hand, client, sessionVars, sockVars, playing, recording, loops,
                   readers, roomVars, started, panicked>>

ReadError ==
    /\ Ctl("read") /\ ~client
    /\ ctl' = Return(depth)
    /\ UNCHANGED <<depth, hand, client, sessionVars, sockVars, playing, recording, loops,
                   readers, roomVars, started, panicked>>

\* The deferred functions of runIngestLoop: RTMP.cleanup of the pseudo-publisher,
Cleanup ==
    /\ Ctl("cleanup")
    /\ IF room = 0
       THEN UNCHANGED <<listed, closed, room>>
       ELSE /\ listed' = [listed EXCEPT ![roomID] = 0]
            /\ closed' = closed \cup {room}
            /\ room' = 0
    /\ ctl' = "sockets"
    /\ UNCHANGED <<depth, hand, client, stream, announced, roomID, chan, ingestChan, packer, sockVars,
                   playing, recording, loops, readers, nRooms, mine, started, panicked>>

\* Mutant of CloseSockets: the socket of the audio track is forgotten.
CloseVideoSocket ==
    /\ Ctl("sockets")
    /\ open' = open \ {slot["video"]}
    /\ ctl' = "flag"
    /\ UNCHANGED <<depth, hand, client, sessionVars, slot, nSocks, playing, recording, loops,
                   readers, roomVars, started, panicked>>

\* then the sockets,
CloseSockets ==
    /\ Ctl("sockets")
    /\ open' = open \ {slot[t] : t \in Tracks}
    /\ ctl' = "flag"
    /\ UNCHANGED <<depth, hand, client, sessionVars, slot, nSocks, playing, recording, loops,
                   readers, roomVars, started, panicked>>

\* then recording; the caller, an outer ingest loop or run, returns as well.
StopRecording ==
    /\ Ctl("flag")
    /\ recording' = FALSE
    /\ depth' = depth - 1
    /\ ctl' = Return(depth - 1)
    /\ UNCHANGED <<hand, client, sessionVars, sockVars, playing, loops, readers, roomVars,
                   started, panicked>>

-----------------------------------------------------------------------------
(* A stream loop. *)

At(l, at) == loops[l].pc = at /\ ~panicked
GoTo(l, at) == loops' = [loops EXCEPT ![l].pc = at]

\* writeInterleaved finds the socket by the channel of the packet.
Via(t) ==
    IF chan[t] = chan["video"] /\ slot["video"] # 0 THEN "video"
    ELSE IF chan[t] = chan["audio"] /\ slot["audio"] # 0 THEN "audio"
    ELSE "tcp"

\* A write by UDP fails once the socket is closed; one to the connection fails
\* when it is closed on this side and may fail when the client is gone.
Writes(via) ==
    IF via = "tcp" THEN {ok \in BOOLEAN : IF ok THEN ctl # "ended" ELSE ctl = "ended" \/ ~client}
    ELSE {slot[via] \in open}

\* A packet of track t: Pack and writeInterleaved.  The loop goes on at ok or bad.
SendPacket(l, t, onError) ==
    IF ~packer[t]
    THEN panicked' = TRUE /\ UNCHANGED loops
    ELSE /\ \E ok \in Writes(Via(t)) : GoTo(l, IF ok THEN "check" ELSE onError)
         /\ UNCHANGED panicked

\* The cached video header goes first; an error is not looked at.
LoopBegin(l) ==
    /\ At(l, "begin")
    /\ \/ GoTo(l, "check") /\ UNCHANGED panicked
       \/ chan["video"] # -1 /\ SendPacket(l, "video", "check")
    /\ UNCHANGED <<ctl, depth, hand, client, sessionVars, sockVars, playing, recording,
                   readers, roomVars, started>>

LoopCheck(l) ==
    /\ At(l, "check")
    /\ GoTo(l, IF playing THEN "read" ELSE "end")
    /\ UNCHANGED <<ctl, depth, hand, client, sessionVars, sockVars, playing, recording,
                   readers, roomVars, started, panicked>>

\* Read answers a tag of the room, or that the room is closed.
LoopTag(l, t) ==
    /\ At(l, "read")
    /\ loops[l].room \notin closed
    /\ loops' = [loops EXCEPT ![l].pc = IF chan[t] = -1 THEN "check" ELSE "send", ![l].track = t]
    /\ UNCHANGED <<ctl, depth, hand, client, sessionVars, sockVars, playing, recording,
                   readers, roomVars, started, panicked>>

LoopDead(l) ==
    /\ At(l, "read")
    /\ loops[l].room \in closed
    /\ GoTo(l, "end")
    /\ UNCHANGED <<ctl, depth, hand, client, sessionVars, sockVars, playing, recording,
                   readers, roomVars, started, panicked>>

LoopSend(l) ==
    /\ At(l, "send")
    /\ SendPacket(l, loops[l].track, "end")
    /\ UNCHANGED <<ctl, depth, hand, client, sessionVars, sockVars, playing, recording,
                   readers, roomVars, started>>

\* Mutant of LoopEnd: playing stays set.
LoopEndQuietly(l) ==
    /\ At(l, "end")
    /\ loops' = [loops EXCEPT ![l] = NoLoop]
    /\ UNCHANGED <<ctl, depth, hand, client, sessionVars, sockVars, playing, recording,
                   readers, roomVars, started, panicked>>

\* The deferred function of streamLoop.
LoopEnd(l) ==
    /\ At(l, "end")
    /\ playing' = FALSE
    /\ loops' = [loops EXCEPT ![l] = NoLoop]
    /\ UNCHANGED <<ctl, depth, hand, client, sessionVars, sockVars, recording,
                   readers, roomVars, started, panicked>>

-----------------------------------------------------------------------------
(* A UDP reader. *)

ReaderAt(r, at) == readers[r].pc = at /\ ~panicked
ReaderGoes(r, at) ==
    /\ readers' = [readers EXCEPT ![r] = IF at = "none" THEN NoReader ELSE [@ EXCEPT !.pc = at]]
    /\ UNCHANGED <<ctl, depth, hand, client, sessionVars, sockVars, playing, recording,
                   loops, roomVars, started>>

ReaderCheck(r) ==
    /\ ReaderAt(r, "check")
    /\ ReaderGoes(r, IF recording THEN "recv" ELSE "none")
    /\ UNCHANGED panicked

ReaderPacket(r) ==
    /\ ReaderAt(r, "recv")
    /\ readers[r].sock \in open
    /\ ReaderGoes(r, "handle")
    /\ UNCHANGED panicked

ReaderError(r) ==
    /\ ReaderAt(r, "recv")
    /\ readers[r].sock \notin open
    /\ ReaderGoes(r, "none")
    /\ UNCHANGED panicked

\* The packet goes to publishRTMP.room.
ReaderHandle(r) ==
    /\ ReaderAt(r, "handle")
    /\ panicked' = (room = 0)
    /\ ReaderGoes(r, "check")

-----------------------------------------------------------------------------
(* Clients and other publishers. *)

ClientGone ==
    /\ client /\ ~panicked
    /\ client' = FALSE
    /\ UNCHANGED <<ctl, depth, hand, sessionVars, sockVars, playing, recording, loops,
                   readers, roomVars, started, panicked>>

OtherPublishes(s) ==
    /\ listed[s] = 0 /\ ~panicked
    /\ nRooms < MaxRooms
    /\ nRooms' = nRooms + 1
    /\ listed' = [listed EXCEPT ![s] = nRooms']
    /\ UNCHANGED <<ctl, depth, hand, client, sessionVars, sockVars, playing, recording, loops,
                   readers, closed, mine, started, panicked>>

OtherLeaves(s) ==
    /\ listed[s] # 0 /\ listed[s] \notin mine /\ ~panicked
    /\ listed' = [listed EXCEPT ![s] = 0]
    /\ closed' = closed \cup {listed[s]}
    /\ UNCHANGED <<ctl, depth, hand, client, sessionVars, sockVars, playing, recording, loops,
                   readers, nRooms, mine, started, panicked>>

-----------------------------------------------------------------------------
\* What the control goroutine does without waiting for the client.
Control ==
    \/ SetupPacker \/ SetupSlot \/ PlayStart
    \/ ReadError \/ Cleanup \/ CloseSockets \/ StopRecording

Requests ==
    \/ \E s \in Streams : Describe(s) \/ Announce(s)
    \/ PlayLoad \/ Record \/ RecordFails \/ Teardown
    \/ \E url \in Urls : \E transport \in Transports[url] : Setup(url, transport)
    \/ \E t \in Tracks : Interleaved(t)

StreamLoop(l) == LoopBegin(l) \/ LoopCheck(l) \/ LoopDead(l) \/ LoopSend(l) \/ LoopEnd(l)

UDPReader(r) == ReaderCheck(r) \/ ReaderError(r) \/ ReaderHandle(r)

Next ==
    \/ Control \/ Requests
    \/ \E l \in LoopIds : StreamLoop(l) \/ \E t \in Tracks : LoopTag(l, t)
    \/ \E r \in ReaderIds : UDPReader(r) \/ ReaderPacket(r)
    \/ ClientGone
    \/ \E s \in Streams : OtherPublishes(s) \/ OtherLeaves(s)

Spec == Init /\ [][Next]_vars

(* Each goroutine runs on; requests, tags and packets are the others'.         *)
FairSpec ==
    /\ Spec
    /\ WF_vars(Control)
    /\ \A l \in LoopIds : WF_vars(StreamLoop(l))
    /\ \A r \in ReaderIds : WF_vars(UDPReader(r))

-----------------------------------------------------------------------------
(* What should hold. *)

(* However PLAYs, TEARDOWNs and the publisher's coming and going interleave,   *)
(* two stream loops never write to one session (handlePlay's compare-and-swap  *)
(* against streamLoop's deferred store).                                       *)
OneStreamLoop == Cardinality(Running) <= 1

(* playing is never left set behind a loop that ended, which would answer all  *)
(* later PLAYs with 200 and send nothing.                                      *)
PlayingHasLoop == playing => Running # {}

(* However a session that recorded ended, RECORDs nested and streams announced *)
(* in the ingest loop included: the room it announced last is closed and under *)
(* no name, and the sockets that its tracks have are closed (the deferred      *)
(* functions of runIngestLoop, rtsp_ingest.go:147-163).  That is the only room *)
(* of a client that announces once; of another, see EveryRoomReleased.         *)
IngestReleases ==
    ctl = "ended" /\ "record" \in started =>
        /\ \A r \in mine : (\A q \in mine : q <= r) =>
              r \in closed /\ \A s \in Streams : listed[s] # r
        /\ \A t \in Tracks : slot[t] \notin open

(* A stream loop ends with its room, the session being over or not; the UDP    *)
(* readers end with the session: they are woken by the closing of their        *)
(* socket, unless a later SETUP took its slot.                                 *)
GoroutinesEnd ==
    /\ \A l \in LoopIds :
           loops[l].pc # "none" /\ loops[l].room \in closed /\ ~panicked
               ~> loops[l].pc = "none" \/ panicked
    /\ \A r \in ReaderIds :
           ctl = "ended" /\ readers[r].sock \in {slot[t] : t \in Tracks} /\ ~panicked
               ~> readers[r].pc = "none" \/ panicked

(* "UDP: pick the matching per-track socket" (rtsp_server.go:536): a packet    *)
(* goes to the socket of its own track or into the connection.                 *)
SentOnOwnTrack ==
    \A l \in Running :
        loops[l].pc = "send" => Via(loops[l].track) \in {loops[l].track, "tcp"}

(* The room cleanup of a pseudo-publisher "works the same as for real RTMP     *)
(* publishers" (rtsp_ingest.go:57): no goroutine uses the room after it.       *)
NoPanic == ~panicked

(* And cleanup leaves no room of the session open, when it announced several:  *)
(* each ANNOUNCE overwrites publishRTMP (rtsp_ingest.go:76).                   *)
EveryRoomReleased == ctl = "ended" /\ "record" \in started => mine \subseteq closed

(* A session that is over has given back every socket it opened.               *)
NoSocketLeft == ctl = "ended" => open = {}
=============================================================================
