--------------------------- MODULE StreamRegistry ---------------------------
(***************************************************************************)
(* One App of the server: the map from stream names to rooms (App.rooms),   *)
(* the maps from stream names to transcoders (App.hls, App.dash), and the   *)
(* goroutines that use them with no lock around more than one access:       *)
(*                                                                          *)
(*   - RTMP connections, which publish and play (librtmp/command_message.go)*)
(*   - RTMP pulls, which publish what an upstream sends (client.go)         *)
(*   - RTSP sessions, which ANNOUNCE and RECORD (rtsp_ingest.go)            *)
(*   - SRT bridges, which publish on the first datagram (srt_server.go)     *)
(*   - HTTP requests, which join a room or start a transcoder (server.go)   *)
(*                                                                          *)
(* Every sync.Map access is one step; a handler that makes several accesses *)
(* is several steps, told apart by the program counter of its connection.   *)
(* Rooms and transcoders are numbered in the order they are created.  What  *)
(* flows through a room is left out: a room is open or closed.              *)
(***************************************************************************)
EXTENDS Integers, FiniteSets

CONSTANTS
    Names,              \* stream names
    RtmpConns,          \* inbound RTMP connections
    PullConns,          \* configured RTMP pulls
    RtspConns,          \* RTSP sessions
    SrtBridges,         \* configured SRT endpoints
    Viewers,            \* HTTP requests in flight
    StreamOf,           \* the name a pull or an SRT endpoint publishes under
    HlsMode,            \* libhls.HLS_MODE of the app
    DashEnabled,        \* WithDASH was called
    TakeTurns,          \* environment: two publishers of a name never overlap
                        \*   between the lookup and the store of its room
    OneStreamPerConn,   \* environment: a client sends one publish, play or
                        \*   ANNOUNCE in the life of its connection
    MaxRooms,           \* bound on the rooms ever created
    MaxTranscoders      \* bound on the transcoders ever created

Conns == RtmpConns \cup PullConns \cup RtspConns \cup SrtBridges
Readers == RtmpConns \cup Viewers
Kinds == {"hls", "dash"}
RoomIds == 1 .. MaxRooms
TranscoderIds == 1 .. MaxTranscoders
None == 0

ASSUME RegistryAssumption ==
    /\ StreamOf \in [PullConns \cup SrtBridges -> Names]
    /\ HlsMode \in {"none", "immediately", "delay"}
    /\ DashEnabled \in BOOLEAN
    /\ TakeTurns \in BOOLEAN
    /\ OneStreamPerConn \in BOOLEAN
    /\ MaxRooms \in Nat
    /\ MaxTranscoders \in Nat
    /\ RtmpConns \cap (PullConns \cup RtspConns \cup SrtBridges) = {}
    /\ PullConns \cap (RtspConns \cup SrtBridges) = {}
    /\ RtspConns \cap SrtBridges = {}

VARIABLES
    rooms,        \* App.rooms: name -> room, None when absent
    nRooms,       \* rooms created so far
    nameOf,       \* Room.RoomID of each created room
    closed,       \* rooms closed: Room.closed set and the broadcast dead
    pc,           \* where the goroutine of a connection stands
    cur,          \* RTMP.room (rtspSession.publishRTMP.room, srtBridge.room)
    role,         \* RTMP.role
    want,         \* the name argument of the handler being run
    recording,    \* rtspSession.recording
    listed,       \* App.hls and App.dash: kind -> name -> transcoder
    nTrans,       \* transcoders created so far
    tKind,        \* whether a transcoder is an HLS or a DASH
    tRoom,        \* the room a transcoder reads
    stopped,      \* transcoders whose Stop was called
    exited,       \* transcoders whose Start goroutine returned
    readers,      \* <<client, room>> for each running join goroutine
    req           \* HTTP requests: step, room and name they resolved, file

roomVars == <<rooms, nRooms, nameOf, closed>>
connVars == <<pc, cur, role, want, recording>>
transVars == <<listed, nTrans, tKind, tRoom, stopped, exited>>
vars == <<roomVars, connVars, transVars, readers, req>>

Pcs == {"idle", "store", "startHls", "startDash",
        "dropHls", "dropDash", "dropRoom", "close", "gone"}
Files == {"flv", "m3u8", "mpd"}
ReqSteps == {"new", "join", "hls", "startHls", "dash", "startDash"}
NoRequest == [at |-> "new", room |-> None, name |-> None, file |-> "flv"]

RoomTypes ==
    /\ rooms \in [Names -> 0 .. MaxRooms]
    /\ nRooms \in 0 .. MaxRooms
    /\ nameOf \in [RoomIds -> Names \cup {None}]
    /\ closed \in SUBSET RoomIds

ConnTypes ==
    /\ pc \in [Conns -> Pcs]
    /\ cur \in [Conns -> 0 .. MaxRooms]
    /\ role \in [Conns -> {"unknown", "publisher", "player"}]
    /\ want \in [Conns -> Names \cup {None}]
    /\ recording \in SUBSET RtspConns

TranscoderTypes ==
    /\ listed \in [Kinds -> [Names -> 0 .. MaxTranscoders]]
    /\ nTrans \in 0 .. MaxTranscoders
    /\ tKind \in [TranscoderIds -> Kinds]
    /\ tRoom \in [TranscoderIds -> 0 .. MaxRooms]
    /\ stopped \in SUBSET TranscoderIds
    /\ exited \in SUBSET TranscoderIds

ClientTypes ==
    /\ readers \in SUBSET (Readers \X RoomIds)
    /\ req \in [Viewers -> [at : ReqSteps, room : 0 .. MaxRooms,
                            name : Names \cup {None}, file : Files]]

TypeOK == RoomTypes /\ ConnTypes /\ TranscoderTypes /\ ClientTypes

Init ==
    /\ rooms = [n \in Names |-> None]
    /\ nRooms = 0
    /\ nameOf = [r \in RoomIds |-> None]
    /\ closed = {}
    /\ pc = [c \in Conns |-> "idle"]
    /\ cur = [c \in Conns |-> None]
    /\ role = [c \in Conns |-> "unknown"]
    /\ want = [c \in Conns |-> None]
    /\ recording = {}
    /\ listed = [k \in Kinds |-> [n \in Names |-> None]]
    /\ nTrans = 0
    /\ tKind = [t \in TranscoderIds |-> "hls"]
    /\ tRoom = [t \in TranscoderIds |-> None]
    /\ stopped = {}
    /\ exited = {}
    /\ readers = {}
    /\ req = [v \in Viewers |-> NoRequest]

-----------------------------------------------------------------------------
(* Shared steps. *)

\* A client may send another stream command on this connection.
MayCommand(c) ==
    /\ pc[c] = "idle"
    /\ OneStreamPerConn => cur[c] = None /\ role[c] = "unknown"

\* Mutant of FindFree: the lookup is made and its answer ignored.
FindAny(c, n) ==
    /\ nRooms + Cardinality({d \in Conns : pc[d] = "store"}) < MaxRooms
    /\ TakeTurns => \A d \in Conns \ {c} : ~(pc[d] = "store" /\ want[d] = n)
    /\ pc' = [pc EXCEPT ![c] = "store"]
    /\ want' = [want EXCEPT ![c] = n]
    /\ UNCHANGED <<roomVars, cur, role, recording, transVars, readers, req>>

\* App.Load found no room under n, and the handler will go on to store one.
\* (When it finds one every publish path answers an error and changes nothing.)
FindFree(c, n) ==
    /\ rooms[n] = None
    /\ nRooms + Cardinality({d \in Conns : pc[d] = "store"}) < MaxRooms
    /\ TakeTurns => \A d \in Conns \ {c} : ~(pc[d] = "store" /\ want[d] = n)
    /\ pc' = [pc EXCEPT ![c] = "store"]
    /\ want' = [want EXCEPT ![c] = n]
    /\ UNCHANGED <<roomVars, cur, role, recording, transVars, readers, req>>

\* NewRoom and App.Store: the map entry is overwritten, whatever it holds.
StoreRoom(c, next) ==
    LET r == nRooms + 1 IN
    /\ pc[c] = "store"
    /\ nRooms < MaxRooms
    /\ nRooms' = r
    /\ nameOf' = [nameOf EXCEPT ![r] = want[c]]
    /\ rooms' = [rooms EXCEPT ![want[c]] = r]
    /\ cur' = [cur EXCEPT ![c] = r]
    /\ role' = [role EXCEPT ![c] = "publisher"]
    /\ pc' = [pc EXCEPT ![c] = next]
    /\ UNCHANGED <<closed, want, recording, transVars, readers, req>>

\* New transcoder of kind k for room r, stored under n, its goroutine started.
StartTranscoder(k, n, r) ==
    LET t == nTrans + 1 IN
    /\ nTrans < MaxTranscoders
    /\ nTrans' = t
    /\ tKind' = [tKind EXCEPT ![t] = k]
    /\ tRoom' = [tRoom EXCEPT ![t] = r]
    /\ listed' = [listed EXCEPT ![k][n] = t]
    /\ UNCHANGED <<stopped, exited>>

-----------------------------------------------------------------------------
(* An RTMP connection: publish, play, disconnect. *)

\* CommandMessage.Do, case PUBLISH: the lookup that refuses a second publisher.
PublishCheck(c, n) ==
    /\ c \in RtmpConns
    /\ MayCommand(c)
    /\ FindFree(c, n)

AfterHls == IF DashEnabled THEN "startDash" ELSE "idle"
AfterPublish == IF HlsMode = "immediately" THEN "startHls" ELSE AfterHls

\* Case PUBLISH goes on: create the room, become its publisher, store it.
PublishStore(c) ==
    /\ c \in RtmpConns
    /\ StoreRoom(c, AfterPublish)

\* Case PUBLISH, IMMEDIATELY mode: store an HLS and start its goroutine.
PublishStartHls(c) ==
    /\ pc[c] = "startHls"
    /\ StartTranscoder("hls", want[c], cur[c])
    /\ pc' = [pc EXCEPT ![c] = AfterHls]
    /\ UNCHANGED <<roomVars, cur, role, want, recording, readers, req>>

\* Case PUBLISH with DASH on: store a DASH and start its goroutine.
PublishStartDash(c) ==
    /\ pc[c] = "startDash"
    /\ StartTranscoder("dash", want[c], cur[c])
    /\ pc' = [pc EXCEPT ![c] = "idle"]
    /\ UNCHANGED <<roomVars, cur, role, want, recording, readers, req>>

\* Case PLAY: RTMP.room becomes whatever App.Load returns, nil included; a room
\* found makes this connection a player and starts Room.RTMPJoin's goroutine.
Play(c, n) ==
    /\ c \in RtmpConns
    /\ MayCommand(c)
    /\ cur' = [cur EXCEPT ![c] = rooms[n]]
    /\ IF rooms[n] = None
       THEN UNCHANGED <<role, readers>>
       ELSE /\ role' = [role EXCEPT ![c] = "player"]
            /\ readers' = readers \cup {<<c, rooms[n]>>}
    /\ UNCHANGED <<roomVars, pc, want, recording, transVars, req>>

\* HandlerServer or HandlerClient leaves its loop and runs RTMP.cleanup, which
\* does nothing without a room and little for a player.  A pull's goroutine
\* then retries with a fresh RTMP, so its connection is idle again.
Ended(c) == IF c \in PullConns THEN "idle" ELSE "gone"

\* Mutant of Disconnect: cleanup does not ask for the role.
DisconnectAnyRole(c) ==
    /\ c \in RtmpConns \/ (c \in PullConns /\ cur[c] # None)
    /\ pc[c] = "idle"
    /\ pc' = [pc EXCEPT ![c] = IF cur[c] # None THEN "dropHls" ELSE Ended(c)]
    /\ UNCHANGED <<roomVars, cur, role, want, recording, transVars, readers, req>>

\* Mutant of Disconnect: HandlerClient does not defer cleanup.
DisconnectPullLeaks(c) ==
    /\ c \in RtmpConns \/ (c \in PullConns /\ cur[c] # None)
    /\ pc[c] = "idle"
    /\ IF c \in RtmpConns /\ cur[c] # None /\ role[c] = "publisher"
       THEN /\ pc' = [pc EXCEPT ![c] = "dropHls"]
            /\ UNCHANGED cur
       ELSE /\ pc' = [pc EXCEPT ![c] = Ended(c)]
            /\ cur' = [cur EXCEPT ![c] = None]
    /\ UNCHANGED <<roomVars, role, want, recording, transVars, readers, req>>

\* Mutant of Disconnect: cleanup leaves alone a stream that another publisher
\* has taken over, and with it its own room.
DisconnectUnlessReplaced(c) ==
    /\ c \in RtmpConns \/ (c \in PullConns /\ cur[c] # None)
    /\ pc[c] = "idle"
    /\ IF cur[c] # None /\ role[c] = "publisher" /\ rooms[nameOf[cur[c]]] = cur[c]
       THEN /\ pc' = [pc EXCEPT ![c] = "dropHls"]
            /\ UNCHANGED <<cur, role>>
       ELSE /\ pc' = [pc EXCEPT ![c] = Ended(c)]
            /\ cur' = [cur EXCEPT ![c] = None]
            /\ UNCHANGED role
    /\ UNCHANGED <<roomVars, want, recording, transVars, readers, req>>

Disconnect(c) ==
    /\ c \in RtmpConns \/ (c \in PullConns /\ cur[c] # None)
    /\ pc[c] = "idle"
    /\ IF cur[c] # None /\ role[c] = "publisher"
       THEN /\ pc' = [pc EXCEPT ![c] = "dropHls"]
            /\ UNCHANGED <<cur, role>>
       ELSE /\ pc' = [pc EXCEPT ![c] = Ended(c)]
            /\ cur' = [cur EXCEPT ![c] = None]
            /\ UNCHANGED role
    /\ UNCHANGED <<roomVars, want, recording, transVars, readers, req>>

\* App.Delete: take the transcoder of kind k listed under this room's name out
\* of the map and Stop it.
DropTranscoder(c, k, at, next) ==
    LET n == nameOf[cur[c]]
        t == listed[k][n]
    IN  /\ pc[c] = at
        /\ listed' = [listed EXCEPT ![k][n] = None]
        /\ stopped' = stopped \cup ({t} \ {None})
        /\ pc' = [pc EXCEPT ![c] = next]
        /\ UNCHANGED <<roomVars, cur, role, want, recording,
                       nTrans, tKind, tRoom, exited, readers, req>>

\* Mutant of CleanupDash: App.Delete knows nothing of App.dash.
CleanupDashForgotten(c) ==
    /\ pc[c] = "dropDash"
    /\ pc' = [pc EXCEPT ![c] = "dropRoom"]
    /\ UNCHANGED <<roomVars, cur, role, want, recording, transVars, readers, req>>

CleanupHls(c) == DropTranscoder(c, "hls", "dropHls", "dropDash")
CleanupDash(c) == DropTranscoder(c, "dash", "dropDash", "dropRoom")

\* App.Delete: remove the map entry of this name, whichever room it holds.
CleanupRoom(c) ==
    /\ pc[c] = "dropRoom"
    /\ rooms' = [rooms EXCEPT ![nameOf[cur[c]]] = None]
    /\ pc' = [pc EXCEPT ![c] = "close"]
    /\ UNCHANGED <<nRooms, nameOf, closed, cur, role, want, recording,
                   transVars, readers, req>>

\* Mutant of CleanupClose: the broadcast is not told.
CleanupForgets(c) ==
    /\ pc[c] = "close"
    /\ cur' = [cur EXCEPT ![c] = None]
    /\ pc' = [pc EXCEPT ![c] = Ended(c)]
    /\ recording' = recording \ {c}
    /\ UNCHANGED <<roomVars, role, want, transVars, readers, req>>

\* Room.Close: DisAlive on the broadcast wakes every reader; RTMP.room is nil.
CleanupClose(c) ==
    /\ pc[c] = "close"
    /\ closed' = closed \cup {cur[c]}
    /\ cur' = [cur EXCEPT ![c] = None]
    /\ pc' = [pc EXCEPT ![c] = Ended(c)]
    /\ recording' = recording \ {c}
    /\ UNCHANGED <<rooms, nRooms, nameOf, role, want, transVars, readers, req>>

\* Mutant of Cleanup: Room.Close before App.Delete's last access.
CleanupClosesFirst(c) ==
    \/ CleanupHls(c)
    \/ CleanupDash(c)
    \/ /\ pc[c] = "dropRoom"
       /\ closed' = closed \cup {cur[c]}
       /\ pc' = [pc EXCEPT ![c] = "close"]
       /\ UNCHANGED <<rooms, nRooms, nameOf, cur, role, want, recording,
                      transVars, readers, req>>
    \/ /\ pc[c] = "close"
       /\ rooms' = [rooms EXCEPT ![nameOf[cur[c]]] = None]
       /\ cur' = [cur EXCEPT ![c] = None]
       /\ pc' = [pc EXCEPT ![c] = Ended(c)]
       /\ recording' = recording \ {c}
       /\ UNCHANGED <<nRooms, nameOf, closed, role, want, transVars, readers, req>>

Cleanup(c) == CleanupHls(c) \/ CleanupDash(c) \/ CleanupRoom(c) \/ CleanupClose(c)

\* A new connection is accepted: a fresh RTMP or rtspSession.  An SRT bridge is
\* never replaced: the next caller's datagrams reach the same one.
Accept(c) ==
    /\ pc[c] = "gone"
    /\ pc' = [pc EXCEPT ![c] = "idle"]
    /\ IF c \in SrtBridges
       THEN UNCHANGED <<cur, role>>
       ELSE /\ cur' = [cur EXCEPT ![c] = None]
            /\ role' = [role EXCEPT ![c] = "unknown"]
    /\ UNCHANGED <<roomVars, want, recording, transVars, readers, req>>

-----------------------------------------------------------------------------
(* The other three ways to publish.  None of them starts a transcoder. *)

\* PullClient.Run: dial, look the local name up, give up if it is taken.
PullCheck(c) ==
    /\ c \in PullConns
    /\ pc[c] = "idle"
    /\ cur[c] = None
    /\ FindFree(c, StreamOf[c])

\* PullClient.Run goes on: store the room, then run the client session.
PullStore(c) ==
    /\ c \in PullConns
    /\ StoreRoom(c, "idle")

\* rtspSession.handleAnnounce, up to and including the lookup.
AnnounceCheck(c, n) ==
    /\ c \in RtspConns
    /\ MayCommand(c)
    /\ FindFree(c, n)

\* handleAnnounce rejects the SDP: an answer of 400 and no room.
AnnounceBadSDP(c) ==
    /\ c \in RtspConns
    /\ pc[c] = "store"
    /\ pc' = [pc EXCEPT ![c] = "idle"]
    /\ UNCHANGED <<roomVars, cur, role, want, recording, transVars, readers, req>>

\* handleAnnounce goes on: a pseudo-publisher RTMP with a new room, stored; an
\* earlier publishRTMP of the session is forgotten.
AnnounceStore(c) ==
    /\ c \in RtspConns
    /\ StoreRoom(c, "idle")

\* handleRecord: only after an ANNOUNCE; runIngestLoop begins.
Record(c) ==
    /\ c \in RtspConns \ recording
    /\ pc[c] = "idle"
    /\ cur[c] # None
    /\ recording' = recording \cup {c}
    /\ UNCHANGED <<roomVars, pc, cur, role, want, transVars, readers, req>>

\* The RTSP connection ends (EOF, TEARDOWN, write error).  Only runIngestLoop
\* defers publishRTMP.cleanup; rtspSession.run just closes the connection.
RtspEnd(c) ==
    /\ c \in RtspConns
    /\ pc[c] = "idle"
    /\ pc' = [pc EXCEPT ![c] = IF c \in recording THEN "dropHls" ELSE "gone"]
    /\ UNCHANGED <<roomVars, cur, role, want, recording, transVars, readers, req>>

\* Mutant of SrtCheck: no lookup.
SrtUnchecked(b) ==
    /\ b \in SrtBridges
    /\ pc[b] = "idle"
    /\ cur[b] = None
    /\ FindAny(b, StreamOf[b])

\* srtBridge.onData with no room yet: refuse while the name is taken.
SrtCheck(b) ==
    /\ b \in SrtBridges
    /\ pc[b] = "idle"
    /\ cur[b] = None
    /\ FindFree(b, StreamOf[b])

\* srtBridge.onData goes on: the room is created and stored.
SrtStore(b) ==
    /\ b \in SrtBridges
    /\ StoreRoom(b, "idle")

\* The SRT caller shuts down: the listener forgets its session; the bridge is
\* not told.
SrtShutdown(b) ==
    /\ b \in SrtBridges
    /\ pc[b] = "idle"
    /\ cur[b] # None
    /\ pc' = [pc EXCEPT ![b] = "gone"]
    /\ UNCHANGED <<roomVars, cur, role, want, recording, transVars, readers, req>>

-----------------------------------------------------------------------------
(* HTTP requests. *)

\* A request names a file of a listed stream; unlisted streams answer 404.
Request(v, n, f) ==
    /\ req[v].at = "new"
    /\ rooms[n] # None
    /\ req' = [req EXCEPT ![v] = [at |-> IF f = "flv" THEN "join" ELSE "hls",
                                  room |-> rooms[n], name |-> n, file |-> f]]
    /\ UNCHANGED <<roomVars, connVars, transVars, readers>>

\* Room.FLVJoin: headers, then a reader of the broadcast in a loop.
FLVJoin(v) ==
    /\ req[v].at = "join"
    /\ readers' = readers \cup {<<v, req[v].room>>}
    /\ req' = [req EXCEPT ![v] = NoRequest]
    /\ UNCHANGED <<roomVars, connVars, transVars>>

\* handleHls looks the stream's HLS up, for DASH files too.  Without one only
\* a playlist request in DELAY mode goes on.
LoadHLS(v) ==
    LET q == req[v]
        h == listed["hls"][q.name]
        next == CASE h # None /\ q.file = "mpd" -> "dash"
                  [] h = None /\ HlsMode = "delay" /\ q.file = "m3u8" -> "startHls"
                  [] OTHER -> "new"
    IN  /\ q.at = "hls"
        /\ req' = [req EXCEPT ![v] = IF next = "new" THEN NoRequest
                                     ELSE [q EXCEPT !.at = next]]
        /\ UNCHANGED <<roomVars, connVars, transVars, readers>>

\* DELAY mode: store a new HLS over whatever is there now and start it.
LazyStartHls(v) ==
    /\ req[v].at = "startHls"
    /\ StartTranscoder("hls", req[v].name, req[v].room)
    /\ req' = [req EXCEPT ![v] = NoRequest]
    /\ UNCHANGED <<roomVars, connVars, readers>>

\* The DASH dispatch looks the DASH up.
LoadDASH(v) ==
    LET q == req[v] IN
    /\ q.at = "dash"
    /\ req' = [req EXCEPT ![v] =
                 IF listed["dash"][q.name] = None /\ DashEnabled
                 THEN [q EXCEPT !.at = "startDash"] ELSE NoRequest]
    /\ UNCHANGED <<roomVars, connVars, transVars, readers>>

LazyStartDash(v) ==
    /\ req[v].at = "startDash"
    /\ StartTranscoder("dash", req[v].name, req[v].room)
    /\ req' = [req EXCEPT ![v] = NoRequest]
    /\ UNCHANGED <<roomVars, connVars, readers>>

-----------------------------------------------------------------------------
(* Goroutines that read a room's broadcast. *)

\* HLS.Start and DASH.Start return once their Stop was called or the room died.
TranscoderExit(t) ==
    /\ t \in 1 .. nTrans
    /\ t \notin exited
    /\ t \in stopped \/ tRoom[t] \in closed
    /\ exited' = exited \cup {t}
    /\ UNCHANGED <<roomVars, connVars, listed, nTrans, tKind, tRoom, stopped,
                   readers, req>>

\* A join goroutine reads alive = false and returns.
ReaderWoken(x, r) ==
    /\ <<x, r>> \in readers
    /\ r \in closed
    /\ readers' = readers \ {<<x, r>>}
    /\ UNCHANGED <<roomVars, connVars, transVars, req>>

\* A join goroutine fails to write to its client and returns.
ReaderWriteError(x, r) ==
    /\ <<x, r>> \in readers
    /\ readers' = readers \ {<<x, r>>}
    /\ UNCHANGED <<roomVars, connVars, transVars, req>>

-----------------------------------------------------------------------------
Publish(c) ==
    \/ \E n \in Names : PublishCheck(c, n)
    \/ PublishStore(c)
    \/ PublishStartHls(c)
    \/ PublishStartDash(c)

Pull(c) == PullCheck(c) \/ PullStore(c)

Announce(c) ==
    \/ \E n \in Names : AnnounceCheck(c, n)
    \/ AnnounceBadSDP(c)
    \/ AnnounceStore(c)

Srt(c) == SrtCheck(c) \/ SrtStore(c) \/ SrtShutdown(c)

Serve(v) ==
    \/ \E n \in Names, f \in Files : Request(v, n, f)
    \/ FLVJoin(v)
    \/ LoadHLS(v)
    \/ LazyStartHls(v)
    \/ LoadDASH(v)
    \/ LazyStartDash(v)

ConnNext(c) ==
    \/ Publish(c)
    \/ \E n \in Names : Play(c, n)
    \/ Disconnect(c)
    \/ Cleanup(c)
    \/ Accept(c)
    \/ Pull(c)
    \/ Announce(c)
    \/ Record(c)
    \/ RtspEnd(c)
    \/ Srt(c)

Next ==
    \/ \E c \in Conns : ConnNext(c)
    \/ \E v \in Viewers : Serve(v)
    \/ \E t \in TranscoderIds : TranscoderExit(t)
    \/ \E x \in Readers, r \in RoomIds : ReaderWoken(x, r) \/ ReaderWriteError(x, r)

Spec == Init /\ [][Next]_vars

(* A goroutine that was started runs on, and Broadcast.Read returns once the *)
(* room is closed.  A transcoder that was only stopped may sit in Read until  *)
(* the next tag, so Stop alone earns it no fairness; clients owe us nothing,  *)
(* except that a viewer's socket takes what is written to it or fails.        *)
TranscoderSeesClose(t) == tRoom[t] \in closed /\ TranscoderExit(t)

FairSpec ==
    /\ Spec
    /\ \A c \in Conns : WF_vars(Cleanup(c))
    /\ \A v \in Viewers : WF_vars(FLVJoin(v) \/ LoadHLS(v) \/ LoadDASH(v))
    /\ \A t \in TranscoderIds : WF_vars(TranscoderSeesClose(t))
    /\ \A x \in Readers, r \in RoomIds : WF_vars(ReaderWoken(x, r))

-----------------------------------------------------------------------------
(* What should hold. *)

Cleaning == {"dropHls", "dropDash", "dropRoom", "close"}

\* c is the publisher of a room that it has not closed yet,
Owns(c) == cur[c] # None /\ role[c] = "publisher"
\* and that its cleanup has not yet taken off the map.
Publishes(c) == Owns(c) /\ pc[c] # "close"

(* A room that App.Load can return is never a closed one: App.Delete runs      *)
(* before Room.Close, so nobody joins a broadcast that is already dead.        *)
ClosedRoomNotListed ==
    \A n \in Names : rooms[n] # None => rooms[n] \notin closed

(* While a publisher lives, its room is the one listed under its name, so     *)
(* viewers that ask for the name reach it and its cleanup deletes no entry but *)
(* its own.  The lookup and the store are two map accesses: this needs         *)
(* publishers of one name to take turns.                                       *)
PublisherListed ==
    \A c \in Conns : Publishes(c) => rooms[nameOf[cur[c]]] = cur[c]

(* A listed room is never replaced by another one: the second publisher of a   *)
(* name is refused ("replacing the publisher mid-stream would desync every     *)
(* viewer", command_message.go:243).  The code does not keep this: two         *)
(* publishers may both find the name free before either stores its room.       *)
NoReplacement ==
    [][\A n \in Names : rooms[n] # None => rooms'[n] \in {rooms[n], None}]_vars

(* What that race does not cost.  However many publishers found a name free at *)
(* once and stored their rooms and transcoders over each other's: once the     *)
(* last of them has been through cleanup, which deletes by name whatever it    *)
(* finds, nothing is listed under the name and all rooms it ever had are       *)
(* closed, so the name can be published again and no reader waits.             *)
NameReleased ==
    \A n \in Names :
        (\A c \in Conns : Owns(c) => nameOf[cur[c]] # n) =>
            /\ rooms[n] = None
            /\ \A k \in Kinds : listed[k][n] = None
            /\ \A r \in 1 .. nRooms : nameOf[r] = n => r \in closed

(* Every room that is not closed still has the connection that will close it:  *)
(* otherwise the name is taken and its viewers blocked for the life of the     *)
(* server (cleanup "releases any room state the connection owned", rtmp.go:93).*)
OrphanFree ==
    \A r \in 1 .. nRooms \ closed :
        \E c \in Conns : cur[c] = r /\ role[c] = "publisher" /\ pc[c] # "gone"

\* An RTMP publisher past its PUBLISH handler and not yet in cleanup has its
\* transcoder of kind k listed: reading its own room, and not stopped.
StreamKeeps(k) ==
    \A c \in RtmpConns :
        LET t == listed[k][nameOf[cur[c]]]
        IN  (pc[c] = "idle" /\ Publishes(c)) =>
                t # None /\ tRoom[t] = cur[c] /\ t \notin stopped

(* In IMMEDIATELY mode the HLS of a stream stays listed while its publisher    *)
(* lives, whatever the cleanup of an earlier publisher of the name still does. *)
(* So does its DASH, as long as no HTTP request starts one of its own.         *)
StreamKeepsTranscoders ==
    /\ HlsMode = "immediately" => StreamKeeps("hls")
    /\ DashEnabled => StreamKeeps("dash")

(* At most one running transcoder of a kind reads a room: two would write the  *)
(* same segment files ("A single publisher owns one HLS instance", hls.go:48). *)
SingleTranscoder(k) ==
    \A t, u \in 1 .. nTrans :
        /\ tKind[t] = k /\ tKind[u] = k
        /\ tRoom[t] = tRoom[u]
        /\ t \notin exited /\ u \notin exited
        => t = u

(* One HLS per room: holds where only the PUBLISH handler starts one.          *)
SingleHls == SingleTranscoder("hls")

(* One DASH per room: the lazy start of server.go:374 is for a stream that has *)
(* no DASH instance yet.                                                       *)
SingleDash == SingleTranscoder("dash")

(* A transcoder that requests are served from reads a room that is open: the   *)
(* teardown of a stream takes its transcoders off the maps with it.            *)
ListedTranscoderIsLive ==
    \A k \in Kinds, n \in Names :
        listed[k][n] # None => tRoom[listed[k][n]] \notin closed

(* A pulled stream is served as HLS like one published locally (server.go:79). *)
PulledStreamHasHls ==
    \A c \in PullConns :
        (HlsMode = "immediately" /\ pc[c] = "idle" /\ cur[c] # None)
            => listed["hls"][nameOf[cur[c]]] # None

\* Nobody can find room r any more and nobody still reads it.
TornDown(r) ==
    /\ r \in closed
    /\ \A n \in Names : rooms[n] # r
    /\ \A x \in Readers : <<x, r>> \notin readers
    /\ \A t \in 1 .. nTrans : tRoom[t] = r => t \in exited

(* Once a publisher's cleanup begins, its room is torn down for good: every    *)
(* player, HTTP viewer and transcoder goroutine that reads it comes to an end, *)
(* those included that looked the room up before and join it after.            *)
TeardownReachesViewers ==
    \A c \in Conns, r \in RoomIds :
        (pc[c] = "dropHls" /\ cur[c] = r) ~> []TornDown(r)
=============================================================================
