------------------------------ MODULE WsFlvConn ------------------------------
(***************************************************************************)
(* One WebSocket-FLV viewer (librtmp/websocket.go and the upgrade branch of *)
(* handleHTTPFlv).  Three goroutines write frames to one TCP connection:    *)
(*                                                                          *)
(*   - "join", Room.FLVJoin through wsWriter: one binary frame per tag      *)
(*   - "ping", servePings: a pong for each ping of the client               *)
(*   - "http", the HTTP handler: a close frame once one of them is done     *)
(*                                                                          *)
(* writeFrame makes one conn.Write for the header and one for the payload,  *)
(* with no lock around the two.  A Write is one step: net.Conn keeps other  *)
(* Writes out for its length.  The FLV header and the cached sequence       *)
(* headers that FLVJoin sends first are tags like the others here.          *)
(***************************************************************************)
EXTENDS Integers, Sequences

CONSTANTS
    MaxPings,       \* bound on the pings the client sends
    ClientCloses,   \* the client may send a close frame or drop the connection
    MaxTags         \* bound on the tags of the room

ASSUME WsAssumption == MaxPings \in Nat /\ ClientCloses \in BOOLEAN /\ MaxTags \in Nat

Goroutines == {"join", "ping", "http"}

VARIABLES
    pc,         \* where each goroutine stands
    wire,       \* what was written: pieces of frames, by goroutine
    open,       \* the connection is open on our side
    pings,      \* pings sent by the client
    closing,    \* the client sent a close frame or is gone
    tags,       \* tags written by FLVJoin
    dead,       \* the room was closed
    stop,       \* the channel that servePings closes
    done        \* the channel closed after FLVJoin

vars == <<pc, wire, open, pings, closing, tags, dead, stop, done>>

Piece == [by : Goroutines, part : {"header", "payload", "empty"}]

TypeOK ==
    /\ pc \in [Goroutines -> {"wait", "payload", "header", "close", "ended"}]
    /\ wire \in Seq(Piece) /\ Len(wire) <= 2 * tags + 2 * pings + 1
    /\ open \in BOOLEAN /\ closing \in BOOLEAN /\ dead \in BOOLEAN
    /\ stop \in BOOLEAN /\ done \in BOOLEAN
    /\ pings \in 0 .. MaxPings /\ tags \in 0 .. MaxTags

Init ==
    /\ pc = [g \in Goroutines |-> "wait"]
    /\ wire = <<>>
    /\ open = TRUE
    /\ pings = 0
    /\ closing = FALSE
    /\ tags = 0
    /\ dead = FALSE
    /\ stop = FALSE
    /\ done = FALSE

\* conn.Write puts a piece of g's frame on the wire.
Put(g, part) == wire' = Append(wire, [by |-> g, part |-> part])

-----------------------------------------------------------------------------
(* Room.FLVJoin. *)

\* Read returns a tag; the header of its frame is written.
JoinHeader ==
    /\ pc["join"] = "wait"
    /\ tags < MaxTags
    /\ open
    /\ tags' = tags + 1
    /\ Put("join", "header")
    /\ pc' = [pc EXCEPT !["join"] = "payload"]
    /\ UNCHANGED <<open, pings, closing, dead, stop, done>>

\* The payload follows; the loop reads the next tag.
JoinPayload ==
    /\ pc["join"] = "payload"
    /\ open
    /\ Put("join", "payload")
    /\ pc' = [pc EXCEPT !["join"] = "wait"]
    /\ UNCHANGED <<open, pings, closing, tags, dead, stop, done>>

JoinEnds ==
    /\ done' = TRUE
    /\ pc' = [pc EXCEPT !["join"] = "ended"]
    /\ UNCHANGED <<wire, open, pings, closing, tags, dead, stop>>

\* Read answers alive = false.
JoinDead ==
    /\ pc["join"] = "wait"
    /\ dead
    /\ JoinEnds

\* A write fails: our side closed the connection, or the client's is gone.
JoinWriteError ==
    /\ \/ pc["join"] = "wait" /\ tags < MaxTags
       \/ pc["join"] = "payload"
    /\ ~open \/ closing
    /\ JoinEnds

-----------------------------------------------------------------------------
(* servePings. *)

\* A ping arrives; its pong has a payload or none.
PongHeader ==
    /\ pc["ping"] = "wait"
    /\ pings < MaxPings
    /\ open
    /\ ~closing
    /\ pings' = pings + 1
    /\ \/ Put("ping", "header") /\ pc' = [pc EXCEPT !["ping"] = "payload"]
       \/ Put("ping", "empty") /\ UNCHANGED pc
    /\ UNCHANGED <<open, closing, tags, dead, stop, done>>

\* The payload of the pong; an error is dropped.
PongPayload ==
    /\ pc["ping"] = "payload"
    /\ IF open THEN Put("ping", "payload") ELSE UNCHANGED wire
    /\ pc' = [pc EXCEPT !["ping"] = "wait"]
    /\ UNCHANGED <<open, pings, closing, tags, dead, stop, done>>

\* A close frame, or a read error.
PingsEnd ==
    /\ pc["ping"] = "wait"
    /\ closing \/ ~open
    /\ stop' = TRUE
    /\ pc' = [pc EXCEPT !["ping"] = "ended"]
    /\ UNCHANGED <<wire, open, pings, closing, tags, dead, done>>

-----------------------------------------------------------------------------
(* The HTTP handler. *)

\* Mutant of Select: the handler does not wait.
SelectAtOnce ==
    /\ pc["http"] = "wait"
    /\ pc' = [pc EXCEPT !["http"] = "header"]
    /\ UNCHANGED <<wire, open, pings, closing, tags, dead, stop, done>>

\* The select returns once either goroutine is done.
Select ==
    /\ pc["http"] = "wait"
    /\ stop \/ done
    /\ pc' = [pc EXCEPT !["http"] = "header"]
    /\ UNCHANGED <<wire, open, pings, closing, tags, dead, stop, done>>

\* wsConn.Close, deferred: a close frame without payload.
CloseFrame ==
    /\ pc["http"] = "header"
    /\ Put("http", "empty")
    /\ pc' = [pc EXCEPT !["http"] = "close"]
    /\ UNCHANGED <<open, pings, closing, tags, dead, stop, done>>

\* Mutant of CloseConn: only the close frame is sent.
CloseNothing ==
    /\ pc["http"] = "close"
    /\ pc' = [pc EXCEPT !["http"] = "ended"]
    /\ UNCHANGED <<wire, open, pings, closing, tags, dead, stop, done>>

\* wsConn.Close goes on: close the connection.
CloseConn ==
    /\ pc["http"] = "close"
    /\ open' = FALSE
    /\ pc' = [pc EXCEPT !["http"] = "ended"]
    /\ UNCHANGED <<wire, pings, closing, tags, dead, stop, done>>

-----------------------------------------------------------------------------
(* Environment. *)

ClientClose ==
    /\ ClientCloses
    /\ ~closing
    /\ closing' = TRUE
    /\ UNCHANGED <<pc, wire, open, pings, tags, dead, stop, done>>

RoomClosed ==
    /\ ~dead
    /\ dead' = TRUE
    /\ UNCHANGED <<pc, wire, open, pings, closing, tags, stop, done>>

Join == JoinHeader \/ JoinPayload \/ JoinDead \/ JoinWriteError
ServePings == PongHeader \/ PongPayload \/ PingsEnd
Handler == Select \/ CloseFrame \/ CloseConn

Next == Join \/ ServePings \/ Handler \/ ClientClose \/ RoomClosed

Spec == Init /\ [][Next]_vars

(* The goroutines run; a room that is closed wakes FLVJoin out of Read, and a  *)
(* closed connection wakes servePings out of its read.  Tags and pings are the *)
(* others' to send.                                                            *)
FairSpec ==
    /\ Spec
    /\ WF_vars(JoinPayload \/ JoinDead)
    /\ WF_vars(pc["join"] = "payload" /\ JoinWriteError)
    /\ WF_vars(PongPayload \/ PingsEnd)
    /\ WF_vars(Handler)

-----------------------------------------------------------------------------
(* What should hold. *)

(* "writeFrame emits a single frame" (websocket.go:90): the payload of a frame *)
(* follows its header on the wire, with nothing of another frame between.      *)
FramesWhole ==
    \A i \in 1 .. Len(wire) - 1 :
        wire[i].part = "header" =>
            wire[i + 1] = [by |-> wire[i].by, part |-> "payload"]

(* Frames are whole as long as the client neither pings nor leaves: the close  *)
(* frame of the handler, too, comes only after the last tag.                   *)
QuietFramesWhole == pings = 0 /\ ~closing => FramesWhole

(* Once the room is closed all three goroutines of a viewer end.  Once the     *)
(* viewer leaves, servePings and the handler do, and the connection is closed, *)
(* tags or no tags.                                                            *)
GoroutinesEnd ==
    /\ dead ~> \A g \in Goroutines : pc[g] = "ended"
    /\ closing ~> (pc["ping"] = "ended" /\ pc["http"] = "ended" /\ ~open)
=============================================================================
