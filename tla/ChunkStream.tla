---------------------------- MODULE ChunkStream ----------------------------
(***************************************************************************)
(* The inbound half of an RTMP connection: an encoder cuts its messages     *)
(* into chunks and writes them on a TCP stream; ParseMessage of             *)
(* librtmp/message.go puts them together again, one ParseChunk of           *)
(* librtmp/chunk.go at a time, acts on each message and answers some.       *)
(*                                                                          *)
(* The stream is a sequence of tokens: the basic and message header of a    *)
(* chunk, an extended timestamp, and units of payload, each of which        *)
(* remembers the message and the place it comes from.  A reader that takes  *)
(* a token for what it is not has lost the framing of the stream for good.  *)
(* The encoder is external: it does what RTMP 1.0 lets a sender do with the *)
(* four header formats.  This server's own writer (Chunk.Send, the Send of  *)
(* each message) is the case that uses formats 0 and 3 only.                *)
(***************************************************************************)
EXTENDS Integers, Sequences, SequencesExt

CONSTANTS
    MediaCs,          \* chunk streams that carry audio, video and aggregates
    ControlCs,        \* the chunk stream of every other message
    FrameTypes,       \* of "audio" and "video", those the encoder sends
    Aggregates,       \* the sub-messages an aggregate may carry
    Lengths,          \* payload lengths of media messages, in units
    Times,            \* message timestamps
    Sentinel,         \* MAX_TIMESTAMP: field values from here on are extended
    Wrap,             \* 2^32: timestamps and byte counts are uint32
    DefaultChunkSize, \* peerMaxChunkSize of NewRTMP
    ChunkSizes,       \* sizes the encoder announces with SET_CHUNK_SIZE
    Windows,          \* sizes the encoder announces with WINDOW_ACKNOWLEDGEMENT_SIZE
    Habits,           \* environment: what the encoder does beyond the plainest use
    MaxMessages,      \* bound on the messages of a run
    MaxWire           \* bound on the tokens in flight

\* "abbreviates first": its first header on a chunk stream may be a relative one;
\* "counts headers": its window counts every byte, not only payload;
\* "stops anywhere": a full window stops it between two chunks of a message;
\* "shrinks window": it announces a window again later;
\* "interleaves": it mixes the chunks of messages on different chunk streams;
\* "aborts": it aborts a message it has sent half of.
AllHabits == {"abbreviates first", "counts headers", "stops anywhere", "shrinks window",
              "interleaves", "aborts"}

AllCs == MediaCs \cup {ControlCs}
None == [type |-> "none"]
Uint == 0 .. Wrap - 1

ASSUME ChunkAssumption ==
    /\ ControlCs \notin MediaCs
    /\ FrameTypes \subseteq {"audio", "video"}
    /\ Aggregates \subseteq Seq([type : STRING, ts : Uint])
    /\ Times \subseteq Uint
    /\ Lengths \subseteq Nat \ {0}
    /\ Wrap \in Nat
    /\ Sentinel \in Uint \ {0}
    /\ DefaultChunkSize \in Nat \ {0}
    /\ ChunkSizes \subseteq Nat \ {0}
    /\ Windows \subseteq Uint \ {0}
    /\ Habits \subseteq AllHabits

VARIABLES
    sent,              \* encoder: messages it began, in order
    complete,          \* encoder: numbers of those it finished sending, in order
    left,              \* encoder: per chunk stream, the message in progress
    encLast,           \* encoder: last header sent on each chunk stream
    encChunkSize,      \* encoder: its chunk size
    encWindow,         \* encoder: the window it announced, 0 before
    encBytes,          \* encoder: bytes it counted against that window
    encAcked,          \* encoder: the last acknowledged count
    wire,              \* tokens written and not yet read
    replies,           \* messages the server wrote back, not yet read
    lastChunk,         \* RTMP.lastChunk: last header read on each chunk stream
    message,           \* ParseMessage's local message, None between two calls
    peerMaxChunkSize,  \* RTMP.peerMaxChunkSize
    peerWindowAckSize, \* RTMP.peerWindowAckSize
    bytesReceived,     \* RTMP.bytesReceived
    lastAcked,         \* RTMP.lastAcked
    conn,              \* "open", "closed" by an error, "lost" without framing
    room               \* the tags handed to the room, in order

encVars == <<sent, complete, left, encLast, encChunkSize, encWindow,
             encBytes, encAcked>>
ackVars == <<peerWindowAckSize, bytesReceived, lastAcked>>
readVars == <<lastChunk, message, peerMaxChunkSize, ackVars, conn, room>>
vars == <<encVars, wire, replies, readVars>>

Init ==
    /\ sent = <<>>
    /\ complete = <<>>
    /\ left = [c \in AllCs |-> [id |-> 0, units |-> 0]]
    /\ encLast = [c \in AllCs |-> None]
    /\ encChunkSize = DefaultChunkSize
    /\ encWindow = 0
    /\ encBytes = 0
    /\ encAcked = 0
    /\ wire = <<>>
    /\ replies = <<>>
    /\ lastChunk = [c \in AllCs |-> None]
    /\ message = None
    /\ peerMaxChunkSize = DefaultChunkSize
    /\ peerWindowAckSize = 0
    /\ bytesReceived = 0
    /\ lastAcked = 0
    /\ conn = "open"
    /\ room = <<>>

Smallest(S) == CHOOSE x \in S : \A y \in S : x <= y

-----------------------------------------------------------------------------
(* The encoder. *)

\* Bytes sent and not acknowledged have filled the encoder's window.
Blocked == encWindow # 0 /\ (encBytes - encAcked) % Wrap >= encWindow

\* The encoder may use this header format for a message on chunk stream c.
Fits(fmt, c, type, len, delta) ==
    LET h == encLast[c] IN
    \/ fmt = 0
    \/ fmt = 1 /\ h = None /\ "abbreviates first" \in Habits
    \/ /\ fmt \in {1, 2, 3}
       /\ h # None
       /\ delta < Wrap \div 2
       /\ fmt \in {2, 3} => h.type = type /\ h.len = len
       /\ fmt = 3 => h.relative /\ h.delta = delta

\* The field a header of this format carries, absolute or relative.
Field(fmt, ts, delta) == IF fmt = 0 THEN ts ELSE delta

\* Chunk.Send: the header, the extended timestamp it needs, and n units of
\* payload of message id from unit i on.
ChunkTokens(fmt, c, field, ext, len, type, id, i, n) ==
    <<[k |-> "hdr", fmt |-> fmt, cs |-> c,
       ts |-> IF field < Sentinel THEN field ELSE Sentinel,
       len |-> len, type |-> type]>>
    \o (IF ext THEN <<[k |-> "ext", ts |-> field]>> ELSE <<>>)
    \o [j \in 1 .. n |-> [k |-> "pay", id |-> id, i |-> i + j - 1]]

Counted(tokens, n) == IF "counts headers" \in Habits THEN Len(tokens) ELSE n

\* Write one chunk of message id, which has `rest` units to go.
WriteChunk(fmt, c, field, ext, m, id, rest) ==
    LET n == Smallest({rest, encChunkSize})
        tokens == ChunkTokens(fmt, c, field, ext, m.len, m.type,
                              id, m.len - rest + 1, n)
    IN  /\ Len(wire) + Len(tokens) <= MaxWire
        /\ wire' = wire \o tokens
        /\ left' = [left EXCEPT ![c] = IF n = rest THEN [id |-> 0, units |-> 0]
                                       ELSE [id |-> id, units |-> rest - n]]
        /\ complete' = IF n = rest THEN Append(complete, id) ELSE complete
        /\ encBytes' = (encBytes + Counted(tokens, n)) % Wrap

Idle(c) == left[c].id = 0
MayBegin(c) ==
    /\ conn = "open"
    /\ Len(sent) < MaxMessages
    /\ ~Blocked
    /\ Idle(c)
    /\ "interleaves" \in Habits \/ \A d \in AllCs : Idle(d)

\* The first chunk of a message.
Begin(c, m, fmt) ==
    LET delta == IF encLast[c] = None THEN 0 ELSE (m.ts - encLast[c].ts) % Wrap
        field == Field(fmt, m.ts, delta)
        ext == field >= Sentinel
    IN  /\ MayBegin(c)
        /\ Fits(fmt, c, m.type, m.len, delta)
        /\ sent' = Append(sent, m)
        /\ encLast' = [encLast EXCEPT ![c] =
             [type |-> m.type, len |-> m.len, ts |-> m.ts, ext |-> ext,
              delta |-> delta, relative |-> fmt # 0]]
        /\ WriteChunk(fmt, c, field, ext, m, Len(sent) + 1, m.len)
        /\ UNCHANGED <<encAcked, replies, readVars>>

\* A media message, or an aggregate of two, with any header that fits.
EncodeMedia(c, type, len, ts, subs, fmt) ==
    /\ Begin(c, [type |-> type, len |-> len, ts |-> ts, val |-> subs], fmt)
    /\ UNCHANGED <<encChunkSize, encWindow>>

Control(type, val) == [type |-> type, len |-> 1, ts |-> 0, val |-> val]

\* SET_CHUNK_SIZE takes effect on the chunks written after it.
EncodeChunkSize(size) ==
    /\ Begin(ControlCs, Control("setChunkSize", size), 0)
    /\ encChunkSize' = size
    /\ UNCHANGED encWindow

\* The encoder announces its window before it sends anything else.
EncodeWindow(size) ==
    /\ sent = <<>> \/ "shrinks window" \in Habits
    /\ Begin(ControlCs, Control("windowAckSize", size), 0)
    /\ encWindow' = size
    /\ UNCHANGED encChunkSize

\* A ping, an acknowledgement, a bandwidth, a shared object: nothing the
\* encoder's own state depends on.  "badCommand" is a command whose AMF0 body
\* does not decode.
EncodeOther(type) ==
    /\ Begin(ControlCs, Control(type, 0), 0)
    /\ UNCHANGED <<encChunkSize, encWindow>>

\* ABORT_MESSAGE for chunk stream c, whose next message has a full header.
EncodeAbort(c) ==
    /\ conn = "open"
    /\ Len(sent) < MaxMessages
    /\ Idle(ControlCs)
    /\ "aborts" \in Habits \/ \A d \in AllCs : Idle(d)
    /\ ~Blocked
    /\ LET m == Control("abort", c)
           tokens == ChunkTokens(0, ControlCs, 0, FALSE, 1, "abort", Len(sent) + 1, 1, 1)
       IN  /\ Len(wire) + Len(tokens) <= MaxWire
           /\ wire' = wire \o tokens
           /\ sent' = Append(sent, m)
           /\ complete' = Append(complete, Len(sent) + 1)
           /\ encBytes' = (encBytes + Counted(tokens, 1)) % Wrap
           /\ encLast' = [encLast EXCEPT ![c] = None,
                 ![ControlCs] = [type |-> "abort", len |-> 1, ts |-> 0, ext |-> FALSE,
                                 delta |-> 0, relative |-> FALSE]]
           /\ left' = [left EXCEPT ![c] = [id |-> 0, units |-> 0]]
    /\ UNCHANGED <<encChunkSize, encWindow, encAcked, replies, readVars>>

\* The later chunks of a message have a format 3 header, and repeat the
\* extended timestamp of the first.
EncodeContinuation(c) ==
    LET id == left[c].id
        h == encLast[c]
    IN  /\ conn = "open"
        /\ ~Idle(c)
        /\ "stops anywhere" \in Habits => ~Blocked
        /\ WriteChunk(3, c, IF h.relative THEN h.delta ELSE h.ts, h.ext,
                      sent[id], id, left[c].units)
        /\ UNCHANGED <<sent, encLast, encChunkSize, encWindow, encAcked,
                       replies, readVars>>

\* The encoder reads what the server wrote.
EncoderReceives ==
    /\ replies # <<>>
    /\ replies' = Tail(replies)
    /\ encAcked' = IF Head(replies).type = "ack" THEN Head(replies).val ELSE encAcked
    /\ UNCHANGED <<sent, complete, left, encLast, encChunkSize, encWindow,
                   encBytes, wire, readVars>>

-----------------------------------------------------------------------------
(* The server.  Every action below reads one whole chunk. *)

h == Head(wire)
last == lastChunk[h.cs]

\* Mutant of Extended: a format 3 chunk never has an extended timestamp.
NeverExtended3 == h.fmt # 3 /\ h.ts = Sentinel

\* A format 3 chunk has the extended timestamp the one before it had.
Extended == IF h.fmt = 3 THEN last.ext ELSE h.ts = Sentinel

HeaderTokens == IF Extended THEN 2 ELSE 1

\* Mutant of Header: every format 3 chunk adds the delta.
HeaderAddsAlways ==
    LET field == IF Extended THEN wire[2].ts ELSE h.ts IN
    [type  |-> IF h.fmt \in {0, 1} THEN h.type ELSE last.type,
     len   |-> IF h.fmt \in {0, 1} THEN h.len ELSE last.len,
     ext   |-> Extended,
     delta |-> CASE h.fmt = 0 -> 0
                 [] h.fmt \in {1, 2} -> field
                 [] OTHER -> last.delta,
     ts    |-> CASE h.fmt = 0 -> field
                 [] h.fmt \in {1, 2} -> (last.ts + field) % Wrap
                 [] OTHER -> (last.ts + last.delta) % Wrap]

\* The header with everything it inherits and the timestamp it amounts to.
Header ==
    LET field == IF Extended THEN wire[2].ts ELSE h.ts IN
    [type  |-> IF h.fmt \in {0, 1} THEN h.type ELSE last.type,
     len   |-> IF h.fmt \in {0, 1} THEN h.len ELSE last.len,
     ext   |-> Extended,
     delta |-> CASE h.fmt = 0 -> 0
                 [] h.fmt \in {1, 2} -> field
                 [] OTHER -> last.delta,
     ts    |-> CASE h.fmt = 0 -> field
                 [] h.fmt \in {1, 2} -> (last.ts + field) % Wrap
                 [] h.fmt = 3 /\ message = None -> (last.ts + last.delta) % Wrap
                 [] OTHER -> last.ts]

\* What ParseChunk takes for payload, and the rest of the chunk before it.
ChunkLength ==
    Smallest({IF h.fmt \in {0, 1} THEN h.len ELSE last.len, peerMaxChunkSize}
             \cup (IF message = None THEN {} ELSE {message.len - Len(message.payload)}))
InPlace(i) == wire[i].k = IF i = 1 THEN "hdr"
                          ELSE IF i <= HeaderTokens THEN "ext" ELSE "pay"

\* What is wrong with the chunk: the reader takes something else for its
\* header, extended timestamp or payload, or, as parseChunkMessageHeader
\* finds, a relative header has no predecessor.
Fault ==
    CASE h.k # "hdr" -> "lost"
      [] h.k = "hdr" /\ h.fmt # 0 /\ last = None -> "closed"
      [] OTHER -> IF \A i \in 1 .. Smallest({Len(wire), HeaderTokens + ChunkLength}) : InPlace(i)
                  THEN "none" ELSE "lost"

ChunkReady ==
    /\ conn = "open"
    /\ wire # <<>>
    /\ Fault = "none"
    /\ Len(wire) >= HeaderTokens + ChunkLength

\* ParseMessage's message once this chunk is appended.  The chunk stream of
\* the chunk is not compared with that of the message.
Assembled ==
    LET body == SubSeq(wire, HeaderTokens + 1, HeaderTokens + ChunkLength) IN
    IF message = None
    THEN [type |-> Header.type, len |-> Header.len, ts |-> Header.ts, payload |-> body]
    ELSE [message EXCEPT !.ts = Header.ts, !.payload = @ \o body]
Done == Len(Assembled.payload) = Assembled.len

TakeChunk ==
    /\ ChunkReady
    /\ wire' = SubSeq(wire, HeaderTokens + ChunkLength + 1, Len(wire))
    /\ UNCHANGED encVars

\* Mutant of Counting: acknowledges after the window is exceeded.
CountingLate(answer) ==
    LET total == (bytesReceived + Assembled.len) % Wrap
        due == /\ peerWindowAckSize > 0
               /\ (total - lastAcked) % Wrap > peerWindowAckSize
    IN  /\ bytesReceived' = total
        /\ lastAcked' = IF due THEN total ELSE lastAcked
        /\ replies' = replies
              \o (IF due THEN <<[type |-> "ack", val |-> total]>> ELSE <<>>) \o answer

\* A complete message is counted, acknowledged when the peer's window is
\* full, and acted on; `answer` is what acting on it sends.
Counting(answer) ==
    LET total == (bytesReceived + Assembled.len) % Wrap
        due == /\ peerWindowAckSize > 0
               /\ (total - lastAcked) % Wrap >= peerWindowAckSize
    IN  /\ bytesReceived' = total
        /\ lastAcked' = IF due THEN total ELSE lastAcked
        /\ replies' = replies
              \o (IF due THEN <<[type |-> "ack", val |-> total]>> ELSE <<>>) \o answer

Complete(types, answer) ==
    /\ TakeChunk
    /\ Done
    /\ Assembled.type \in types
    /\ message' = None
    /\ Counting(answer)

Filed == [lastChunk EXCEPT ![h.cs] = Header]

\* The message is not complete.
ReadPart ==
    /\ TakeChunk
    /\ ~Done
    /\ message' = Assembled
    /\ lastChunk' = Filed
    /\ UNCHANGED <<replies, peerMaxChunkSize, ackVars, conn, room>>

\* HandlerServer ends on an error of ParseMessage: of the chunk, or of a
\* command that does not decode, which is counted first.
ReadFails ==
    \/ /\ conn = "open"
       /\ wire # <<>>
       /\ Fault # "none"
       /\ conn' = Fault
       /\ UNCHANGED <<encVars, wire, replies, lastChunk, message,
                      peerMaxChunkSize, ackVars, room>>
    \/ /\ Complete({"badCommand"}, <<>>)
       /\ conn' = "closed"
       /\ lastChunk' = Filed
       /\ UNCHANGED <<peerMaxChunkSize, peerWindowAckSize, room>>

\* The payload is that of one message, in order; and the value it encodes.
Intact(m) ==
    /\ \A i \in 1 .. m.len : m.payload[i].id = m.payload[1].id /\ m.payload[i].i = i
    /\ sent[m.payload[1].id].type = m.type
Value(m) == sent[m.payload[1].id].val

Places(payload) == [i \in 1 .. Len(payload) |-> <<payload[i].id, payload[i].i>>]

\* AudioMessage.Do, VideoMessage.Do, DataMessage.Do.
ReadMedia ==
    /\ Complete({"audio", "video"}, <<>>)
    /\ room' = Append(room, [type |-> Assembled.type, ts |-> Assembled.ts,
                             body |-> Places(Assembled.payload)])
    /\ lastChunk' = Filed
    /\ UNCHANGED <<peerMaxChunkSize, peerWindowAckSize, conn>>

\* AggregateMessage.Do: every sub-message it knows, at the container's time
\* plus its distance from the first.  Mixed payload does not parse.
Tags(m) ==
    LET subs == Value(m) IN
    FlattenSeq([j \in 1 .. Len(subs) |->
        IF subs[j].type \in {"audio", "video"}
        THEN <<[type |-> subs[j].type,
                ts   |-> (m.ts + subs[j].ts - subs[1].ts) % Wrap,
                body |-> <<m.payload[1].id, j>>]>>
        ELSE <<>>])
ReadAggregate ==
    /\ Complete({"aggregate"}, <<>>)
    /\ IF Intact(Assembled)
       THEN room' = room \o Tags(Assembled) /\ UNCHANGED conn
       ELSE conn' = "closed" /\ UNCHANGED room
    /\ lastChunk' = Filed
    /\ UNCHANGED <<peerMaxChunkSize, peerWindowAckSize>>

\* SetChunkSizeMessage.Do.
ReadChunkSize ==
    /\ Complete({"setChunkSize"}, <<>>)
    /\ peerMaxChunkSize' = Value(Assembled)
    /\ lastChunk' = Filed
    /\ UNCHANGED <<peerWindowAckSize, conn, room>>

\* WindowAcknowledgeSizeMessage.Do.
ReadWindow ==
    /\ Complete({"windowAckSize"}, <<>>)
    /\ peerWindowAckSize' = Value(Assembled)
    /\ lastChunk' = Filed
    /\ UNCHANGED <<peerMaxChunkSize, conn, room>>

\* AbortMessage.Do forgets the header of the chunk stream.
ReadAbort ==
    /\ Complete({"abort"}, <<>>)
    /\ lastChunk' = [Filed EXCEPT ![Value(Assembled)] = None]
    /\ UNCHANGED <<peerMaxChunkSize, peerWindowAckSize, conn, room>>

\* UserControlMessage.Do answers a ping.
ReadPing ==
    /\ Complete({"ping"}, <<[type |-> "pong", val |-> Value(Assembled)]>>)
    /\ lastChunk' = Filed
    /\ UNCHANGED <<peerMaxChunkSize, peerWindowAckSize, conn, room>>

\* An acknowledgement, a bandwidth, a shared object: read and dropped.
ReadIgnored ==
    /\ Complete({"ignored"}, <<>>)
    /\ lastChunk' = Filed
    /\ UNCHANGED <<peerMaxChunkSize, peerWindowAckSize, conn, room>>

-----------------------------------------------------------------------------

EncodeFrame == \E c \in MediaCs, type \in FrameTypes, len \in Lengths, ts \in Times,
                  fmt \in 0 .. 3 : EncodeMedia(c, type, len, ts, <<>>, fmt)
EncodeAggregate == \E c \in MediaCs, len \in Lengths, ts \in Times, subs \in Aggregates,
                      fmt \in 0 .. 3 : EncodeMedia(c, "aggregate", len, ts, subs, fmt)
AnnounceChunkSize == \E size \in ChunkSizes : EncodeChunkSize(size)
AnnounceWindow == \E size \in Windows : EncodeWindow(size)
EncodePing == EncodeOther("ping")
EncodeIgnored == EncodeOther("ignored")
EncodeBadCommand == EncodeOther("badCommand")
Abort == \E c \in MediaCs : EncodeAbort(c)
Continue == \E c \in AllCs : EncodeContinuation(c)

ReadChunk == \/ ReadPart \/ ReadMedia \/ ReadAggregate \/ ReadChunkSize \/ ReadWindow
             \/ ReadAbort \/ ReadPing \/ ReadIgnored \/ ReadFails

Next ==
    \/ EncodeFrame \/ EncodeAggregate \/ AnnounceChunkSize \/ AnnounceWindow
    \/ EncodePing \/ EncodeIgnored \/ EncodeBadCommand \/ Abort \/ Continue
    \/ EncoderReceives
    \/ ReadChunk

Spec == Init /\ [][Next]_vars

\* The connection's goroutine reads what is there, and the encoder goes on
\* with a message it began and reads what it is sent.
FairSpec == Spec /\ WF_vars(ReadChunk) /\ WF_vars(Continue) /\ WF_vars(EncoderReceives)

-----------------------------------------------------------------------------
(* Properties. *)

\* What message id means to the room: its payload in order at the time it
\* was sent at; an aggregate, its known parts at their distances from the first.
Meaning(id) ==
    LET m == sent[id] IN
    CASE m.type \in {"audio", "video"} ->
           <<[type |-> m.type, ts |-> m.ts, body |-> [i \in 1 .. m.len |-> <<id, i>>]]>>
      [] m.type = "aggregate" ->
           Tags([ts |-> m.ts, payload |-> <<[id |-> id, i |-> 1]>>])
      [] OTHER -> <<>>

\* However the encoder abbreviates its headers and cuts its messages, the
\* room gets every message the encoder completed, whole, unmixed, in order
\* and with the timestamp it was sent with: nothing is missing once the
\* stream has been read (chunk.go:71-205, message.go:114-190,
\* aggregate_message.go:34-99).
MessagesWhole ==
    LET meant == FlattenSeq([k \in 1 .. Len(complete) |-> Meaning(complete[k])]) IN
    /\ IsPrefix(room, meant)
    /\ wire = <<>> /\ conn = "open" => room = meant

\* The reader never takes a byte of the stream for what it is not: chunk
\* sizes and extended timestamps are agreed on at every byte
\* (chunk.go:132-149, 183-191; control_message.go:240-243).
InFrame == conn # "lost"

\* An encoder stopped by its own acknowledgement window is let go: "Every
\* `windowSize` bytes we must reply with an Acknowledgement so the peer's send
\* window can slide forward" (rtmp.go:29-31; message.go:192-202).
WindowSlides == Blocked ~> (~Blocked \/ conn # "open")

=============================================================================
