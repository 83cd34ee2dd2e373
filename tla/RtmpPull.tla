------------------------------ MODULE RtmpPull ------------------------------
(***************************************************************************)
(* A client and this server at the two ends of an RTMP connection: the      *)
(* handshake (librtmp/handshake.go), the commands (command_message.go), the *)
(* pull client (client.go), and the goroutine that RTMPJoin (room.go)       *)
(* starts for a player, which writes media to the connection on which the   *)
(* connection's own goroutine is still answering.                           *)
(*                                                                          *)
(* The client is either the pull client of another GGmpeg, whose room takes *)
(* the media, or a player of another make, which may use the complex        *)
(* handshake and the other commands.  A message crosses as chunks of at     *)
(* most the size its writer uses; its length is in units of the default     *)
(* chunk size.  HMAC digests are terms: [key, over].                        *)
(***************************************************************************)
EXTENDS Integers, Sequences, SequencesExt, Amf0

CONSTANTS
    Modes,            \* handshake modes of a player: SIMPLE, COMPLEX1, COMPLEX2
    Apps,             \* applications a client may ask for; "live" is configured
    OtherCommands,    \* commands a player may send once it plays
    MetaShape,        \* how the publisher sends its metadata: see PublishMeta
    FrameUnits,       \* length of a frame; above OwnChunk it is several chunks
    Silent,           \* environment: a server that answers no command
    MaxOthers,        \* bound on those commands
    MaxTags           \* bound on what is published

DefaultChunk == 1     \* 128 bytes
OwnChunk == 3         \* 4096 bytes

ASSUME PullAssumption ==
    /\ Modes \subseteq {"SIMPLE", "COMPLEX1", "COMPLEX2"}
    /\ "play" \notin OtherCommands     \* one goroutine of RTMPJoin to a connection
    /\ MetaShape \in {"setDataFrame", "onMetaData"}
    /\ FrameUnits \in Nat \ {0}
    /\ Silent \in BOOLEAN
    /\ MaxOthers \in Nat /\ MaxTags \in Nat

\* ParseMessage's message: the first chunk's, what was appended to it, and
\* whether all of that was its own.
NoMessage == [msg |-> Nil, got |-> 0, mixed |-> FALSE]

VARIABLES
    client,    \* kind, pc, mode, app asked for, results counted, chunk size, message
    asked,     \* names of the commands the client sent; the number is the transaction
    answered,  \* transactions of the answers it got, in order
    pulled,    \* the pull client's room: metadata and frames it was given
    up, down,  \* the two directions of the connection
    gone,      \* the ends whose connection is closed or collected
    server,    \* pc, mode, app, chunk size, message, answers still to send
    player,    \* goroutine of RTMPJoin: pc, chunks still to send, place in the log
    torn,      \* history: an answer was written between two chunks of a frame
    upstream,  \* the room at the server: "none", "open", "closed"
    log,       \* its broadcast: tags in order
    meta       \* Room.metaTag

clientVars == <<client, asked, answered, pulled>>
roomVars == <<upstream, log, meta>>
vars == <<clientVars, up, down, gone, server, player, torn, roomVars>>

Init ==
    /\ \E kind \in {"pull", "player"}, app \in Apps :
         \E mode \in IF kind = "pull" THEN {"SIMPLE"} ELSE Modes :
           client = [kind |-> kind, app |-> app, mode |-> mode, pc |-> "c0", late |-> FALSE,
                     results |-> 0, expect |-> 0, chunk |-> DefaultChunk, part |-> NoMessage]
    /\ asked = <<>> /\ answered = <<>>
    /\ pulled = [meta |-> Nil, tags |-> <<>>]
    /\ up = <<>> /\ down = <<>>
    /\ gone = {}
    /\ server = [pc |-> "c0", mode |-> "SIMPLE", s1 |-> Nil, app |-> "none",
                 chunk |-> DefaultChunk, part |-> NoMessage, todo |-> <<>>, warned |-> FALSE]
    /\ player = [pc |-> "off", todo |-> <<>>, at |-> 0]
    /\ torn = FALSE
    /\ upstream = "none" /\ log = <<>> /\ meta = Nil

-----------------------------------------------------------------------------
(* Messages and chunks. *)

\* The i-th chunk of a message; only whether it is the first can be seen in it.
Chunk(m, i, cut) ==
    [place |-> i, msg |-> m,
     units |-> IF m.len - (i - 1) * cut < cut THEN m.len - (i - 1) * cut ELSE cut]
\* The loop every Send has over the payload: FMT0 first, FMT3 for the rest.
Chunks(m, cut) == [i \in 1 .. (m.len + cut - 1) \div cut |-> Chunk(m, i, cut)]

\* ParseChunk takes as many units as its chunk size and the message allow.
Wanted(part, c, size) ==
    Min({c.msg.len, size} \cup (IF part = NoMessage THEN {} ELSE {part.msg.len - part.got}))
Framed(part, c, size) ==
    /\ Wanted(part, c, size) = c.units
    /\ part = NoMessage => c.place = 1
Appended(part, c) ==
    IF part = NoMessage THEN [msg |-> c.msg, got |-> c.units, mixed |-> FALSE]
    ELSE [part EXCEPT !.got = @ + c.units, !.mixed = @ \/ c.msg # part.msg]
Whole(part) == part.got = part.msg.len

\* The values of a command; `Names`, `Rests` and `Txns` are all that occur.
Result(name) == CASE name = "connect" -> <<Single("code", Str("Success"))>>
                  [] name = "createStream" -> <<Nil, Num(0)>>
                  [] OTHER -> <<Nil, Nil>>
Status(code) == <<Nil, Single("code", Str(code))>>
PlayStatuses == <<"Play.Reset", "Play.Start", "Data.Start", "Play.PublishNotify">>

Arguments(name) == CASE name = "publish" -> 5 [] name = "play" -> 4 [] OTHER -> 3
\* CommandMessage.Parse: what it makes of a body, or an error.
ParseCommand(body) ==
    LET d == Decode(body)
        ok == ~d.err /\ Len(d.values) >= 3 /\ Len(d.values) >= Arguments(d.values[1].v)
    IN  [name |-> IF ok THEN d.values[1].v ELSE "error",
         txn |-> IF ok THEN d.values[2].v ELSE 0,
         object |-> IF ok THEN d.values[3] ELSE Nil]

Requests == {"connect", "createStream", "play"} \cup OtherCommands
Rests == {<<Nil>>, <<Nil, Str("stream")>>}
         \cup {<<Single("app", Str(app))>> : app \in Apps}
         \cup {Result(name) : name \in Requests}
         \cup {Status(code) : code \in Range(PlayStatuses) \cup OtherCommands
                                       \cup {"Play.StreamNotFound"}}
\* What the other end parses from a command with these values.
Received == [values \in {<<Str(name), Num(txn)>> \o rest :
                 name \in Requests \cup {"_result", "onStatus"}, txn \in 1 .. 3 + MaxOthers,
                 rest \in Rests} |-> ParseCommand(EncodeAll(values))]

Command(name, txn, rest, len) ==
    [type |-> "command", len |-> len, values |-> <<Str(name), Num(txn)>> \o rest]
Control(type) == [type |-> type, len |-> 1, values |-> <<>>]
StatusMessage(txn, code) == Command("onStatus", txn, Status(code), 2)

-----------------------------------------------------------------------------
(* The handshake. *)

Hmac(key, over) == [key |-> key, over |-> over]

\* C1 and S1: the block that holds a digest over the rest, or 0 without one.
\* COMPLEX1 has it in the second block of 764 bytes, COMPLEX2 in the first.
Block(mode) == CASE mode = "COMPLEX1" -> 2 [] mode = "COMPLEX2" -> 1 [] OTHER -> 0
C1(mode) == [block |-> Block(mode), digest |-> Hmac("FPkey30", "c1"), random |-> "c1 random"]

\* HandshakeClient writes C0 and C1; a player may use a digest.
ClientHello ==
    /\ client.pc = "c0"
    /\ up' = up \o <<[hs |-> "C0", version |-> 3], [hs |-> "C1", c1 |-> C1(client.mode)]>>
    /\ client' = [client EXCEPT !.pc = "s0"]
    /\ UNCHANGED <<asked, answered, pulled, down, gone, server, player, torn, roomVars>>

ServerReadsC0 ==
    /\ server.pc = "c0" /\ up # <<>>
    /\ up' = Tail(up)
    /\ server' = [server EXCEPT !.pc = IF Head(up).version = 3 THEN "c1" ELSE "ended"]
    /\ UNCHANGED <<clientVars, down, gone, player, torn, roomVars>>

\* Mutant of ParseC1: only the first block is searched.
ParseC1FirstBlock(c1) ==
    IF c1.block = 1 THEN "COMPLEX2" ELSE "SIMPLE"

\* parseC1 looks for a digest in the second block, then in the first.
ParseC1(c1) ==
    IF c1.block = 2 THEN "COMPLEX1" ELSE IF c1.block = 1 THEN "COMPLEX2" ELSE "SIMPLE"

MakeS1(mode) == [block |-> Block(mode), digest |-> Hmac("FMSKey36", "s1"), random |-> "s1 random"]
\* makeS2: an echo of C1, or a tag under a key derived from C1's digest.
MakeS2(mode, c1) ==
    IF mode = "SIMPLE" THEN [echo |-> c1.random, tag |-> Nil]
    ELSE [echo |-> "random", tag |-> Hmac(Hmac("FMSKey", c1.digest), "s2")]

\* HandshakeServer reads C1 and writes S0, S1 and S2.
ServerReadsC1 ==
    /\ server.pc = "c1" /\ up # <<>>
    /\ up' = Tail(up)
    /\ LET c1 == Head(up).c1
           mode == ParseC1(c1)
       IN  /\ server' = [server EXCEPT !.pc = "c2", !.mode = mode, !.s1 = MakeS1(mode)]
           /\ down' = down \o <<[hs |-> "S0", version |-> 3],
                                [hs |-> "S1", s1 |-> MakeS1(mode)],
                                [hs |-> "S2", s2 |-> MakeS2(mode, c1)]>>
    /\ UNCHANGED <<clientVars, gone, player, torn, roomVars>>

ClientReadsS0 ==
    /\ client.pc = "s0" /\ down # <<>>
    /\ down' = Tail(down)
    /\ client' = [client EXCEPT !.pc = IF Head(down).version = 3 THEN "s1" ELSE "ended"]
    /\ UNCHANGED <<asked, answered, pulled, up, gone, server, player, torn, roomVars>>

\* C2 echoes S1; a player in the complex handshake signs it with S1's digest.
C2(mode, s1) ==
    IF mode = "SIMPLE" THEN [echo |-> s1.random, tag |-> Nil]
    ELSE [echo |-> "random", tag |-> Hmac(Hmac("FPkey", s1.digest), "c2")]

\* sendCommandRaw, in chunks of the default size: the client never sets another.
RequestRest(name) == CASE name = "connect" -> <<Single("app", Str(client.app))>>
                       [] name = "play" -> <<Nil, Str("stream")>>
                       [] OTHER -> <<Nil>>
RequestMessage(name, txn) ==
    Command(name, txn, RequestRest(name), IF name = "connect" THEN 3 ELSE 1)
Request(name, txn) == Chunks(RequestMessage(name, txn), DefaultChunk)

\* The client reads S1 and S2, whatever S2 says, writes C2 and connects:
\* runClientCommands.  A player whose handshake is complex checks S2.
S2Accepted(s2) ==
    client.mode # "SIMPLE" => s2.tag = Hmac(Hmac("FMSKey", C1(client.mode).digest), "s2")
ClientReadsS2 ==
    /\ client.pc = "s1" /\ Len(down) >= 2
    /\ down' = SubSeq(down, 3, Len(down))
    /\ LET s1 == down[1].s1 IN
       IF client.kind = "pull" \/ (s1.block = Block(client.mode) /\ S2Accepted(down[2].s2))
       THEN /\ asked' = <<"connect">>
            /\ up' = Append(up, [hs |-> "C2", c2 |-> C2(client.mode, s1)])
                     \o Request("connect", 1)
            /\ client' = [client EXCEPT !.pc = "connect", !.expect = 0, !.mode = "over"]
       ELSE /\ client' = [client EXCEPT !.pc = "ended"]
            /\ UNCHANGED <<asked, up>>
    /\ UNCHANGED <<answered, pulled, gone, server, player, torn, roomVars>>

\* parseC2 only warns.  The handshake object is of no use afterwards.
C2Accepted(c2) ==
    IF server.mode = "SIMPLE" THEN c2.echo = server.s1.random
    ELSE c2.tag = Hmac(Hmac("FPkey", server.s1.digest), "c2")
ServerReadsC2 ==
    /\ server.pc = "c2" /\ up # <<>>
    /\ up' = Tail(up)
    /\ server' = [server EXCEPT !.pc = "loop", !.warned = ~C2Accepted(Head(up).c2),
                                !.mode = "over", !.s1 = Nil]
    /\ UNCHANGED <<clientVars, down, gone, player, torn, roomVars>>

-----------------------------------------------------------------------------
(* The server's loop: ParseMessage and CommandMessage.Do.  A chunk that does
   not fit ends what is modelled: the framing of the stream is lost. *)

\* Mutant of Idle: nothing is read before the connection has an application.
IdleConnected == server.pc = "loop" /\ server.todo = <<>> /\ server.app # "none"

Idle == server.pc = "loop" /\ server.todo = <<>>

ServerPart == Appended(server.part, Head(up))

ServerTakes ==
    /\ Idle
    /\ up # <<>>
    /\ Framed(server.part, Head(up), DefaultChunk)
    /\ up' = Tail(up)
    /\ UNCHANGED <<clientVars, gone, roomVars>>

ServerReadsPart ==
    /\ ServerTakes
    /\ ~Whole(ServerPart)
    /\ server' = [server EXCEPT !.part = ServerPart]
    /\ UNCHANGED <<down, player, torn>>

Asked == Received[ServerPart.msg.values]

\* A whole command of one of these names.
ServerDoes(names) ==
    /\ ServerTakes
    /\ Whole(ServerPart)
    /\ ~Silent
    /\ Asked.name \in names

\* What is written to a client that left is lost.
Written(chunks) == down' = IF "client" \in gone THEN down ELSE down \o chunks

\* The connection's goroutine writes without regard to the player's, which may
\* have sent a part of a frame only.
InsideFrame == player.todo # <<>> /\ Head(player.todo).place > 1
ServerWrites(chunks) == Written(chunks) /\ torn' = (torn \/ InsideFrame)

\* Every answer is cut at ownMaxChunkSize.
Answer(m) == ServerWrites(Chunks(m, server.chunk))

\* connect: the chunk size changes before it is announced, and nothing
\* between the two is longer than either size.
ServerConnects ==
    /\ ServerDoes({"connect"})
    /\ LET app == Asked.object.f["app"].v IN
       IF app = "live"
       THEN /\ server' = [server EXCEPT !.part = NoMessage, !.app = app, !.chunk = OwnChunk]
            /\ ServerWrites(Chunks(Control("windowAckSize"), OwnChunk)
                            \o Chunks(Control("setPeerBandwidth"), OwnChunk)
                            \o Chunks(Control("setChunkSize"), OwnChunk)
                            \o Chunks(Control("streamBegin"), OwnChunk)
                            \o Chunks(Command("_result", Asked.txn, Result("connect"), 2), OwnChunk))
       ELSE /\ server' = [server EXCEPT !.pc = "ended"]
            /\ UNCHANGED <<down, torn>>
    /\ UNCHANGED player

\* Mutant of ServerAnswers: every answer is to the first transaction.
ServerAnswersConnect ==
    /\ ServerDoes({"createStream", "releaseStream", "FCPublish", "receiveAudio",
                   "FCUnpublish", "pause", "seek", "deleteStream", "call", "close"})
    /\ server' = [server EXCEPT !.part = NoMessage]
    /\ CASE Asked.name \in {"call", "close"} -> UNCHANGED <<down, torn>>
         [] Asked.name \in {"createStream", "releaseStream", "FCPublish", "receiveAudio"} ->
              Answer(Command("_result", 1, Result(Asked.name), 1))
         [] OTHER -> Answer(StatusMessage(Asked.txn, Asked.name))
    /\ UNCHANGED player

\* createStream, and the commands that are answered and otherwise ignored.
ServerAnswers ==
    /\ ServerDoes({"createStream", "releaseStream", "FCPublish", "receiveAudio",
                   "FCUnpublish", "pause", "seek", "deleteStream", "call", "close"})
    /\ server' = [server EXCEPT !.part = NoMessage]
    /\ CASE Asked.name \in {"call", "close"} -> UNCHANGED <<down, torn>>
         [] Asked.name \in {"createStream", "releaseStream", "FCPublish", "receiveAudio"} ->
              Answer(Command("_result", Asked.txn, Result(Asked.name), 1))
         [] OTHER -> Answer(StatusMessage(Asked.txn, Asked.name))
    /\ UNCHANGED player

\* play: RTMPJoin starts the player's goroutine, then four statuses follow.
ServerPlays ==
    /\ ServerDoes({"play"})
    /\ IF server.app = "none"
       THEN /\ server' = [server EXCEPT !.pc = "ended"]
            /\ UNCHANGED <<down, player, torn>>
       ELSE IF upstream = "open"
       THEN /\ server' = [server EXCEPT !.part = NoMessage, !.todo =
                 [i \in 1 .. 4 |-> StatusMessage(Asked.txn, PlayStatuses[i])]]
            /\ player' = [player EXCEPT !.pc = "snapshot"]
            /\ UNCHANGED <<down, torn>>
       ELSE /\ server' = [server EXCEPT !.part = NoMessage]
            /\ Answer(StatusMessage(Asked.txn, "Play.StreamNotFound"))
            /\ UNCHANGED player

ServerSendsStatus ==
    /\ server.pc = "loop" /\ server.todo # <<>>
    /\ Answer(Head(server.todo))
    /\ server' = [server EXCEPT !.todo = Tail(@)]
    /\ UNCHANGED <<clientVars, up, gone, player, roomVars>>

\* A read or write on a connection that the client left fails.
ServerFails ==
    /\ server.pc # "ended"
    /\ "client" \in gone
    /\ server' = [server EXCEPT !.pc = "ended"]
    /\ UNCHANGED <<clientVars, up, down, gone, player, torn, roomVars>>

-----------------------------------------------------------------------------
(* The goroutine of RTMPJoin. *)

(* Metadata: what the publisher sends, and what the room makes of it. *)
Properties == [width |-> Num(720)]
MetaBody ==
    IF MetaShape = "setDataFrame"
    THEN EncodeAll(<<Str("@setDataFrame"), Str("onMetaData"), Object(Properties)>>)
    ELSE EncodeAll(<<Str("onMetaData"), Object(Properties)>>)

\* ParseMetaTag: with three values the properties are the third.
ParseMeta(body) ==
    LET d == Decode(body)
        n == Len(d.values)
        string(v) == IF IsString(v) THEN v.v ELSE ""
        name == string(IF n >= 3 THEN d.values[2] ELSE d.values[1])
        props == IF n >= 3 THEN d.values[3] ELSE d.values[2]
    IN  IF d.err \/ n < 2 THEN Nil
        ELSE [kind |-> "meta", name |-> IF name = "" THEN "onMetaData" ELSE name,
              props |-> IF props = Nil THEN <<>> ELSE props.f]

\* The tag of the upstream's room, and what the client makes of it: Marshal
\* writes the name and the properties, and no verb.
RoomMeta == ParseMeta(MetaBody)
Marshal(m) == EncodeAll(<<Str(m.name), Object(m.props)>>)
RelayedMeta == ParseMeta(Marshal(RoomMeta))

MetaMessage == [type |-> "meta", len |-> 1, tag |-> [type |-> "meta"]]
TagMessage(tag) == IF tag.type = "meta" THEN MetaMessage
                   ELSE [type |-> "frame", len |-> FrameUnits, tag |-> tag]

PlayerSnapshots ==
    /\ player.pc = "snapshot"
    /\ player' = [player EXCEPT !.pc = "headers",
         !.todo = IF meta = Nil THEN <<>> ELSE Chunks(MetaMessage, server.chunk)]
    /\ UNCHANGED <<clientVars, up, down, gone, server, torn, roomVars>>

\* The reader of the broadcast starts at the latest key frame.
GopStart == Max({0} \cup {i - 1 : i \in {j \in DOMAIN log : log[j].type = "key"}})
PlayerSubscribes ==
    /\ player.pc = "headers" /\ player.todo = <<>>
    /\ player' = [player EXCEPT !.pc = "read", !.at = GopStart]
    /\ UNCHANGED <<clientVars, up, down, gone, server, torn, roomVars>>

\* Mutant of PlayerReads: each read goes back to the latest key frame.
PlayerRewinds ==
    /\ player.pc = "read" /\ player.todo = <<>>
    /\ player.at < Len(log)
    /\ player' = [player EXCEPT !.at = GopStart + 1,
                                !.todo = Chunks(TagMessage(log[GopStart + 1]), server.chunk)]
    /\ UNCHANGED <<clientVars, up, down, gone, server, torn, roomVars>>

PlayerReads ==
    /\ player.pc = "read" /\ player.todo = <<>>
    /\ player.at < Len(log)
    /\ player' = [player EXCEPT !.at = @ + 1,
                                !.todo = Chunks(TagMessage(log[player.at + 1]), server.chunk)]
    /\ UNCHANGED <<clientVars, up, down, gone, server, torn, roomVars>>

\* Each chunk is a write of its own.
PlayerSendsChunk ==
    /\ player.todo # <<>>
    /\ Written(<<Head(player.todo)>>)
    /\ player' = [player EXCEPT !.todo = Tail(@)]
    /\ UNCHANGED <<clientVars, up, gone, server, torn, roomVars>>

\* The broadcast is dead, or a write fails.
PlayerEnds ==
    /\ \/ player.pc = "read" /\ player.todo = <<>> /\ upstream = "closed"
       \/ player.pc \in {"headers", "read"} /\ player.todo # <<>> /\ "client" \in gone
    /\ player' = [player EXCEPT !.pc = "ended", !.todo = <<>>]
    /\ UNCHANGED <<clientVars, up, down, gone, server, torn, roomVars>>

-----------------------------------------------------------------------------
(* The client: expectResult after connect and createStream, then the loop. *)

Expecting == client.pc \in {"connect", "createStream"}
ClientPart == Appended(client.part, Head(down))
Got == ClientPart.msg

ClientTakes ==
    /\ Expecting \/ client.pc = "loop"
    /\ down # <<>>
    /\ Framed(client.part, Head(down), client.chunk)
    /\ down' = Tail(down)
    /\ UNCHANGED <<gone, server, player, torn, roomVars>>

\* The deadline is looked at when a message has been handled, not before.
AfterMessage == IF Expecting /\ client.late THEN "ended" ELSE client.pc

ClientReads(type) ==
    /\ ClientTakes
    /\ Whole(ClientPart)
    /\ Got.type = type

\* Mutant of ClientReadsControl: the announced size is not taken over.
ClientKeepsChunkSize ==
    /\ \E type \in {"windowAckSize", "setPeerBandwidth", "setChunkSize", "streamBegin"} :
         ClientReads(type)
    /\ client' = [client EXCEPT !.part = NoMessage, !.pc = AfterMessage]
    /\ UNCHANGED <<asked, answered, pulled, up>>

ClientReadsControl ==
    /\ \E type \in {"windowAckSize", "setPeerBandwidth", "setChunkSize", "streamBegin"} :
         ClientReads(type)
    /\ client' = [client EXCEPT !.part = NoMessage, !.pc = AfterMessage,
                                !.chunk = IF Got.type = "setChunkSize" THEN OwnChunk ELSE @]
    /\ UNCHANGED <<asked, answered, pulled, up>>

\* CommandMessage.Do of the client counts _result; onStatus does nothing.
\* expectResult returns when the count has grown, and the next command goes.
ClientReadsCommand ==
    /\ ClientReads("command")
    /\ LET c == Received[Got.values]
           results == IF c.name = "_result" THEN client.results + 1 ELSE client.results
           next == CASE Expecting /\ results > client.expect ->
                          IF client.pc = "connect" THEN <<"createStream">> ELSE <<"play">>
                     [] OTHER -> <<>>
       IN  /\ answered' = IF answered # <<>> /\ Last(answered) = c.txn THEN answered
                          ELSE Append(answered, c.txn)
           /\ asked' = asked \o next
           /\ up' = IF next = <<>> THEN up ELSE up \o Request(next[1], Len(asked) + 1)
           /\ client' = [client EXCEPT !.part = NoMessage, !.results = results,
                !.pc = CASE next = <<"createStream">> -> "createStream"
                         [] next = <<"play">> -> "loop"
                         [] OTHER -> AfterMessage,
                !.expect = results, !.late = IF next = <<>> THEN @ ELSE FALSE]
    /\ UNCHANGED pulled

\* ParseMessage reads on while the frame is not whole, and only a frame is ever
\* longer than a chunk of this direction.  Whole media goes to the pull client's
\* room; metadata is decoded first.
ClientReadsMedia ==
    /\ ClientTakes
    /\ Got.type \in {"meta", "frame"}
    /\ client' = IF Whole(ClientPart)
                 THEN [client EXCEPT !.part = NoMessage, !.pc = AfterMessage]
                 ELSE [client EXCEPT !.part = ClientPart]
    /\ pulled' = IF client.kind # "pull" \/ ~Whole(ClientPart) THEN pulled
                 ELSE IF Got.type = "meta" THEN [pulled EXCEPT !.meta = RelayedMeta]
                 ELSE [pulled EXCEPT !.tags = Append(@, IF ClientPart.mixed THEN [type |-> "mixed"]
                                                        ELSE Got.tag)]
    /\ UNCHANGED <<asked, answered, up>>

\* Of expectResult; a player may wait as long as it likes.
DeadlinePasses ==
    /\ client.kind = "pull"
    /\ Expecting
    /\ ~client.late
    /\ client' = [client EXCEPT !.late = TRUE]
    /\ UNCHANGED <<asked, answered, pulled, up, down, gone, server, player, torn, roomVars>>

PlayerCommands ==
    /\ client.kind = "player" /\ client.pc = "loop"
    /\ Len(asked) < 3 + MaxOthers
    /\ \E name \in OtherCommands :
         asked' = Append(asked, name) /\ up' = up \o Request(name, Len(asked) + 1)
    /\ UNCHANGED <<client, answered, pulled, down, gone, server, player, torn, roomVars>>

\* A client whose server is gone reads an error or the end.
ClientFails ==
    /\ client.pc # "ended"
    /\ "server" \in gone
    /\ client' = [client EXCEPT !.pc = "ended"]
    /\ UNCHANGED <<asked, answered, pulled, up, down, gone, server, player, torn, roomVars>>

\* A player leaves and closes its connection; what it has not read is lost.
PlayerLeaves ==
    /\ client.kind = "player" /\ client.pc = "loop"
    /\ client' = [client EXCEPT !.pc = "ended"]
    /\ gone' = gone \cup {"client"}
    /\ down' = <<>>
    /\ UNCHANGED <<asked, answered, pulled, up, server, player, torn, roomVars>>

\* Neither HandlerServer nor HandlerClient closes the connection: it goes when
\* nothing refers to it any more, the goroutine of RTMPJoin included.
Collect(end) ==
    /\ end \notin gone
    /\ IF end = "client" THEN client.pc = "ended"
       ELSE server.pc = "ended" /\ player.pc \in {"off", "ended"}
    /\ gone' = gone \cup {end}
    /\ UNCHANGED <<clientVars, up, down, server, player, torn, roomVars>>
Collects == \E end \in {"client", "server"} : Collect(end)

-----------------------------------------------------------------------------
(* The publisher at the server. *)

Publishes ==
    /\ upstream = "none"
    /\ upstream' = "open"
    /\ UNCHANGED <<clientVars, up, down, gone, server, player, torn, log, meta>>

\* DataMessage.Parse and Do: the tag is cached and written to the broadcast.
PublishesMeta ==
    /\ upstream = "open" /\ meta = Nil /\ Len(log) < MaxTags
    /\ meta' = RoomMeta
    /\ log' = Append(log, [type |-> "meta"])
    /\ UNCHANGED <<clientVars, up, down, gone, server, player, torn, upstream>>

PublishesFrame ==
    /\ upstream = "open" /\ Len(log) < MaxTags
    /\ \E type \in {"key", "inter"} : log' = Append(log, [type |-> type, n |-> Len(log) + 1])
    /\ UNCHANGED <<clientVars, up, down, gone, server, player, torn, upstream, meta>>

PublisherLeaves ==
    /\ upstream = "open"
    /\ upstream' = "closed"
    /\ UNCHANGED <<clientVars, up, down, gone, server, player, torn, log, meta>>

-----------------------------------------------------------------------------

ClientSteps ==
    \/ ClientHello \/ ClientReadsS0 \/ ClientReadsS2
    \/ ClientReadsControl \/ ClientReadsCommand \/ ClientReadsMedia
ServerSteps ==
    \/ ServerReadsC0 \/ ServerReadsC1 \/ ServerReadsC2
    \/ ServerReadsPart \/ ServerConnects \/ ServerAnswers \/ ServerPlays
    \/ ServerSendsStatus \/ ServerFails
PlayerSteps ==
    \/ PlayerSnapshots \/ PlayerSubscribes \/ PlayerReads \/ PlayerSendsChunk \/ PlayerEnds
Leaving == ClientFails \/ PlayerLeaves \/ Collects

Next ==
    \/ ClientSteps \/ ServerSteps \/ PlayerSteps \/ Leaving
    \/ DeadlinePasses \/ PlayerCommands
    \/ Publishes \/ PublishesMeta \/ PublishesFrame \/ PublisherLeaves

Spec == Init /\ [][Next]_vars

\* Each goroutine runs, a lost connection is noticed, and the collector runs.
\* Nothing makes a deadline pass, a player ask, or the publisher publish.
Noticed == "server" \in gone /\ ClientFails
FairSpec ==
    /\ Spec
    /\ WF_vars(ClientSteps) /\ WF_vars(ServerSteps) /\ WF_vars(PlayerSteps)
    /\ WF_vars(Noticed) /\ WF_vars(Collects)

-----------------------------------------------------------------------------
(* Properties. *)

\* Server and client end the handshake in the same mode, each accepts what the
\* other signed or echoed, and no client gives up on S1 or S2: the digests are
\* looked for, made and checked in the same blocks and under the same keys at
\* both ends (handshake.go:95-215, 221-360).
HandshakeAgrees ==
    /\ server.pc = "c2" /\ client.pc \in {"s0", "s1"} => server.mode = client.mode
    /\ ~server.warned
    /\ client.pc = "ended" => asked # <<>>

\* Every chunk that comes next is what the reader takes it for: the two ends
\* agree on the chunk size at each point of the stream, and no other message
\* is in the middle of this one.  False of the code: nothing keeps the goroutine
\* of RTMPJoin and the connection's own apart (room.go:80-146, chunk.go:183-191).
ChunksExpected ==
    /\ Idle /\ up # <<>> => Framed(server.part, Head(up), DefaultChunk)
    /\ (Expecting \/ client.pc = "loop") /\ down # <<>>
         => Framed(client.part, Head(down), client.chunk)

\* The same as long as no answer was written between two chunks of a frame:
\* the chunk size changes under the answers, the media goes out between them, and
\* a frame of several chunks is read as it was cut
\* (command_message.go:173-199, 482-499; chunk.go:183-191; room.go:80-146).
FramingAgreed == ~torn => ChunksExpected

\* Answers come in the order of the commands, and every command that has an
\* answer gets it before a later one does, while media and statuses share the
\* connection, as long as none fell inside a frame (command_message.go:169-423).
Owed == {n \in DOMAIN asked : asked[n] \notin {"call", "close"}}
AnswersInOrder ==
    ~torn =>
      /\ \A i, j \in DOMAIN answered : i < j => answered[i] < answered[j]
      /\ answered # <<>> => Range(answered) = {n \in Owed : n <= Last(answered)}

\* What the pull client's room is given is a stretch of the upstream's frames,
\* each put together from its own chunks, none twice and none missing in
\* between, as long as no answer fell inside a frame
\* (room.go:113-145, chunk.go:183-191, client.go:86-122).
Stretch ==
    /\ \A i \in DOMAIN pulled.tags :
         LET tag == pulled.tags[i] IN
         tag.type # "mixed" /\ tag.n \in DOMAIN log /\ log[tag.n] = tag
    /\ \A i \in 2 .. Len(pulled.tags) :
         LET from == pulled.tags[i - 1].n
             to == pulled.tags[i].n
         IN  from < to /\ \A n \in from + 1 .. to - 1 : log[n].type = "meta"
PulledIsAStretch == ~torn => Stretch

\* Until a client plays or has given up, one end can go on without a deadline,
\* another command or the publisher: the two never wait for each other in the
\* handshake or the commands.  These are finitely many steps, so the client does
\* get to play or give up (handshake.go:95-215, client.go:89-122).
ClientGoesOn ==
    \/ client.pc = "c0" \/ "server" \in gone
    \/ client.pc = "s0" /\ down # <<>>
    \/ client.pc = "s1" /\ Len(down) >= 2
    \/ Expecting /\ down # <<>> /\ Framed(client.part, Head(down), client.chunk)
ServerGoesOn ==
    \/ server.pc = "ended" \/ server.todo # <<>>
    \/ server.pc \in {"c0", "c1", "c2"} /\ up # <<>>
    \/ /\ Idle /\ up # <<>> /\ Framed(server.part, Head(up), DefaultChunk)
       /\ Silent => ~Whole(ServerPart)
NobodyStuck == client.pc \in {"loop", "ended"} \/ ClientGoesOn \/ ServerGoesOn

\* "Publishers emit data messages in two shapes" (meta.go:52-57): the room of a
\* pull has the properties the publisher sent upstream.
MetaRelayed == pulled.meta # Nil => pulled.meta.props = Properties

\* "when the upstream disconnects, cleanup() should tear the local room down"
\* (client.go:69-71): a pull does not outlive the stream it pulls.
PullEndsWithStream == (client.kind = "pull" /\ upstream = "closed") ~> (client.pc = "ended")

=============================================================================
