--------------------------- MODULE RtmpPullProofs ---------------------------
(***************************************************************************)
(* What the two ends of an RTMP connection keep, for any modes, commands   *)
(* and bounds: they agree on the handshake; what the one writes into a     *)
(* command the other parses; and, as long as no answer is written between  *)
(* two chunks of a frame, they agree on where each chunk belongs, every    *)
(* command that wants an answer gets it in its turn, and a pull client's   *)
(* room holds a stretch of the stream without a hole.                      *)
(***************************************************************************)
EXTENDS RtmpPull, SequenceTheorems, FiniteSetTheorems, WellFoundedInduction, TLAPS

-----------------------------------------------------------------------------
(* The handshake.                                                              *)

AllModes == {"SIMPLE", "COMPLEX1", "COMPLEX2"}
ClientFields == {"kind", "app", "mode", "pc", "late", "results", "expect", "chunk", "part"}
ServerFields == {"pc", "mode", "s1", "app", "chunk", "part", "todo", "warned"}
ControlTypes == {"windowAckSize", "setPeerBandwidth", "setChunkSize", "streamBegin"}

\* What is on the connection at each stage of the handshake.
C1Of(mode) == [hs |-> "C1", c1 |-> C1(mode)]
S1Of(mode) == [hs |-> "S1", s1 |-> MakeS1(mode)]
S2Of(mode) == [hs |-> "S2", s2 |-> MakeS2(mode, C1(mode))]
C2Of(mode) == [hs |-> "C2", c2 |-> C2(mode, MakeS1(mode))]

ServerKnows(mode) == server.mode = mode /\ server.s1 = MakeS1(mode)
AtHello == client.pc = "c0" /\ server.pc = "c0" /\ up = <<>> /\ down = <<>>
AtC0 == /\ client.pc = "s0" /\ server.pc = "c0" /\ down = <<>>
        /\ up = <<[hs |-> "C0", version |-> 3], C1Of(client.mode)>>
AtC1 == /\ client.pc = "s0" /\ server.pc = "c1" /\ down = <<>>
        /\ up = <<C1Of(client.mode)>>
AtS0 == /\ client.pc = "s0" /\ server.pc = "c2" /\ up = <<>> /\ ServerKnows(client.mode)
        /\ down = <<[hs |-> "S0", version |-> 3], S1Of(client.mode), S2Of(client.mode)>>
AtS1 == /\ client.pc = "s1" /\ server.pc = "c2" /\ up = <<>> /\ ServerKnows(client.mode)
        /\ down = <<S1Of(client.mode), S2Of(client.mode)>>
AtC2 == /\ client.pc = "connect" /\ server.pc = "c2" /\ down = <<>> /\ asked = <<"connect">>
        /\ \E mode \in AllModes : ServerKnows(mode) /\ up = <<C2Of(mode)>> \o Request("connect", 1)

Greeting == AtHello \/ AtC0 \/ AtC1 \/ AtS0 \/ AtS1
Handshaking ==
    /\ gone = {} /\ player.pc = "off" /\ player.todo = <<>>
    /\ Greeting => asked = <<>> /\ client.mode \in AllModes
    /\ Greeting \/ AtC2
Through ==
    /\ client.pc \in {"connect", "createStream", "loop", "ended"}
    /\ server.pc \in {"loop", "ended"}
    /\ Len(asked) >= 1
HandshakeInv ==
    /\ DOMAIN client = ClientFields /\ DOMAIN server = ServerFields
    /\ asked \in Seq(Requests)
    /\ client.kind \in {"pull", "player"}
    /\ client.kind = "pull" => client.mode \in {"SIMPLE", "over"}
    /\ ~server.warned
    /\ Handshaking \/ Through

LEMMA HandshakeInit == Init => HandshakeInv
<1> SUFFICES ASSUME Init PROVE HandshakeInv
  OBVIOUS
<1>1. PICK kind \in {"pull", "player"}, app \in Apps :
        \E mode \in IF kind = "pull" THEN {"SIMPLE"} ELSE Modes :
           client = [kind |-> kind, app |-> app, mode |-> mode, pc |-> "c0", late |-> FALSE,
                     results |-> 0, expect |-> 0, chunk |-> DefaultChunk, part |-> NoMessage]
  BY DEF Init
<1>2. client.mode \in AllModes /\ client.pc = "c0" /\ client.kind = kind
      /\ (kind = "pull" => client.mode = "SIMPLE") /\ DOMAIN client = ClientFields
  BY <1>1, PullAssumption DEF PullAssumption, AllModes, ClientFields
<1>3. DOMAIN server = ServerFields /\ server.pc = "c0" /\ server.warned = FALSE
  BY DEF Init, ServerFields
<1> QED
  BY <1>2, <1>3 DEF Init, HandshakeInv, Handshaking, Greeting, AtHello

\* Each step of the handshake leads to the next stage.
LEMMA HelloStep ==
  ASSUME HandshakeInv, ClientHello PROVE HandshakeInv'
<1>1. Handshaking /\ AtHello
  BY DEF HandshakeInv, Handshaking, Greeting, AtHello, AtC0, AtC1, AtS0, AtS1, AtC2, Through, ClientHello
<1>2. client' = [client EXCEPT !.pc = "s0"] /\ DOMAIN client = ClientFields
  BY DEF ClientHello, HandshakeInv
<1>3. client'.pc = "s0" /\ client'.mode = client.mode /\ client'.kind = client.kind /\ DOMAIN client' = ClientFields
  BY <1>2 DEF ClientFields
<1>4. up' = <<[hs |-> "C0", version |-> 3], C1Of(client.mode)>>
  BY <1>1 DEF ClientHello, AtHello, C1Of
<1>5. AtC0'
  BY <1>1, <1>3, <1>4 DEF ClientHello, AtHello, AtC0
<1> QED
  BY <1>1, <1>3, <1>5 DEF ClientHello, HandshakeInv, Handshaking, Greeting, AtHello

LEMMA C0Step ==
  ASSUME HandshakeInv, ServerReadsC0 PROVE HandshakeInv'
<1>1. Handshaking /\ AtC0
  BY DEF HandshakeInv, Handshaking, Greeting, AtHello, AtC0, AtC1, AtS0, AtS1, AtC2, Through, ServerReadsC0
<1>2. Head(up) = [hs |-> "C0", version |-> 3] /\ Tail(up) = <<C1Of(client.mode)>>
  BY <1>1 DEF AtC0
<1>3. server' = [server EXCEPT !.pc = "c1"] /\ DOMAIN server = ServerFields
  BY <1>2 DEF ServerReadsC0, HandshakeInv
<1>4. server'.pc = "c1" /\ server'.warned = server.warned /\ DOMAIN server' = ServerFields
  BY <1>3 DEF ServerFields
<1>5. AtC1'
  BY <1>1, <1>2, <1>4 DEF ServerReadsC0, AtC0, AtC1, clientVars
<1> QED
  BY <1>1, <1>4, <1>5 DEF ServerReadsC0, HandshakeInv, Handshaking, Greeting, AtC0, clientVars

\* The server finds the digest in the block where the client put it.
LEMMA ParsedMode == \A mode \in AllModes : ParseC1(C1(mode)) = mode
BY DEF AllModes, ParseC1, C1, Block

LEMMA C1Step ==
  ASSUME HandshakeInv, ServerReadsC1 PROVE HandshakeInv'
<1>1. Handshaking /\ AtC1
  BY DEF HandshakeInv, Handshaking, Greeting, AtHello, AtC0, AtC1, AtS0, AtS1, AtC2, Through, ServerReadsC1
<1>2. Head(up).c1 = C1(client.mode) /\ Tail(up) = <<>>
  BY <1>1 DEF AtC1, C1Of
<1>3. client.mode \in AllModes /\ ParseC1(C1(client.mode)) = client.mode
  BY <1>1, ParsedMode DEF Handshaking, Greeting
<1> DEFINE mode == client.mode
<1>4. /\ server' = [server EXCEPT !.pc = "c2", !.mode = mode, !.s1 = MakeS1(mode)]
      /\ down' = <<[hs |-> "S0", version |-> 3], S1Of(mode), S2Of(mode)>>
      /\ up' = <<>>
  <2>1. /\ server' = [server EXCEPT !.pc = "c2", !.mode = mode, !.s1 = MakeS1(mode)]
        /\ down' = down \o <<[hs |-> "S0", version |-> 3], S1Of(mode), S2Of(mode)>>
    BY <1>2, <1>3 DEF ServerReadsC1, S1Of, S2Of
  <2>2. down = <<>>
    BY <1>1 DEF AtC1
  <2> QED
    BY <1>2, <2>1, <2>2 DEF ServerReadsC1
<1>5. DOMAIN server = ServerFields
  BY DEF HandshakeInv
<1>6. /\ server'.pc = "c2" /\ server'.mode = mode /\ server'.s1 = MakeS1(mode)
      /\ server'.warned = server.warned /\ DOMAIN server' = ServerFields
  BY <1>4, <1>5 DEF ServerFields
<1>7. AtS0'
  BY <1>1, <1>4, <1>6 DEF ServerReadsC1, AtC1, AtS0, clientVars, ServerKnows
<1> QED
  BY <1>1, <1>6, <1>7 DEF ServerReadsC1, HandshakeInv, Handshaking, Greeting, AtC1, clientVars

LEMMA S0Step ==
  ASSUME HandshakeInv, ClientReadsS0 PROVE HandshakeInv'
<1>1. Handshaking /\ AtS0
  BY DEF HandshakeInv, Handshaking, Greeting, AtHello, AtC0, AtC1, AtS0, AtS1, AtC2, Through, ClientReadsS0
<1>2. Head(down) = [hs |-> "S0", version |-> 3] /\ Tail(down) = <<S1Of(client.mode), S2Of(client.mode)>>
  BY <1>1 DEF AtS0
<1>3. client' = [client EXCEPT !.pc = "s1"] /\ DOMAIN client = ClientFields
  BY <1>2 DEF ClientReadsS0, HandshakeInv
<1>4. client'.pc = "s1" /\ client'.mode = client.mode /\ client'.kind = client.kind /\ DOMAIN client' = ClientFields
  BY <1>3 DEF ClientFields
<1>5. AtS1'
  BY <1>1, <1>2, <1>4 DEF ClientReadsS0, AtS0, AtS1, ServerKnows
<1> QED
  BY <1>1, <1>4, <1>5 DEF ClientReadsS0, HandshakeInv, Handshaking, Greeting, AtS0

\* A client that signs accepts the answer to its own digest, so no client gives up.
LEMMA S2Step ==
  ASSUME HandshakeInv, ClientReadsS2 PROVE HandshakeInv'
<1> DEFINE mode == client.mode
<1>1. Handshaking /\ AtS1
  BY DEF HandshakeInv, Handshaking, Greeting, AtHello, AtC0, AtC1, AtS0, AtS1, AtC2, Through, ClientReadsS2
<1>2. down[1].s1 = MakeS1(mode) /\ down[2].s2 = MakeS2(mode, C1(mode)) /\ SubSeq(down, 3, Len(down)) = <<>>
  BY <1>1 DEF AtS1, S1Of, S2Of
<1>3. MakeS1(mode).block = Block(client.mode) /\ S2Accepted(MakeS2(mode, C1(mode)))
  BY DEF MakeS1, S2Accepted, MakeS2
<1>4. /\ asked' = <<"connect">>
      /\ up' = Append(up, C2Of(mode)) \o Request("connect", 1)
      /\ client' = [client EXCEPT !.pc = "connect", !.expect = 0, !.mode = "over"]
      /\ down' = <<>>
  BY <1>2, <1>3 DEF ClientReadsS2, C2Of
<1>5. DOMAIN client = ClientFields
  BY DEF HandshakeInv
<1>6. /\ client'.pc = "connect" /\ client'.mode = "over" /\ client'.kind = client.kind
      /\ client'.app = client.app /\ DOMAIN client' = ClientFields
  BY <1>4, <1>5 DEF ClientFields
<1>7. Request("connect", 1)' = Request("connect", 1)
  BY <1>6 DEF Request, RequestMessage, RequestRest
<1>8. up' = <<C2Of(mode)>> \o Request("connect", 1)'
  <2>1. Append(up, C2Of(mode)) = <<C2Of(mode)>>
    BY <1>1 DEF AtS1
  <2> QED
    BY <1>4, <1>7, <2>1
<1>9. mode \in AllModes
  BY <1>1 DEF Handshaking, Greeting
<1>10. AtC2'
  BY <1>1, <1>4, <1>6, <1>8, <1>9 DEF ClientReadsS2, AtS1, AtC2, ServerKnows
<1>11. asked' \in Seq(Requests)
  BY <1>4 DEF Requests
<1>12. ~Greeting'
  BY <1>6 DEF Greeting, AtHello, AtC0, AtC1, AtS0, AtS1
<1> QED
  BY <1>1, <1>6, <1>10, <1>11, <1>12 DEF ClientReadsS2, HandshakeInv, Handshaking

\* The server accepts C2: an echo of S1, or a tag under a key of its digest.
LEMMA C2Step ==
  ASSUME HandshakeInv, ServerReadsC2 PROVE HandshakeInv'
<1>1. Handshaking /\ AtC2
  BY DEF HandshakeInv, Handshaking, Greeting, AtHello, AtC0, AtC1, AtS0, AtS1, AtC2, Through, ServerReadsC2
<1>2. PICK mode \in AllModes : ServerKnows(mode) /\ up = <<C2Of(mode)>> \o Request("connect", 1)
  BY <1>1 DEF AtC2
<1>3. Head(up) = C2Of(mode)
  BY <1>2 DEF Request, Chunks
<1>4. C2Accepted(Head(up).c2)
  <2>1. server.mode = mode /\ server.s1 = MakeS1(mode) /\ Head(up).c2 = C2(mode, MakeS1(mode))
    BY <1>2, <1>3 DEF ServerKnows, C2Of
  <2>2. CASE mode = "SIMPLE"
    BY <2>1, <2>2 DEF C2Accepted, C2
  <2>3. CASE mode # "SIMPLE"
    BY <2>1, <2>3 DEF C2Accepted, C2
  <2> QED
    BY <2>2, <2>3
<1>5. DOMAIN server = ServerFields /\ server' = [server EXCEPT !.pc = "loop", !.warned = FALSE,
                                                               !.mode = "over", !.s1 = Nil]
  BY <1>4 DEF ServerReadsC2, HandshakeInv
<1>6. server'.pc = "loop" /\ ~server'.warned /\ DOMAIN server' = ServerFields
  BY <1>5 DEF ServerFields
<1> QED
  BY <1>1, <1>6 DEF AtC2, ServerReadsC2, HandshakeInv, Through, clientVars

\* What cannot happen before the handshake is over.
LEMMA StillHandshaking ==
  ASSUME Handshaking
  PROVE  /\ client.pc \in {"c0", "s0", "s1", "connect"} /\ server.pc \in {"c0", "c1", "c2"}
         /\ client.pc = "connect" => down = <<>>
         /\ gone = {} /\ player.pc = "off" /\ player.todo = <<>>
BY DEF Handshaking, Greeting, AtHello, AtC0, AtC1, AtS0, AtS1, AtC2

\* Afterwards nothing but the phases matters.
SameClient == DOMAIN client' = ClientFields /\ client'.kind = client.kind /\ client'.mode = client.mode
SameServer == DOMAIN server' = ServerFields /\ server'.warned = server.warned
LEMMA ThroughStays ==
  ASSUME HandshakeInv, ~Handshaking,
         SameClient, client'.pc \in {"connect", "createStream", "loop", "ended"},
         SameServer, server'.pc \in {"loop", "ended"},
         asked' \in Seq(Requests), Len(asked') >= Len(asked)
  PROVE  HandshakeInv'
<1>1. Through /\ asked \in Seq(Requests)
  BY DEF HandshakeInv
<1>2. Len(asked') >= 1
  BY <1>1 DEF Through
<1> QED
  BY <1>2 DEF HandshakeInv, Through, SameClient, SameServer

LEMMA ServerStepThrough ==
  ASSUME HandshakeInv,
         \/ ServerReadsPart \/ ServerConnects \/ ServerAnswers \/ ServerPlays
         \/ ServerSendsStatus \/ ServerFails
  PROVE  HandshakeInv'
<1>1. ~Handshaking
  BY StillHandshaking DEF ServerReadsPart, ServerConnects, ServerAnswers, ServerPlays,
     ServerSendsStatus, ServerFails, ServerDoes, ServerTakes, Idle
<1>2. DOMAIN client = ClientFields /\ DOMAIN server = ServerFields /\ Through /\ asked \in Seq(Requests)
  BY <1>1 DEF HandshakeInv
<1>3. client' = client /\ asked' = asked
  BY DEF ServerReadsPart, ServerConnects, ServerAnswers, ServerPlays,
     ServerSendsStatus, ServerFails, ServerDoes, ServerTakes, clientVars
<1>4. /\ SameServer
      /\ server'.pc \in {"loop", "ended"}
  <2>1. CASE ServerReadsPart
    BY <1>2, <2>1 DEF ServerReadsPart, ServerFields, SameServer, Through
  <2>2. CASE ServerConnects
    BY <1>2, <2>2 DEF ServerConnects, ServerFields, SameServer, Through
  <2>3. CASE ServerAnswers
    BY <1>2, <2>3 DEF ServerAnswers, ServerFields, SameServer, Through
  <2>4. CASE ServerPlays
    BY <1>2, <2>4 DEF ServerPlays, ServerFields, SameServer, Through
  <2>5. CASE ServerSendsStatus
    BY <1>2, <2>5 DEF ServerSendsStatus, ServerFields, SameServer, Through
  <2>6. CASE ServerFails
    BY <1>2, <2>6 DEF ServerFails, ServerFields, SameServer, Through
  <2> QED
    BY <2>1, <2>2, <2>3, <2>4, <2>5, <2>6
<1>5. SameClient
  BY <1>2, <1>3 DEF SameClient
<1> QED
  BY <1>1, <1>2, <1>3, <1>4, <1>5, ThroughStays DEF Through

LEMMA ClientStepThrough ==
  ASSUME HandshakeInv,
         \/ ClientReadsControl \/ ClientReadsCommand \/ ClientReadsMedia
         \/ PlayerCommands \/ ClientFails \/ PlayerLeaves
  PROVE  HandshakeInv'
<1>1. ~Handshaking
  BY StillHandshaking DEF ClientReadsControl, ClientReadsCommand, ClientReadsMedia, ClientReads,
     ClientTakes, Expecting, PlayerCommands, ClientFails, PlayerLeaves
<1>2. DOMAIN client = ClientFields /\ DOMAIN server = ServerFields /\ Through /\ asked \in Seq(Requests)
  BY <1>1 DEF HandshakeInv
<1>3. server' = server
  BY DEF ClientReadsControl, ClientReadsCommand, ClientReadsMedia, ClientReads,
     ClientTakes, PlayerCommands, ClientFails, PlayerLeaves
<1>4. /\ SameClient
      /\ client'.pc \in {"connect", "createStream", "loop", "ended"}
  <2>1. CASE ClientReadsControl
    BY <1>2, <2>1 DEF ClientReadsControl, ClientFields, SameClient, Through, AfterMessage
  <2>2. CASE ClientReadsCommand
    <3>1. PICK pc \in {"createStream", "loop", AfterMessage} : \E results, expect, late :
            client' = [client EXCEPT !.part = NoMessage, !.results = results, !.pc = pc,
                                     !.expect = expect, !.late = late]
      BY <2>2 DEF ClientReadsCommand
    <3> QED
      BY <1>2, <3>1 DEF ClientFields, SameClient, Through, AfterMessage
  <2>3. CASE ClientReadsMedia
    BY <1>2, <2>3 DEF ClientReadsMedia, ClientFields, SameClient, Through, AfterMessage
  <2>4. CASE PlayerCommands
    BY <1>2, <2>4 DEF PlayerCommands, ClientFields, SameClient, Through
  <2>5. CASE ClientFails
    BY <1>2, <2>5 DEF ClientFails, ClientFields, SameClient, Through
  <2>6. CASE PlayerLeaves
    BY <1>2, <2>6 DEF PlayerLeaves, ClientFields, SameClient, Through
  <2> QED
    BY <2>1, <2>2, <2>3, <2>4, <2>5, <2>6
<1>5. asked' \in Seq(Requests) /\ Len(asked') >= Len(asked)
  <2>1. CASE asked' = asked
    BY <1>2, <2>1
  <2>2. CASE ClientReadsCommand
    <3>1. PICK next \in {<<"createStream">>, <<"play">>, <<>>} : asked' = asked \o next
      BY <2>2 DEF ClientReadsCommand
    <3> QED
      <4>1. "createStream" \in Requests /\ "play" \in Requests
        BY DEF Requests
      <4>2. <<>> \in Seq(Requests) /\ <<"createStream">> \in Seq(Requests) /\ <<"play">> \in Seq(Requests)
        BY <4>1
      <4>3. next \in Seq(Requests)
        BY <4>2
      <4>4. asked \in Seq(Requests) /\ asked' = asked \o next
        BY <1>2, <3>1
      <4> QED
        BY <4>3, <4>4
  <2>3. CASE PlayerCommands
    BY <1>2, <2>3 DEF PlayerCommands, Requests
  <2> QED
    BY <2>1, <2>2, <2>3 DEF ClientReadsControl, ClientReadsMedia, ClientFails, PlayerLeaves
<1>6. SameServer
  BY <1>2, <1>3 DEF SameServer
<1> QED
  BY <1>1, <1>2, <1>3, <1>4, <1>5, <1>6, ThroughStays DEF Through

\* Nothing else touches the two ends.
LEMMA OtherStepThrough ==
  ASSUME HandshakeInv,
         \/ PlayerSteps \/ Collects \/ DeadlinePasses
         \/ Publishes \/ PublishesMeta \/ PublishesFrame \/ PublisherLeaves \/ UNCHANGED vars
  PROVE  HandshakeInv'
<1> USE DEF clientVars, roomVars
<1>1. CASE PlayerSteps
  <2>1. ~Handshaking /\ UNCHANGED <<clientVars, server>>
    BY <1>1, StillHandshaking DEF PlayerSteps, PlayerSnapshots, PlayerSubscribes, PlayerReads,
       PlayerSendsChunk, PlayerEnds
  <2> QED
    BY <2>1 DEF HandshakeInv, Through
<1>2. CASE Collects
  <2>1. ~Handshaking /\ UNCHANGED <<clientVars, server>>
    BY <1>2, StillHandshaking DEF Collects, Collect
  <2> QED
    BY <2>1 DEF HandshakeInv, Through
<1>3. CASE DeadlinePasses
  <2>1. /\ client' = [client EXCEPT !.late = TRUE] /\ DOMAIN client = ClientFields
        /\ UNCHANGED <<asked, up, down, gone, server, player>>
    BY <1>3 DEF DeadlinePasses, HandshakeInv
  <2>2. /\ client'.pc = client.pc /\ client'.mode = client.mode /\ client'.kind = client.kind
        /\ client'.app = client.app /\ DOMAIN client' = ClientFields
    BY <2>1 DEF ClientFields
  <2>3. Request("connect", 1)' = Request("connect", 1)
    BY <2>2 DEF Request, RequestMessage, RequestRest
  <2>4. (AtHello' <=> AtHello) /\ (AtC0' <=> AtC0) /\ (AtC1' <=> AtC1)
    BY <2>1, <2>2 DEF AtHello, AtC0, AtC1
  <2>5. (AtS0' <=> AtS0) /\ (AtS1' <=> AtS1)
    BY <2>1, <2>2 DEF AtS0, AtS1, ServerKnows
  <2>6. AtC2' <=> AtC2
    BY <2>1, <2>2, <2>3 DEF AtC2, ServerKnows
  <2>7. Handshaking' <=> Handshaking
    BY <2>1, <2>2, <2>4, <2>5, <2>6 DEF Handshaking, Greeting
  <2> QED
    BY <2>1, <2>2, <2>7 DEF HandshakeInv, Through
<1>4. CASE UNCHANGED <<clientVars, up, down, gone, server, player>>
  <2>1. Request("connect", 1)' = Request("connect", 1)
    BY <1>4 DEF Request, RequestMessage, RequestRest
  <2>2. (AtHello' <=> AtHello) /\ (AtC0' <=> AtC0) /\ (AtC1' <=> AtC1)
    BY <1>4 DEF AtHello, AtC0, AtC1
  <2>3. (AtS0' <=> AtS0) /\ (AtS1' <=> AtS1)
    BY <1>4 DEF AtS0, AtS1, ServerKnows
  <2>4. AtC2' <=> AtC2
    BY <1>4, <2>1 DEF AtC2, ServerKnows
  <2>5. Handshaking' <=> Handshaking
    BY <1>4, <2>2, <2>3, <2>4 DEF Handshaking, Greeting
  <2> QED
    BY <1>4, <2>5 DEF HandshakeInv, Through
<1> QED
  BY <1>1, <1>2, <1>3, <1>4 DEF Publishes, PublishesMeta, PublishesFrame, PublisherLeaves, vars

LEMMA HandshakeNext == HandshakeInv /\ [Next]_vars => HandshakeInv'
<1> SUFFICES ASSUME HandshakeInv, [Next]_vars PROVE HandshakeInv'
  OBVIOUS
<1>1. CASE ClientSteps
  BY <1>1, HelloStep, S0Step, S2Step, ClientStepThrough DEF ClientSteps
<1>2. CASE ServerSteps
  BY <1>2, C0Step, C1Step, C2Step, ServerStepThrough DEF ServerSteps
<1>3. CASE Leaving \/ PlayerCommands
  BY <1>3, ClientStepThrough, OtherStepThrough DEF Leaving
<1>4. CASE \/ PlayerSteps \/ DeadlinePasses
           \/ Publishes \/ PublishesMeta \/ PublishesFrame \/ PublisherLeaves \/ UNCHANGED vars
  BY <1>4, OtherStepThrough
<1> QED
  BY <1>1, <1>2, <1>3, <1>4 DEF Next

LEMMA HandshakeAlways == Spec => []HandshakeInv
BY HandshakeInit, HandshakeNext, PTL DEF Spec

(* Both ends of the handshake are in one mode, the server accepts C2, and no   *)
(* client gives up on S1 or S2: parseC1 finds the digest where the client put  *)
(* it, and each side signs with the key the other checks with, for any modes   *)
(* of the players (handshake.go:95-215, 221-360).                              *)
THEOREM HandshakeCorrect == Spec => []HandshakeAgrees
<1>1. HandshakeInv => HandshakeAgrees
  <2> SUFFICES ASSUME HandshakeInv PROVE HandshakeAgrees
    OBVIOUS
  <2>1. CASE Handshaking
    BY <2>1 DEF Handshaking, Greeting, AtHello, AtC0, AtC1, AtS0, AtS1, AtC2, ServerKnows,
       HandshakeInv, HandshakeAgrees
  <2>2. CASE Through
    <3>1. asked # <<>>
      BY <2>2 DEF Through
    <3> QED
      BY <2>2, <3>1 DEF Through, HandshakeInv, HandshakeAgrees
  <2> QED
    BY <2>1, <2>2 DEF HandshakeInv
<1> QED
  BY HandshakeAlways, <1>1, PTL

-----------------------------------------------------------------------------
(* The framing.  Types first: a message, where it is sent, and the chunks of   *)
(* each direction.                                                             *)

Txns == 1 .. 3 + MaxOthers
RequestMessages == {RequestMessage(name, n) : name \in Requests, n \in Txns}
StatusMessages == {StatusMessage(n, code) : n \in Txns, code \in
                     Range(PlayStatuses) \cup OtherCommands \cup {"Play.StreamNotFound"}}
ResultMessages == {Command("_result", n, Result(name), len) :
                     n \in Txns, name \in Requests, len \in 1 .. 2}
Answers == ResultMessages \cup StatusMessages
Controls == {Control(type) : type \in ControlTypes}
Frames == [type : {"key", "inter"}, n : Nat \ {0}]
Tags == [type : {"meta"}] \cup Frames
Media == {TagMessage(tag) : tag \in Tags}
Downward == Answers \cup Controls \cup Media

\* A message in one chunk; `OneChunks` are all that the connection's own
\* goroutine writes.
OneChunk(m) == [place |-> 1, msg |-> m, units |-> m.len]
OneChunks == {OneChunk(m) : m \in Answers \cup Controls}

\* How many chunks the server cuts a message into, each of them, and all.
Cut(m) == (m.len + OwnChunk - 1) \div OwnChunk
Part(m, i) == Chunk(m, i, OwnChunk)
Cuts(M) == UNION {{Part(m, i) : i \in 1 .. Cut(m)} : m \in M}
DownChunks == Cuts(Downward)

\* The client inside a message of several chunks.
ClientParts == {NoMessage} \cup [msg : Media, got : Nat \ {0}, mixed : {FALSE}]
ClientType ==
    client \in [kind : {"pull", "player"}, app : Apps, mode : AllModes \cup {"over"},
                pc : {"c0", "s0", "s1", "connect", "createStream", "loop", "ended"},
                late : BOOLEAN, results : Nat, expect : Nat,
                chunk : {DefaultChunk, OwnChunk}, part : ClientParts]
AskedType == asked \in Seq(Requests) /\ Len(asked) <= 3 + MaxOthers
PulledType == answered \in Seq(Nat) /\ pulled \in [meta : {Nil, RelayedMeta}, tags : Seq(Frames)]
Parts == {NoMessage} \cup [msg : RequestMessages, got : Nat, mixed : {FALSE}]
ServerType ==
    server \in [pc : {"c0", "c1", "c2", "loop", "ended"}, mode : AllModes \cup {"over"},
                s1 : {Nil} \cup {MakeS1(mode) : mode \in AllModes},
                app : {"none", "live"}, chunk : {DefaultChunk, OwnChunk}, part : Parts,
                todo : Seq(StatusMessages), warned : BOOLEAN]
PlayerType == player \in [pc : {"off", "snapshot", "headers", "read", "ended"},
                          todo : Seq(Cuts(Media)), at : Nat]
RoomType == gone \subseteq {"client", "server"} /\ upstream \in {"none", "open", "closed"}
            /\ log \in Seq(Tags)
TypeInv == ClientType /\ AskedType /\ PulledType /\ ServerType /\ PlayerType /\ RoomType

(* What is on the way to the server: the command its next chunk is of, and     *)
(* which chunk of it.  A transaction is the place of its command in `asked`.   *)
Sent(n) == RequestMessage(asked[n], n)
Piece(n, i) == [place |-> i, msg |-> Sent(n), units |-> 1]
TurnOf(m) == m.values[2].v
Turn == IF up = <<>> THEN Len(asked) + 1 ELSE TurnOf(Head(up).msg)
Place == IF up = <<>> THEN 1 ELSE Head(up).place

\* The chunks of the commands follow one another, to the end of the last.
UpPieces == up \in Seq({Piece(n, i) : n \in DOMAIN asked, i \in 1 .. 3})
InPlace(k) ==
    \E n \in DOMAIN asked : \E i \in 1 .. Sent(n).len :
       /\ up[k] = Piece(n, i)
       /\ i < Sent(n).len => k < Len(up) /\ up[k + 1] = Piece(n, i + 1)
       /\ i = Sent(n).len /\ k < Len(up) => up[k + 1] = Piece(n + 1, 1)
       /\ i = Sent(n).len /\ k = Len(up) => n = Len(asked)
UpOrder == \A k \in DOMAIN up : InPlace(k)
UpInv == UpPieces /\ UpOrder

\* The server has read what comes before that chunk, and nothing else.
ReaderInv ==
    server.pc = "loop" =>
      server.part = IF Place = 1 THEN NoMessage
                    ELSE [msg |-> Sent(Turn), got |-> Place - 1, mixed |-> FALSE]

\* The phases of the two ends.
Opening == <<"connect", "createStream", "play">>
ClientPhase ==
    /\ client.pc \in {"connect", "createStream", "loop", "ended"}
    /\ Len(asked) >= 1
    /\ client.pc = "connect" => Len(asked) = 1
    /\ client.pc = "createStream" => Len(asked) = 2
    /\ client.pc = "loop" => Len(asked) >= 3
    /\ \A n \in DOMAIN asked : IF n <= 3 THEN asked[n] = Opening[n] ELSE asked[n] \in OtherCommands
    /\ client.kind = "pull" => Len(asked) <= 3
    /\ "client" \in gone => client.pc = "ended"
ServerPhase ==
    /\ server.pc \in {"loop", "ended"}
    /\ server.pc = "ended" /\ client.pc # "ended" => server.app = "none"
    /\ server.app = "none" =>
         /\ server.chunk = DefaultChunk /\ server.todo = <<>> /\ down = <<>>
         /\ player.pc = "off" /\ (server.pc = "loop" => Turn = 1)
    /\ server.app # "none" => server.chunk = OwnChunk /\ client.app = "live"
    /\ player.todo # <<>> => player.pc \in {"headers", "read"}
    /\ player.pc # "off" => Turn > 3

\* What the player's goroutine has still to write is the rest of one message.
Rest(todo, m, i) == /\ Len(todo) = Cut(m) - i + 1
                    /\ \A j \in 1 .. Len(todo) : todo[j] = Part(m, i + j - 1)
TodoInv == player.todo # <<>> =>
             \E m \in Media : \E i \in 1 .. Cut(m) : Rest(player.todo, m, i)

\* What the client is inside of once it has read a chunk, and the chunks that
\* may come next.
After(c) == IF c.place = Cut(c.msg) THEN NoMessage
            ELSE [msg |-> c.msg, got |-> c.place * OwnChunk, mixed |-> FALSE]
Continues(part, c) == IF part = NoMessage THEN c.place = 1
                      ELSE c.msg = part.msg /\ part.got = (c.place - 1) * OwnChunk
Reader(k) == IF k = 0 THEN client.part ELSE After(down[k])

\* What is on the way to the client, as long as it reads: the chunks of one
\* message after the other, none longer than the size the client knows by then,
\* and at the end the rest of what the player's goroutine is writing.
Announced(k) == \/ client.chunk = OwnChunk
                \/ \E j \in 1 .. k : down[j].msg.type = "setChunkSize"
DownInv ==
    client.pc # "ended" =>
      /\ down \in Seq(DownChunks)
      /\ \A k \in DOMAIN down : /\ Continues(Reader(k - 1), down[k])
                                /\ down[k].msg.len = 1 \/ Announced(k - 1)
      /\ server.chunk = OwnChunk => Announced(Len(down))
      /\ IF InsideFrame THEN Continues(Reader(Len(down)), Head(player.todo))
         ELSE Reader(Len(down)) = NoMessage

Connected == ClientPhase /\ ServerPhase /\ UpInv /\ ReaderInv /\ DownInv /\ TodoInv
Early ==
    /\ server.part = NoMessage /\ server.todo = <<>> /\ server.app = "none"
    /\ server.chunk = DefaultChunk /\ client.chunk = DefaultChunk
    /\ answered = <<>> /\ pulled.tags = <<>> /\ client.part = NoMessage
FrameInv == TypeInv /\ IF server.pc \in {"loop", "ended"} THEN Connected ELSE Early

\* The chunks of a message, at the two sizes.
LEMMA OwnChunks ==
  ASSUME NEW m, m.len \in 1 .. 3
  PROVE  Chunks(m, OwnChunk) = <<OneChunk(m)>>
<1>1. (m.len + OwnChunk - 1) \div OwnChunk = 1
  BY DEF OwnChunk
<1>2. Chunk(m, 1, OwnChunk) = OneChunk(m)
  BY DEF Chunk, OneChunk, OwnChunk
<1>3. Chunks(m, OwnChunk) = [i \in 1 .. 1 |-> Chunk(m, i, OwnChunk)]
  BY <1>1 DEF Chunks
<1> QED
  BY <1>2, <1>3

LEMMA DefaultChunks ==
  ASSUME NEW m, m.len \in 1 .. 3
  PROVE  Chunks(m, DefaultChunk) = [i \in 1 .. m.len |-> [place |-> i, msg |-> m, units |-> 1]]
<1>1. (m.len + DefaultChunk - 1) \div DefaultChunk = m.len
  BY DEF DefaultChunk
<1>2. \A i \in 1 .. m.len : Chunk(m, i, DefaultChunk) = [place |-> i, msg |-> m, units |-> 1]
  BY DEF Chunk, DefaultChunk
<1> QED
  BY <1>1, <1>2 DEF Chunks

\* The smallest of two.
LEMMA MinOfTwo ==
  ASSUME NEW a \in Nat, NEW b \in Nat
  PROVE  Min({a, b}) = IF a <= b THEN a ELSE b
BY DEF Min

\* The chunks of a message at the server's size: all full but the last.
LEMMA PartFacts ==
  ASSUME NEW m, m.len \in Nat \ {0}
  PROVE  /\ Cut(m) \in Nat \ {0} /\ (m.len <= 3 => Cut(m) = 1)
         /\ Chunks(m, OwnChunk) = [i \in 1 .. Cut(m) |-> Part(m, i)]
         /\ \A i \in 1 .. Cut(m) :
              /\ Part(m, i).place = i /\ Part(m, i).msg = m
              /\ Part(m, i).units = IF i = Cut(m) THEN m.len - (i - 1) * 3 ELSE 3
              /\ m.len - (i - 1) * 3 \in Nat \ {0}
              /\ IF i = Cut(m) THEN m.len - (i - 1) * 3 <= 3 ELSE m.len > i * 3
<1>1. Cut(m) = (m.len + 2) \div 3
  BY DEF Cut, OwnChunk
<1>2. PICK n \in Nat \ {0} : n = m.len
  OBVIOUS
<1>3. PICK cut : cut = (n + 2) \div 3
  OBVIOUS
<1>4. cut \in Nat \ {0} /\ (n <= 3 => cut = 1) /\ cut * 3 >= n /\ cut * 3 < n + 3
  BY <1>3
<1>5. Cut(m) = cut
  BY <1>1, <1>2, <1>3
<1>6. Chunks(m, OwnChunk) = [i \in 1 .. Cut(m) |-> Part(m, i)]
  BY DEF Chunks, Part, Cut
<1>7. ASSUME NEW i \in 1 .. cut
      PROVE  /\ Part(m, i).place = i /\ Part(m, i).msg = m
             /\ Part(m, i).units = IF i = cut THEN n - (i - 1) * 3 ELSE 3
             /\ n - (i - 1) * 3 \in Nat \ {0}
             /\ IF i = cut THEN n - (i - 1) * 3 <= 3 ELSE n > i * 3
  <2>1. /\ n - (i - 1) * 3 \in Nat \ {0}
        /\ IF i = cut THEN n - (i - 1) * 3 <= 3 ELSE n > i * 3
    BY <1>4
  <2>2. Part(m, i) = [place |-> i, msg |-> m,
                      units |-> IF n - (i - 1) * 3 < 3 THEN n - (i - 1) * 3 ELSE 3]
    BY <1>2 DEF Part, Chunk, OwnChunk
  <2>3. (IF n - (i - 1) * 3 < 3 THEN n - (i - 1) * 3 ELSE 3) = IF i = cut THEN n - (i - 1) * 3 ELSE 3
    BY <2>1
  <2> QED
    BY <2>1, <2>2, <2>3
<1> QED
  BY <1>2, <1>4, <1>5, <1>6, <1>7

\* One that is what comes next is framed, and leads to what comes after it.
LEMMA PartFramed ==
  ASSUME NEW m, m.len \in Nat \ {0}, NEW i \in 1 .. Cut(m), NEW part \in ClientParts,
         Continues(part, Part(m, i)),
         NEW size \in {DefaultChunk, OwnChunk}, m.len = 1 \/ size = OwnChunk
  PROVE  LET c == Part(m, i)
             p == Appended(part, c) IN
         /\ Framed(part, c, size)
         /\ p.msg = m /\ ~p.mixed /\ (Whole(p) <=> i = Cut(m))
         /\ After(c) = IF Whole(p) THEN NoMessage ELSE p
<1>1. PICK n \in Nat \ {0} : n = m.len
  OBVIOUS
<1>2. PICK last \in BOOLEAN : last = (i = Cut(m))
  OBVIOUS
<1>3. PICK units : units = IF last THEN n - (i - 1) * 3 ELSE 3
  OBVIOUS
<1>4. PICK c : c = Part(m, i)
  OBVIOUS
<1>5. /\ i \in Nat \ {0} /\ n - (i - 1) * 3 \in Nat \ {0} /\ (n <= 3 => i = 1 /\ last)
      /\ IF last THEN n - (i - 1) * 3 <= 3 ELSE n > i * 3
      /\ c.place = i /\ c.msg = m /\ c.units = units
  <2>1. Cut(m) \in Nat \ {0} /\ (n <= 3 => Cut(m) = 1)
    BY <1>1, PartFacts
  <2>2. /\ Part(m, i).place = i /\ Part(m, i).msg = m
        /\ Part(m, i).units = IF last THEN n - (i - 1) * 3 ELSE 3
        /\ n - (i - 1) * 3 \in Nat \ {0}
        /\ IF last THEN n - (i - 1) * 3 <= 3 ELSE n > i * 3
    BY <1>1, <1>2, PartFacts
  <2>3. i \in Nat \ {0} /\ (n <= 3 => i = 1 /\ last)
    <3>1. i \in Nat \ {0} /\ (n <= 3 => i = 1 /\ i = Cut(m))
      BY <2>1
    <3> QED
      BY <1>2, <3>1
  <2> QED
    BY <1>3, <1>4, <2>2, <2>3
<1>6. /\ units \in 1 .. 3 /\ (units = n - (i - 1) * 3 <=> last)
  BY <1>3, <1>5
<1>7. PICK got \in Nat : got = (i - 1) * 3
  BY <1>5
<1>8. part = NoMessage <=> i = 1
  <2>1. part # NoMessage => part.got # 0
    BY DEF ClientParts
  <2> QED
    BY <1>4, <1>5, <2>1 DEF Continues, OwnChunk
<1>9. part # NoMessage => part = [msg |-> m, got |-> got, mixed |-> FALSE]
  BY <1>4, <1>5, <1>7 DEF ClientParts, Continues, OwnChunk
<1>10. Wanted(part, c, size) = units
  <2>1. PICK S : S = {n, size} \cup (IF part = NoMessage THEN {} ELSE {n - got})
    OBVIOUS
  <2>2. units \in S /\ \A x \in S : x \in Nat /\ units <= x
    <3>1. CASE part = NoMessage
      <4>1. i = 1 /\ S = {n, size}
        BY <1>8, <2>1, <3>1
      <4> QED
        BY <1>1, <1>3, <1>5, <1>6, <4>1 DEF DefaultChunk, OwnChunk
    <3>2. CASE part # NoMessage
      <4>1. i # 1 /\ S = {n, size, n - got} /\ size = 3
        BY <1>1, <1>5, <1>8, <2>1, <3>2 DEF OwnChunk
      <4> QED
        BY <1>3, <1>5, <1>6, <1>7, <4>1
    <3> QED
      BY <3>1, <3>2
  <2>3. Min(S) \in S /\ Min(S) <= units
    BY <2>2 DEF Min
  <2>4. Min(S) = units
    BY <2>2, <2>3
  <2>5. Wanted(part, c, size) = Min(S)
    <3>1. part # NoMessage => part.msg.len - part.got = n - got
      BY <1>1, <1>9
    <3>2. c.msg.len = n
      BY <1>1, <1>5
    <3> QED
      BY <2>1, <3>1, <3>2 DEF Wanted
  <2> QED
    BY <2>4, <2>5
<1>11. Framed(part, c, size)
  BY <1>5, <1>8, <1>10 DEF Framed
<1>12. Appended(part, c) = [msg |-> m, got |-> got + units, mixed |-> FALSE]
  <2>1. CASE part = NoMessage
    <3>1. got + units = units
      BY <1>5, <1>6, <1>7, <1>8, <2>1
    <3> QED
      BY <1>5, <2>1, <3>1 DEF Appended
  <2>2. CASE part # NoMessage
    <3>1. Appended(part, c) = [part EXCEPT !.got = part.got + units, !.mixed = part.mixed \/ m # part.msg]
      BY <1>5, <2>2 DEF Appended
    <3>2. part.got + units = got + units /\ (part.mixed \/ m # part.msg) = FALSE
      BY <1>9, <2>2
    <3>4. PICK q : q = got + units
      OBVIOUS
    <3>3. Appended(part, c) = [part EXCEPT !.got = q, !.mixed = FALSE]
      BY <3>1, <3>2, <3>4
    <3>6. PICK r : r = [msg |-> m, got |-> got, mixed |-> FALSE] /\ part = r
      BY <1>9, <2>2
    <3>5. Appended(part, c) = [msg |-> m, got |-> q, mixed |-> FALSE]
      BY <3>3, <3>6
    <3> QED
      BY <3>4, <3>5
  <2> QED
    BY <2>1, <2>2
<1>13. PICK p : p = [msg |-> m, got |-> got + units, mixed |-> FALSE]
  OBVIOUS
<1>14. Whole(p) <=> last
  <2>1. got + units = n <=> last
    BY <1>5, <1>6, <1>7
  <2> QED
    BY <1>1, <1>13, <2>1 DEF Whole
<1>15. ~last => p = [msg |-> m, got |-> i * 3, mixed |-> FALSE]
  <2>1. ~last => got + units = i * 3
    BY <1>3, <1>5, <1>7
  <2> QED
    BY <1>13, <2>1
<1>16. After(c) = IF Whole(p) THEN NoMessage ELSE p
  BY <1>2, <1>5, <1>14, <1>15 DEF After, OwnChunk
<1>17. Appended(part, c) = p /\ p.msg = m /\ ~p.mixed
  BY <1>12, <1>13
<1> HIDE DEF After
<1> QED
  BY <1>2, <1>4, <1>11, <1>14, <1>16, <1>17

\* A command as it is sent.
LEMMA RequestFacts ==
  ASSUME NEW name, NEW n
  PROVE  LET m == RequestMessage(name, n) IN
         /\ m.type = "command" /\ m.len \in {1, 3}
         /\ m.values[1] = Str(name) /\ m.values[2] = Num(n) /\ TurnOf(m) = n
<1>1. PICK rest \in {<<Single("app", Str(client.app))>>, <<Nil, Str("stream")>>, <<Nil>>} :
        rest = RequestRest(name)
  BY DEF RequestRest
<1>2. RequestMessage(name, n) =
        [type |-> "command", len |-> IF name = "connect" THEN 3 ELSE 1,
         values |-> <<Str(name), Num(n)>> \o rest]
  BY <1>1 DEF RequestMessage, Command
<1> DEFINE v == <<Str(name), Num(n)>> \o rest
<1>3. v[1] = Str(name) /\ v[2] = Num(n)
  BY <1>1
<1> QED
  BY <1>2, <1>3 DEF TurnOf, Num

LEMMA SentFacts ==
  ASSUME TypeInv, NEW n \in DOMAIN asked
  PROVE  /\ n \in Txns /\ asked[n] \in Requests /\ Sent(n) = RequestMessage(asked[n], n)
         /\ Sent(n) \in RequestMessages /\ Sent(n).len \in 1 .. 3 /\ TurnOf(Sent(n)) = n
         /\ Sent(n).type = "command"
<1>1. n \in Txns /\ asked[n] \in Requests
  BY PullAssumption DEF TypeInv, AskedType, Txns, PullAssumption
<1> DEFINE name == asked[n]
           m == RequestMessage(name, n)
<1>2. m.type = "command" /\ m.len \in {1, 3} /\ TurnOf(m) = n
  BY RequestFacts
<1>3. m \in RequestMessages
  BY <1>1 DEF RequestMessages
<1>4. Sent(n) = m
  BY DEF Sent
<1>5. Sent(n) = RequestMessage(asked[n], n)
  BY DEF Sent
<1> HIDE DEF m
<1> QED
  BY <1>1, <1>2, <1>3, <1>4, <1>5

-----------------------------------------------------------------------------
(* The direction to the server.                                                *)

\* What a piece says of itself.
LEMMA PieceFacts ==
  ASSUME NEW n, NEW i
  PROVE  Piece(n, i).place = i /\ TurnOf(Piece(n, i).msg) = n /\ Piece(n, i).msg = Sent(n)
         /\ Piece(n, i).units = 1
BY RequestFacts DEF Piece, Sent

LEMMA UpHead ==
  ASSUME TypeInv, UpInv, up # <<>>
  PROVE  /\ Turn \in DOMAIN asked /\ Turn \in Nat \ {0} /\ Place \in 1 .. Sent(Turn).len
         /\ Place \in 1 .. 3 /\ Sent(Turn).len \in 1 .. 3
         /\ Head(up) = Piece(Turn, Place) /\ up[1] = Head(up) /\ 1 \in DOMAIN up
         /\ Place < Sent(Turn).len => 1 < Len(up) /\ up[2] = Piece(Turn, Place + 1)
         /\ Place = Sent(Turn).len /\ 1 < Len(up) => up[2] = Piece(Turn + 1, 1)
         /\ Place = Sent(Turn).len /\ 1 = Len(up) => Turn = Len(asked)
<1>1. 1 \in DOMAIN up /\ up[1] = Head(up)
  BY DEF UpInv, UpPieces
<1>2. Turn = TurnOf(up[1].msg) /\ Place = up[1].place
  BY <1>1 DEF Turn, Place
<1>3. PICK n \in DOMAIN asked : \E i \in 1 .. Sent(n).len :
       /\ up[1] = Piece(n, i)
       /\ i < Sent(n).len => 1 < Len(up) /\ up[1 + 1] = Piece(n, i + 1)
       /\ i = Sent(n).len /\ 1 < Len(up) => up[1 + 1] = Piece(n + 1, 1)
       /\ i = Sent(n).len /\ 1 = Len(up) => n = Len(asked)
  BY <1>1 DEF UpInv, UpOrder, InPlace
<1>8. PICK i \in 1 .. Sent(n).len :
       /\ up[1] = Piece(n, i)
       /\ i < Sent(n).len => 1 < Len(up) /\ up[1 + 1] = Piece(n, i + 1)
       /\ i = Sent(n).len /\ 1 < Len(up) => up[1 + 1] = Piece(n + 1, 1)
       /\ i = Sent(n).len /\ 1 = Len(up) => n = Len(asked)
  BY <1>3
<1>4. n = Turn /\ i = Place
  BY <1>2, <1>8, PieceFacts
<1>5. DOMAIN asked = 1 .. Len(asked) /\ Len(asked) \in Nat
  BY DEF TypeInv, AskedType
<1>6. n \in Nat \ {0} /\ Sent(n).len \in 1 .. 3
  BY <1>5, SentFacts
<1>7. 1 + 1 = 2
  OBVIOUS
<1> QED
  BY <1>1, <1>4, <1>6, <1>7, <1>8

SameSent == /\ client'.app = client.app
            /\ \E more \in Seq(Requests) : asked' = asked \o more

LEMMA SentSame ==
  ASSUME TypeInv, SameSent, NEW n \in DOMAIN asked
  PROVE  n \in DOMAIN asked' /\ Sent(n)' = Sent(n) /\ \A i : Piece(n, i)' = Piece(n, i)
<1>1. PICK more \in Seq(Requests) : asked' = asked \o more
  BY DEF SameSent
<1>2. n \in DOMAIN asked' /\ asked'[n] = asked[n]
  BY <1>1 DEF TypeInv, AskedType
<1>3. Sent(n)' = Sent(n)
  BY <1>2 DEF Sent, RequestMessage, RequestRest, SameSent
<1> QED
  BY <1>2, <1>3 DEF Piece

\* Taking the next chunk leads to the next place, or to the next command.
LEMMA TakeUp ==
  ASSUME TypeInv, UpInv, up # <<>>, up' = Tail(up), asked' = asked, client'.app = client.app
  PROVE  /\ UpInv'
         /\ Turn' = IF Place = Sent(Turn).len THEN Turn + 1 ELSE Turn
         /\ Place' = IF Place = Sent(Turn).len THEN 1 ELSE Place + 1
<1>1. SameSent
  <2>1. asked = asked \o <<>> /\ <<>> \in Seq(Requests)
    BY DEF TypeInv, AskedType
  <2> QED
    BY <2>1 DEF SameSent
<1>2. \A n \in DOMAIN asked : Sent(n)' = Sent(n) /\ \A i : Piece(n, i)' = Piece(n, i)
  BY <1>1, SentSame
<1> DEFINE S == {Piece(n, i) : n \in DOMAIN asked, i \in 1 .. 3}
<1>3. up \in Seq(S)
  BY DEF UpInv, UpPieces
<1> HIDE DEF S
<1>4. Len(up') = Len(up) - 1 /\ Len(up) \in Nat \ {0} /\ up' \in Seq(S)
      /\ DOMAIN up = 1 .. Len(up)
      /\ \A k \in DOMAIN up' : k \in Nat /\ k + 1 \in DOMAIN up /\ up'[k] = up[k + 1]
  BY <1>3
<1>5. UpPieces'
  <2>1. S = S'
    BY <1>2 DEF S
  <2> QED
    BY <1>4, <2>1 DEF UpPieces, S
<1>6. UpOrder'
  <2> SUFFICES ASSUME NEW k \in DOMAIN up' PROVE InPlace(k)'
    BY DEF UpOrder
  <2>1. k + 1 \in DOMAIN up /\ up'[k] = up[k + 1] /\ k \in Nat /\ Len(up) \in Nat
        /\ Len(up') = Len(up) - 1
    BY <1>3, <1>4
  <2>9. PICK n \in DOMAIN asked : \E i \in 1 .. Sent(n).len :
        /\ up[k + 1] = Piece(n, i)
        /\ i < Sent(n).len => k + 1 < Len(up) /\ up[k + 1 + 1] = Piece(n, i + 1)
        /\ i = Sent(n).len /\ k + 1 < Len(up) => up[k + 1 + 1] = Piece(n + 1, 1)
        /\ i = Sent(n).len /\ k + 1 = Len(up) => n = Len(asked)
    BY <2>1 DEF UpInv, UpOrder, InPlace
  <2>2. PICK i \in 1 .. Sent(n).len :
        /\ up[k + 1] = Piece(n, i)
        /\ i < Sent(n).len => k + 1 < Len(up) /\ up[k + 1 + 1] = Piece(n, i + 1)
        /\ i = Sent(n).len /\ k + 1 < Len(up) => up[k + 1 + 1] = Piece(n + 1, 1)
        /\ i = Sent(n).len /\ k + 1 = Len(up) => n = Len(asked)
    BY <2>9
  <2>3. k + 1 < Len(up) => up'[k + 1] = up[k + 1 + 1] /\ k + 1 \in DOMAIN up'
    <3>1. k + 1 < Len(up) => k + 1 \in 1 .. Len(up')
      BY <2>1
    <3>2. DOMAIN up' = 1 .. Len(up')
      BY <1>4
    <3> QED
      BY <1>4, <3>1, <3>2
  <2>4. k + 1 < Len(up) /\ i = Sent(n).len => n + 1 \in DOMAIN asked
    <3> SUFFICES ASSUME k + 1 < Len(up), i = Sent(n).len PROVE n + 1 \in DOMAIN asked
      OBVIOUS
    <3>1. up[k + 1 + 1] = Piece(n + 1, 1)
      BY <2>2
    <3>2. PICK m \in DOMAIN asked, j \in 1 .. 3 : up[k + 1 + 1] = Piece(m, j)
      <4>1. up[k + 1 + 1] \in S
        <5>1. k + 1 + 1 \in 1 .. Len(up)
          BY <2>1
        <5> QED
          BY <1>3, <5>1
      <4> QED
        BY <4>1 DEF S
    <3>3. n + 1 = m
      BY <3>1, <3>2, PieceFacts
    <3> QED
      BY <3>2, <3>3
  <2>5. Sent(n)' = Sent(n) /\ Piece(n, i)' = Piece(n, i) /\ Piece(n, i + 1)' = Piece(n, i + 1)
    BY <1>2, <2>2
  <2>6. k + 1 < Len(up) /\ i = Sent(n).len => Piece(n + 1, 1)' = Piece(n + 1, 1)
    BY <1>2, <2>4
  <2>7. /\ up'[k] = Piece(n, i)'
        /\ i < Sent(n).len => k < Len(up') /\ up'[k + 1] = Piece(n, i + 1)'
        /\ i = Sent(n).len /\ k < Len(up') => up'[k + 1] = Piece(n + 1, 1)'
        /\ i = Sent(n).len /\ k = Len(up') => n = Len(asked')
    BY <2>1, <2>2, <2>3, <2>5, <2>6
  <2>8. n \in DOMAIN asked' /\ i \in 1 .. Sent(n)'.len
    BY <2>5
  <2> QED
    BY <2>5, <2>7, <2>8 DEF InPlace
<1>7. up' = <<>> => Len(up) = 1
  <2>1. up' = <<>> => Len(up') = 0
    OBVIOUS
  <2>2. Len(up') = Len(up) - 1 /\ Len(up) \in Nat
    BY <1>4
  <2> QED
    BY <2>1, <2>2
<1>8. up' # <<>> => Head(up') = up[2] /\ 1 < Len(up)
  <2> SUFFICES ASSUME up' # <<>> PROVE Head(up') = up[2] /\ 1 < Len(up)
    OBVIOUS
  <2>1. 1 \in DOMAIN up' /\ Head(up') = up'[1] /\ 1 + 1 = 2
    BY <1>4
  <2>2. 1 + 1 \in DOMAIN up /\ up'[1] = up[1 + 1]
    BY <1>4, <2>1
  <2>3. 1 + 1 \in 1 .. Len(up)
    BY <1>4, <2>2
  <2> QED
    BY <1>4, <2>1, <2>2, <2>3
<1>9. Turn' = IF up' = <<>> THEN Len(asked) + 1 ELSE TurnOf(Head(up').msg)
  BY DEF Turn, TurnOf
<1>10. Place' = IF up' = <<>> THEN 1 ELSE Head(up').place
  BY DEF Place
<1>11. CASE Place = Sent(Turn).len
  <2>1. CASE up' = <<>>
    <3>1. Turn = Len(asked)
      BY <1>7, <1>11, <2>1, UpHead
    <3> QED
      BY <1>5, <1>6, <1>9, <1>10, <1>11, <2>1, <3>1 DEF UpInv
  <2>2. CASE up' # <<>>
    <3>1. Head(up') = Piece(Turn + 1, 1)
      BY <1>8, <1>11, <2>2, UpHead
    <3> QED
      BY <1>5, <1>6, <1>9, <1>10, <1>11, <2>2, <3>1, PieceFacts DEF UpInv
  <2> QED
    BY <2>1, <2>2
<1>12. CASE Place # Sent(Turn).len
  <2>1. Place < Sent(Turn).len
    BY <1>12, UpHead
  <2>2. 1 < Len(up) /\ up[2] = Piece(Turn, Place + 1)
    BY <2>1, UpHead
  <2>3. up' # <<>> /\ Head(up') = Piece(Turn, Place + 1)
    BY <1>7, <1>8, <2>2
  <2> QED
    BY <1>5, <1>6, <1>9, <1>10, <1>12, <2>3, PieceFacts DEF UpInv
<1> QED
  BY <1>11, <1>12

\* The first command, as it is left when the handshake is over.
LEMMA FirstUp ==
  ASSUME up' = Request("connect", 1)', asked' = <<"connect">>
  PROVE  UpInv' /\ Turn' = 1 /\ Place' = 1
<1>1. up' = [i \in 1 .. Sent(1)'.len |-> Piece(1, i)'] /\ Sent(1)'.len \in 1 .. 3
  <2>1. asked'[1] = "connect"
    OBVIOUS
  <2>2. Sent(1)' = RequestMessage("connect", 1)'
    BY <2>1 DEF Sent
  <2>3. Sent(1)'.len \in 1 .. 3
    <3>1. Sent(1)' = Command("connect", 1, RequestRest("connect")', 3)
      BY <2>2 DEF RequestMessage
    <3> QED
      BY <3>1 DEF Command
  <2>4. Chunks(Sent(1)', DefaultChunk)
          = [i \in 1 .. Sent(1)'.len |-> [place |-> i, msg |-> Sent(1)', units |-> 1]]
    BY <2>3, DefaultChunks
  <2> QED
    BY <2>2, <2>3, <2>4 DEF Request, Piece
<1>2. UpPieces'
  <2> DEFINE S == {Piece(n, i) : n \in DOMAIN asked, i \in 1 .. 3}
  <2>1. \A i \in 1 .. Sent(1)'.len : Piece(1, i)' \in S'
    <3>1. 1 \in DOMAIN asked'
      OBVIOUS
    <3> QED
      BY <1>1, <3>1
  <2> HIDE DEF S
  <2>2. up' \in Seq(S')
    BY <1>1, <2>1
  <2> QED
    BY <2>2 DEF UpPieces, S
<1>3. UpOrder'
  <2> SUFFICES ASSUME NEW k \in DOMAIN up' PROVE InPlace(k)'
    BY DEF UpOrder
  <2>1. k \in 1 .. Sent(1)'.len /\ Len(up') = Sent(1)'.len /\ up'[k] = Piece(1, k)'
        /\ (k < Sent(1)'.len => up'[k + 1] = Piece(1, k + 1)')
    BY <1>1
  <2>2. 1 \in DOMAIN asked' /\ 1 = Len(asked')
    OBVIOUS
  <2> QED
    BY <2>1, <2>2 DEF InPlace
<1>4. up' # <<>> /\ Head(up') = Piece(1, 1)'
  BY <1>1
<1>5. TurnOf(Piece(1, 1)'.msg) = 1 /\ Piece(1, 1)'.place = 1
  <2>1. Piece(1, 1)'.msg = Command("connect", 1, RequestRest("connect")', 3)
    BY DEF Piece, Sent, RequestMessage
  <2>2. Command("connect", 1, RequestRest("connect")', 3).values[2] = Num(1)
    BY DEF Command, RequestRest
  <2> QED
    BY <2>1, <2>2 DEF Piece, TurnOf, Num
<1>6. Turn' = TurnOf(Head(up').msg) /\ Place' = Head(up').place
  BY <1>4 DEF Turn, Place, TurnOf
<1> QED
  BY <1>2, <1>3, <1>4, <1>5, <1>6 DEF UpInv

\* A further command goes behind what is on its way.
Sends(name, N) ==
    /\ name \in Requests /\ N = Len(asked) + 1
    /\ asked' = Append(asked, name) /\ up' = up \o Request(name, N) /\ client'.app = client.app

LEMMA SendUp ==
  ASSUME TypeInv, UpInv, NEW name, NEW N, Sends(name, N)
  PROVE  UpInv' /\ Turn' = Turn /\ Place' = Place
<1>1. asked \in Seq(Requests) /\ Len(asked) \in Nat /\ N \in Nat \ {0} /\ name \in Requests
  BY DEF TypeInv, AskedType, Sends
<1>2. SameSent
  <2>1. Append(asked, name) = asked \o <<name>> /\ <<name>> \in Seq(Requests)
    BY <1>1
  <2> QED
    BY <2>1 DEF SameSent, Sends
<1>3. \A n \in DOMAIN asked : n \in DOMAIN asked' /\ Sent(n)' = Sent(n) /\ \A i : Piece(n, i)' = Piece(n, i)
  BY <1>2, SentSame
<1>4. DOMAIN asked' = 1 .. N /\ asked'[N] = name /\ Len(asked') = N
      /\ DOMAIN asked = 1 .. Len(asked)
  BY <1>1 DEF Sends
<1>5. PICK m : m = RequestMessage(name, N)
  OBVIOUS
<1>6. m.len \in 1 .. 3 /\ Sent(N)' = m /\ \A i : Piece(N, i)' = [place |-> i, msg |-> m, units |-> 1]
  <2>1. RequestMessage(name, N)' = m
    BY <1>5 DEF RequestMessage, RequestRest, Sends
  <2>2. Sent(N)' = m
    BY <1>4, <2>1 DEF Sent
  <2> QED
    BY <1>5, <2>2, RequestFacts DEF Piece
<1>7. Request(name, N) = [i \in 1 .. m.len |-> [place |-> i, msg |-> m, units |-> 1]]
  BY <1>5, <1>6, DefaultChunks DEF Request
<1>8. PICK q : q = Request(name, N)
  OBVIOUS
<1> DEFINE S == {Piece(n, i) : n \in DOMAIN asked, i \in 1 .. 3}
<1>9. \A i \in 1 .. m.len : q[i] = Piece(N, i)' /\ q[i] \in S'
  <2>1. \A i \in 1 .. 3 : Piece(N, i)' \in S'
    <3>1. N \in DOMAIN asked'
      BY <1>1, <1>4
    <3> QED
      BY <3>1
  <2>2. \A i \in 1 .. m.len : i \in 1 .. 3
    BY <1>6
  <2> HIDE DEF S
  <2> QED
    BY <1>6, <1>7, <1>8, <2>1, <2>2
<1>10. q \in Seq(S') /\ Len(q) = m.len
  <2>1. q = [i \in 1 .. m.len |-> [place |-> i, msg |-> m, units |-> 1]] /\ m.len \in Nat
    BY <1>6, <1>7, <1>8
  <2>2. \A i \in 1 .. m.len : q[i] \in S'
    BY <1>9
  <2> HIDE DEF S
  <2>3. DOMAIN q = 1 .. m.len /\ q = [i \in 1 .. m.len |-> q[i]]
    BY <2>1
  <2>4. PICK n : n = m.len
    OBVIOUS
  <2>5. q \in [1 .. n -> S'] /\ n \in Nat
    BY <2>1, <2>2, <2>3, <2>4
  <2> QED
    BY <2>4, <2>5
<1>11. up \in Seq(S')
  <2>1. up \in Seq(S)
    BY DEF UpInv, UpPieces
  <2>2. \A x \in S : x \in S'
    BY <1>3
  <2> HIDE DEF S
  <2> QED
    BY <2>1, <2>2
<1> HIDE DEF S
<1>12. UpPieces' /\ up' \in Seq(S')
  <2>1. up' = up \o q
    BY <1>8 DEF Sends
  <2>2. up' \in Seq(S')
    BY <1>10, <1>11, <2>1
  <2> QED
    BY <2>2 DEF UpPieces, S
<1>13. /\ Len(up) \in Nat /\ Len(up') = Len(up) + m.len /\ DOMAIN up = 1 .. Len(up)
       /\ DOMAIN up' = 1 .. Len(up) + m.len
       /\ \A k \in 1 .. Len(up) : up'[k] = up[k]
       /\ \A k \in 1 .. m.len : up'[Len(up) + k] = Piece(N, k)'
  <2>1. up' = up \o q
    BY <1>8 DEF Sends
  <2>2. m.len \in Nat
    BY <1>6
  <2>3. /\ Len(up) \in Nat /\ Len(up') = Len(up) + m.len /\ DOMAIN up = 1 .. Len(up)
        /\ DOMAIN up' = 1 .. Len(up) + m.len
        /\ \A k \in 1 .. Len(up) : up'[k] = up[k]
    <3>1. q \in Seq(S') /\ up \in Seq(S') /\ Len(q) = m.len
      BY <1>10, <1>11
    <3>2. DOMAIN up = 1 .. Len(up) /\ Len(up) \in Nat /\ Len(up') = Len(up) + m.len
      BY <2>1, <2>2, <3>1
    <3>3. up' \in Seq(S')
      BY <1>12
    <3>4. DOMAIN up' = 1 .. Len(up')
      BY <3>3
    <3>5. \A k \in 1 .. Len(up) : up'[k] = up[k]
      BY <2>1, <3>1
    <3> QED
      BY <3>2, <3>4, <3>5
  <2>4. \A k \in 1 .. m.len : up'[Len(up) + k] = q[k]
    BY <1>10, <1>11, <2>1, <2>2
  <2> QED
    BY <1>9, <2>3, <2>4
<1>14. UpOrder'
  <2> SUFFICES ASSUME NEW k \in DOMAIN up' PROVE InPlace(k)'
    BY DEF UpOrder
  <2>1. CASE k \in DOMAIN up
    <3>1. PICK n \in DOMAIN asked : \E i \in 1 .. Sent(n).len :
        /\ up[k] = Piece(n, i)
        /\ i < Sent(n).len => k < Len(up) /\ up[k + 1] = Piece(n, i + 1)
        /\ i = Sent(n).len /\ k < Len(up) => up[k + 1] = Piece(n + 1, 1)
        /\ i = Sent(n).len /\ k = Len(up) => n = Len(asked)
      BY <2>1 DEF UpInv, UpOrder, InPlace
    <3>2. PICK i \in 1 .. Sent(n).len :
        /\ up[k] = Piece(n, i)
        /\ i < Sent(n).len => k < Len(up) /\ up[k + 1] = Piece(n, i + 1)
        /\ i = Sent(n).len /\ k < Len(up) => up[k + 1] = Piece(n + 1, 1)
        /\ i = Sent(n).len /\ k = Len(up) => n = Len(asked)
      BY <3>1
    <3>3. k \in 1 .. Len(up) /\ up'[k] = up[k] /\ (k < Len(up) => k < Len(up') /\ up'[k + 1] = up[k + 1])
      <4>1. k \in 1 .. Len(up) /\ (k < Len(up) => k + 1 \in 1 .. Len(up)) /\ m.len \in Nat
        BY <1>6, <1>13, <2>1
      <4> QED
        BY <1>13, <4>1
    <3>4. k = Len(up) => k < Len(up') /\ up'[k + 1] = Piece(N, 1)'
      <4>1. 1 \in 1 .. m.len
        BY <1>6
      <4> QED
        BY <1>6, <1>13, <4>1
    <3>5. n \in DOMAIN asked' /\ Sent(n)' = Sent(n) /\ Piece(n, i)' = Piece(n, i) /\ Piece(n, i + 1)' = Piece(n, i + 1)
      BY <1>3
    <3>6. k < Len(up) /\ i = Sent(n).len => Piece(n + 1, 1)' = Piece(n + 1, 1)
      <4> SUFFICES ASSUME k < Len(up), i = Sent(n).len PROVE n + 1 \in DOMAIN asked
        BY <1>3
      <4>1. up[k + 1] = Piece(n + 1, 1)
        BY <3>2
      <4>2. PICK a \in DOMAIN asked, j \in 1 .. 3 : up[k + 1] = Piece(a, j)
        <5>1. k + 1 \in 1 .. Len(up)
          BY <3>3
        <5>2. up \in Seq(S)
          BY DEF UpInv, UpPieces, S
        <5>3. up[k + 1] \in S
          BY <5>1, <5>2
        <5> QED
          BY <5>3 DEF S
      <4>3. n + 1 = a
        BY <4>1, <4>2, PieceFacts
      <4> QED
        BY <4>2, <4>3
    <3>7. k = Len(up) /\ i = Sent(n).len => n + 1 = N
      BY <3>2 DEF Sends
    <3>8. k < Len(up) \/ k = Len(up)
      BY <1>13, <3>3
    <3>9. /\ up'[k] = Piece(n, i)'
          /\ i < Sent(n).len => k < Len(up') /\ up'[k + 1] = Piece(n, i + 1)'
          /\ i = Sent(n).len => k < Len(up') /\ up'[k + 1] = Piece(n + 1, 1)'
      <4>1. CASE k < Len(up)
        BY <3>2, <3>3, <3>5, <3>6, <4>1
      <4>2. CASE k = Len(up)
        BY <1>13, <3>2, <3>3, <3>4, <3>5, <3>7, <4>2
      <4> QED
        BY <3>8, <4>1, <4>2
    <3>10. i \in 1 .. Sent(n)'.len /\ ~(k < Len(up') /\ k = Len(up'))
      BY <1>6, <1>13, <3>3, <3>5
    <3>11. /\ up'[k] = Piece(n, i)'
           /\ i < Sent(n)'.len => k < Len(up') /\ up'[k + 1] = Piece(n, i + 1)'
           /\ i = Sent(n)'.len /\ k < Len(up') => up'[k + 1] = Piece(n + 1, 1)'
           /\ i = Sent(n)'.len /\ k = Len(up') => n = Len(asked')
      BY <3>5, <3>9, <3>10
    <3> QED
      BY <3>5, <3>10, <3>11 DEF InPlace
  <2>2. CASE k \notin DOMAIN up
    <3>1. PICK i \in 1 .. m.len : k = Len(up) + i
      <4>1. k - Len(up) \in 1 .. m.len /\ k = Len(up) + (k - Len(up))
        BY <1>6, <1>13, <2>2
      <4> QED
        BY <4>1
    <3>2. up'[k] = Piece(N, i)'
      BY <1>13, <3>1
    <3>3. i < m.len => k < Len(up') /\ up'[k + 1] = Piece(N, i + 1)'
      <4> SUFFICES ASSUME i < m.len PROVE k < Len(up') /\ up'[k + 1] = Piece(N, i + 1)'
        OBVIOUS
      <4>1. i + 1 \in 1 .. m.len /\ k + 1 = Len(up) + (i + 1)
        BY <1>6, <1>13, <3>1
      <4>2. up'[Len(up) + (i + 1)] = Piece(N, i + 1)'
        BY <1>13, <4>1
      <4> QED
        BY <1>6, <1>13, <3>1, <4>1, <4>2
    <3>4. i = m.len => k = Len(up') /\ ~(k < Len(up'))
      BY <1>6, <1>13, <3>1
    <3>5. N \in DOMAIN asked' /\ N = Len(asked')
      BY <1>1, <1>4
    <3> QED
      BY <1>6, <3>1, <3>2, <3>3, <3>4, <3>5 DEF InPlace
  <2> QED
    BY <2>1, <2>2
<1>15. Turn' = Turn /\ Place' = Place
  <2>1. 1 \in 1 .. m.len /\ m.len \in Nat
    BY <1>6
  <2>2. up' # <<>> /\ Head(up') = up'[1]
    BY <1>12, <1>13, <2>1
  <2>3. Turn' = TurnOf(Head(up').msg) /\ Place' = Head(up').place
    BY <2>2 DEF Turn, Place, TurnOf
  <2>4. CASE up = <<>>
    <3>1. Len(up) = 0
      BY <2>4
    <3>2. up'[1] = Piece(N, 1)'
      <4>1. Len(up) + 1 = 1
        BY <3>1
      <4> QED
        BY <1>13, <2>1, <4>1
    <3>3. Turn = N /\ Place = 1
      BY <2>4 DEF Turn, Place, Sends
    <3>4. up'[1].place = 1 /\ TurnOf(up'[1].msg) = N
      <4>1. up'[1] = [place |-> 1, msg |-> m, units |-> 1]
        BY <1>6, <3>2
      <4>2. TurnOf(m) = N
        BY <1>5, RequestFacts
      <4> QED
        BY <4>1, <4>2
    <3> QED
      BY <2>2, <2>3, <3>3, <3>4
  <2>5. CASE up # <<>>
    <3>1. up'[1] = up[1] /\ up[1] = Head(up)
      <4>1. 1 \in DOMAIN up /\ up[1] = Head(up)
        BY <2>5, UpHead
      <4> QED
        BY <1>13, <4>1
    <3> QED
      BY <2>2, <2>3, <2>5, <3>1 DEF Turn, Place
  <2> QED
    BY <2>4, <2>5
<1> QED
  BY <1>12, <1>14, <1>15 DEF UpInv

\* The direction to the server is left alone.
LEMMA UpSame ==
  ASSUME UpInv, up' = up, asked' = asked, client'.app = client.app
  PROVE  UpInv' /\ Turn' = Turn /\ Place' = Place /\ Sent(Turn)' = Sent(Turn)
<1>1. Turn' = Turn /\ Place' = Place
  BY DEF Turn, Place, TurnOf
<1>2. \A n : Sent(n)' = Sent(n) /\ \A i : Piece(n, i)' = Piece(n, i)
  BY DEF Sent, RequestMessage, RequestRest, Piece
<1>3. UpPieces'
  BY <1>2 DEF UpInv, UpPieces
<1>4. UpOrder'
  BY <1>2 DEF UpInv, UpOrder, InPlace
<1> QED
  BY <1>1, <1>2, <1>3, <1>4 DEF UpInv, Sent, RequestMessage, RequestRest

\* The server takes each chunk for what it is.
LEMMA ServerFrames ==
  ASSUME TypeInv, UpInv, ReaderInv, server.pc = "loop", up # <<>>
  PROVE  /\ Framed(server.part, Head(up), DefaultChunk)
         /\ ServerPart = [msg |-> Sent(Turn), got |-> Place, mixed |-> FALSE]
         /\ Whole(ServerPart) <=> Place = Sent(Turn).len
<1>1. PICK m : m = Sent(Turn)
  OBVIOUS
<1>2. PICK i : i = Place
  OBVIOUS
<1>3. i \in 1 .. m.len /\ m.len \in 1 .. 3 /\ Head(up) = [place |-> i, msg |-> m, units |-> 1]
  BY <1>1, <1>2, UpHead DEF Piece
<1>4. server.part = IF i = 1 THEN NoMessage ELSE [msg |-> m, got |-> i - 1, mixed |-> FALSE]
  BY <1>1, <1>2 DEF ReaderInv
<1>7. PICK c : c = Head(up) /\ c.msg = m /\ c.place = i /\ c.units = 1
  BY <1>3
<1>5. CASE i = 1
  <2>1. Min({m.len, DefaultChunk}) = 1
    BY <1>3, MinOfTwo DEF DefaultChunk
  <2>2. {m.len, DefaultChunk} \cup {} = {m.len, DefaultChunk}
    OBVIOUS
  <2>3. Wanted(NoMessage, c, DefaultChunk) = 1
    BY <1>7, <2>1, <2>2 DEF Wanted
  <2>4. server.part = NoMessage
    BY <1>4, <1>5
  <2>5. Framed(NoMessage, c, DefaultChunk)
    BY <1>5, <1>7, <2>3 DEF Framed
  <2>6. Appended(NoMessage, c) = [msg |-> m, got |-> i, mixed |-> FALSE]
    BY <1>5, <1>7 DEF Appended
  <2>7. Framed(server.part, Head(up), DefaultChunk) /\ ServerPart = [msg |-> m, got |-> i, mixed |-> FALSE]
    BY <1>7, <2>4, <2>5, <2>6 DEF ServerPart
  <2> QED
    BY <1>1, <1>2, <2>7 DEF Whole
<1>6. CASE i # 1
  <2>1. PICK p : p = [msg |-> m, got |-> i - 1, mixed |-> FALSE]
    OBVIOUS
  <2>2. p # NoMessage /\ server.part = p
    <3>1. p.got # 0 /\ server.part = p
      BY <1>3, <1>4, <1>6, <2>1
    <3> QED
      BY <3>1 DEF NoMessage
  <2>3. Min({m.len, DefaultChunk} \cup {m.len - (i - 1)}) = 1
    <3>1. PICK S : S = {m.len, DefaultChunk} \cup {m.len - (i - 1)}
      OBVIOUS
    <3>2. 1 \in S /\ \A x \in S : x \in Nat /\ 1 <= x
      BY <1>3, <3>1 DEF DefaultChunk
    <3>3. Min(S) \in S /\ Min(S) <= 1
      BY <3>2 DEF Min
    <3>4. Min(S) = 1
      BY <3>2, <3>3
    <3> QED
      BY <3>1, <3>4
  <2>4. Wanted(p, c, DefaultChunk) = 1
    <3>1. p.msg.len = m.len /\ p.got = i - 1
      BY <2>1
    <3> QED
      BY <1>7, <2>2, <2>3, <3>1 DEF Wanted
  <2>5. Appended(p, c) = [msg |-> m, got |-> i, mixed |-> FALSE]
    <3>1. Appended(p, c) = [p EXCEPT !.got = p.got + 1, !.mixed = p.mixed \/ m # p.msg]
      BY <1>7, <2>2 DEF Appended
    <3>2. p.got + 1 = i
      BY <1>3, <2>1
    <3>3. (p.mixed \/ m # p.msg) = FALSE
      BY <2>1
    <3>4. Appended(p, c) = [p EXCEPT !.got = i, !.mixed = FALSE]
      BY <3>1, <3>2, <3>3
    <3> QED
      BY <2>1, <3>4
  <2>6. Framed(p, c, DefaultChunk)
    BY <1>7, <2>2, <2>4 DEF Framed
  <2>7. Framed(server.part, Head(up), DefaultChunk) /\ ServerPart = [msg |-> m, got |-> i, mixed |-> FALSE]
    BY <1>7, <2>2, <2>5, <2>6 DEF ServerPart
  <2> QED
    BY <1>1, <1>2, <2>7 DEF Whole
<1> QED
  BY <1>5, <1>6

-----------------------------------------------------------------------------
(* The direction to the client.                                                *)

\* A message of the connection's own goroutine is one chunk; only media is more.
LEMMA DownwardFacts ==
  ASSUME NEW m \in Downward
  PROVE  m.len \in Nat \ {0} /\ (m \in Answers \cup Controls => m.len \in 1 .. 2)
         /\ (m.len > 2 => m \in Media)
<1>1. CASE m \in Answers
  <2>1. \A n, rest, len : Command("_result", n, rest, len).len = len
    BY DEF Command
  <2>2. \A n, code : StatusMessage(n, code).len = 2
    BY DEF StatusMessage, Command
  <2>3. m.len \in 1 .. 2
    BY <1>1, <2>1, <2>2 DEF Answers, ResultMessages, StatusMessages
  <2> QED
    BY <2>3
<1>2. CASE m \in Controls
  <2>1. m.len = 1
    BY <1>2 DEF Controls, Control
  <2> QED
    BY <2>1
<1>3. CASE m \in Media /\ m \notin Answers \cup Controls
  BY <1>3, PullAssumption DEF Media, TagMessage, MetaMessage, PullAssumption
<1> QED
  BY <1>1, <1>2, <1>3 DEF Downward

\* A chunk on its way is a part of a message.
LEMMA CutFacts ==
  ASSUME NEW M, M \subseteq Downward, NEW c \in Cuts(M)
  PROVE  /\ c.msg \in M /\ c.place \in 1 .. Cut(c.msg) /\ c = Part(c.msg, c.place)
         /\ Cut(c.msg) \in Nat \ {0} /\ (c.msg.len <= 3 => Cut(c.msg) = 1)
<1>1. PICK m \in M : \E i \in 1 .. Cut(m) : c = Part(m, i)
  BY DEF Cuts
<1>2. PICK i \in 1 .. Cut(m) : c = Part(m, i)
  BY <1>1
<1>3. m.len \in Nat \ {0}
  BY DownwardFacts
<1>4. c.place = i /\ c.msg = m /\ Cut(m) \in Nat \ {0} /\ (m.len <= 3 => Cut(m) = 1)
  BY <1>2, <1>3, PartFacts
<1> QED
  BY <1>2, <1>4

LEMMA CutIn ==
  ASSUME NEW M, M \subseteq Downward, NEW m \in M
  PROVE  /\ \A i \in 1 .. Cut(m) : Part(m, i) \in Cuts(M) /\ Part(m, i).place = i /\ Part(m, i).msg = m
         /\ m.len <= 3 => OneChunk(m) = Part(m, 1) /\ OneChunk(m) \in Cuts(M) /\ Cut(m) = 1
<1>1. m.len \in Nat \ {0}
  BY DownwardFacts
<1>2. \A i \in 1 .. Cut(m) : Part(m, i) \in Cuts(M) /\ Part(m, i).place = i /\ Part(m, i).msg = m
  BY <1>1, PartFacts DEF Cuts
<1>3. ASSUME m.len <= 3 PROVE OneChunk(m) = Part(m, 1) /\ Cut(m) = 1
  <2>1. Cut(m) = 1
    BY <1>1, <1>3, PartFacts
  <2>2. Part(m, 1) = [place |-> 1, msg |-> m, units |-> IF m.len < 3 THEN m.len ELSE 3]
    BY <1>1 DEF Part, Chunk, OwnChunk
  <2>3. (IF m.len < 3 THEN m.len ELSE 3) = m.len
    BY <1>1, <1>3
  <2> QED
    BY <2>1, <2>2, <2>3 DEF OneChunk
<1>4. ASSUME m.len <= 3 PROVE OneChunk(m) \in Cuts(M)
  <2>1. 1 \in 1 .. Cut(m) /\ OneChunk(m) = Part(m, 1)
    BY <1>3, <1>4
  <2> QED
    BY <1>2, <2>1
<1> QED
  BY <1>2, <1>3, <1>4

LEMMA OwnWrites ==
  /\ OneChunks \subseteq DownChunks /\ Cuts(Media) \subseteq DownChunks
  /\ \A c \in OneChunks : c.place = 1 /\ After(c) = NoMessage /\ c.msg \in Answers \cup Controls
<1>1. Answers \cup Controls \subseteq Downward /\ Media \subseteq Downward
  BY DEF Downward
<1>2. Cuts(Media) \subseteq DownChunks
  BY <1>1 DEF DownChunks, Cuts
<1>3. ASSUME NEW c \in OneChunks
      PROVE  c \in DownChunks /\ c.place = 1 /\ After(c) = NoMessage /\ c.msg \in Answers \cup Controls
  <2>1. PICK m \in Answers \cup Controls : c = OneChunk(m)
    BY DEF OneChunks
  <2>2. m \in Downward /\ m.len <= 3
    BY <1>1, DownwardFacts
  <2>3. c \in DownChunks /\ Cut(m) = 1
    BY <2>1, <2>2, CutIn DEF DownChunks
  <2>4. c.place = 1 /\ c.msg = m
    BY <2>1 DEF OneChunk
  <2> QED
    BY <2>3, <2>4 DEF After
<1> QED
  BY <1>2, <1>3

LEMMA OwnSequence == ASSUME NEW more \in Seq(OneChunks) PROVE more \in Seq(DownChunks)
<1>1. PICK n \in Nat : n = Len(more)
  OBVIOUS
<1>2. \A k \in 1 .. n : more[k] \in OneChunks
  BY <1>1
<1>3. \A k \in 1 .. n : more[k] \in DownChunks
  BY <1>2, OwnWrites
<1> QED
  BY <1>1, <1>3

\* The client takes each chunk for what it is.
LEMMA ClientFrames ==
  ASSUME TypeInv, DownInv, client.pc # "ended", down # <<>>
  PROVE  /\ Framed(client.part, Head(down), client.chunk)
         /\ ~ClientPart.mixed /\ Got \in Downward /\ Head(down).msg = Got
         /\ Head(down) \in DownChunks /\ Head(down) = down[1] /\ 1 \in DOMAIN down
         /\ Whole(ClientPart) <=> Head(down).place = Cut(Got)
         /\ After(Head(down)) = IF Whole(ClientPart) THEN NoMessage ELSE ClientPart
<1>1. 1 \in DOMAIN down /\ Head(down) = down[1] /\ down[1] \in DownChunks
  BY DEF DownInv
<1>2. PICK c : c = Head(down)
  OBVIOUS
<1>3. PICK m : m = c.msg
  OBVIOUS
<1>4. PICK i : i = c.place
  OBVIOUS
<1>5. m \in Downward /\ i \in 1 .. Cut(m) /\ c = Part(m, i)
  BY <1>1, <1>2, <1>3, <1>4, CutFacts DEF DownChunks
<1>6. m.len \in Nat \ {0}
  BY <1>5, DownwardFacts
<1>7. Continues(client.part, Part(m, i)) /\ (m.len = 1 \/ client.chunk = OwnChunk)
  <2>1. Continues(Reader(1 - 1), down[1]) /\ (down[1].msg.len = 1 \/ Announced(1 - 1))
    BY <1>1 DEF DownInv
  <2>2. Reader(1 - 1) = client.part
    BY DEF Reader
  <2>3. Announced(1 - 1) <=> client.chunk = OwnChunk
    BY DEF Announced
  <2> QED
    BY <1>1, <1>2, <1>3, <1>5, <2>1, <2>2, <2>3
<1>8. client.part \in ClientParts /\ client.chunk \in {DefaultChunk, OwnChunk}
  BY DEF TypeInv, ClientType
<1>9. PICK p : p = Appended(client.part, c)
  OBVIOUS
<1>10. /\ Framed(client.part, c, client.chunk)
       /\ p.msg = m /\ ~p.mixed /\ (Whole(p) <=> i = Cut(m))
       /\ After(c) = IF Whole(p) THEN NoMessage ELSE p
  BY <1>5, <1>6, <1>7, <1>8, <1>9, PartFramed
<1>11. p = ClientPart /\ m = Got
  BY <1>2, <1>9, <1>10 DEF ClientPart, Got
<1> QED
  BY <1>1, <1>2, <1>3, <1>4, <1>5, <1>10, <1>11

\* Taking a chunk, and the size it announces.
TakesDown == /\ down # <<>> /\ down' = Tail(down) /\ server' = server /\ player' = player
             /\ client'.chunk = IF Got.type = "setChunkSize" THEN OwnChunk ELSE client.chunk
             /\ client'.part = IF Whole(ClientPart) THEN NoMessage ELSE ClientPart

LEMMA TakeDown ==
  ASSUME TypeInv, DownInv, client.pc # "ended", TakesDown
  PROVE  DownInv' /\ \A k \in DOMAIN down' : k \in Nat /\ k + 1 \in DOMAIN down /\ down'[k] = down[k + 1]
<1>1. down \in Seq(DownChunks) /\ down # <<>> /\ down' = Tail(down)
  BY DEF DownInv, TakesDown
<1>2. /\ down' \in Seq(DownChunks) /\ Len(down') = Len(down) - 1 /\ Len(down) \in Nat \ {0}
      /\ DOMAIN down = 1 .. Len(down) /\ DOMAIN down' = 1 .. Len(down')
      /\ \A k \in DOMAIN down' : k \in Nat /\ k + 1 \in DOMAIN down /\ down'[k] = down[k + 1]
  BY <1>1
<1>3. down[1].msg.type = "setChunkSize" => client'.chunk = OwnChunk
  <2>1. down[1].msg = Got
    BY <1>1, ClientFrames
  <2> QED
    BY <2>1 DEF TakesDown
<1>4. client.chunk = OwnChunk => client'.chunk = OwnChunk
  BY DEF TakesDown
<1>5. ASSUME NEW k \in 0 .. Len(down'), Announced(k + 1) PROVE Announced(k)'
  <2>1. CASE client.chunk = OwnChunk
    BY <1>4, <2>1 DEF Announced
  <2>2. CASE \E j \in 1 .. k + 1 : down[j].msg.type = "setChunkSize"
    <3>1. PICK j \in 1 .. k + 1 : down[j].msg.type = "setChunkSize"
      BY <2>2
    <3>2. CASE j = 1
      BY <1>3, <3>1, <3>2 DEF Announced
    <3>3. CASE j # 1
      <4>1. j - 1 \in 1 .. k /\ j - 1 \in DOMAIN down' /\ (j - 1) + 1 = j
        BY <1>2, <3>3
      <4>2. down'[j - 1] = down[j]
        BY <1>2, <4>1
      <4> QED
        BY <3>1, <4>1, <4>2 DEF Announced
    <3> QED
      BY <3>2, <3>3
  <2> QED
    BY <1>5, <2>1, <2>2 DEF Announced
<1>6. ASSUME NEW k \in 0 .. Len(down') PROVE Reader(k)' = Reader(k + 1)
  <2>1. Reader(k + 1) = After(down[k + 1])
    BY DEF Reader
  <2>2. CASE k = 0
    <3>1. Reader(k)' = client'.part /\ down[k + 1] = Head(down)
      BY <1>1, <2>2, ClientFrames DEF Reader
    <3>2. After(Head(down)) = client'.part
      BY <1>1, ClientFrames DEF TakesDown
    <3> QED
      BY <2>1, <3>1, <3>2
  <2>3. CASE k # 0
    <3>1. k \in DOMAIN down' /\ Reader(k)' = After(down'[k])
      BY <1>2, <2>3 DEF Reader, After
    <3>2. down'[k] = down[k + 1]
      BY <1>2, <3>1
    <3> QED
      BY <2>1, <3>1, <3>2
  <2> QED
    BY <2>2, <2>3
<1>7. ASSUME NEW k \in DOMAIN down'
      PROVE  /\ Continues(Reader(k - 1), down[k])'
             /\ down'[k].msg.len = 1 \/ Announced(k - 1)'
  <2>1. k + 1 \in DOMAIN down /\ down'[k] = down[k + 1] /\ k \in Nat /\ k - 1 \in 0 .. Len(down')
        /\ k + 1 - 1 = k /\ k - 1 + 1 = k
    BY <1>2
  <2>2. /\ down[k + 1].msg.len = 1 \/ Announced(k + 1 - 1)
        /\ Continues(Reader(k + 1 - 1), down[k + 1])
    BY <2>1 DEF DownInv
  <2>3. Reader(k - 1)' = Reader(k)
    BY <1>6, <2>1
  <2>4. Continues(Reader(k - 1), down[k])'
    BY <2>1, <2>2, <2>3 DEF Continues
  <2> QED
    BY <1>5, <2>1, <2>2, <2>4
<1>8. PICK n : n = Len(down') /\ n \in 0 .. Len(down') /\ n + 1 = Len(down)
  BY <1>2
<1>9. server'.chunk = OwnChunk => Announced(Len(down))'
  <2> SUFFICES ASSUME server'.chunk = OwnChunk PROVE Announced(Len(down))'
    OBVIOUS
  <2>1. Announced(Len(down))
    BY DEF DownInv, TakesDown
  <2>3. Announced(n)'
    BY <1>5, <1>8, <2>1
  <2> QED
    BY <1>8, <2>3 DEF Announced
<1>10. (IF InsideFrame THEN Continues(Reader(Len(down)), Head(player.todo))
        ELSE Reader(Len(down)) = NoMessage)'
  <2>1. Reader(n)' = Reader(Len(down))
    BY <1>6, <1>8
  <2>2. Reader(Len(down))' = Reader(n)'
    BY <1>8 DEF Reader
  <2>3. player' = player /\ InsideFrame' = InsideFrame
    BY DEF TakesDown, InsideFrame
  <2> QED
    BY <2>1, <2>2, <2>3 DEF DownInv, Continues
<1> QED
  BY <1>2, <1>7, <1>9, <1>10 DEF DownInv

\* A step that leaves this direction alone, or ends the client.
LEMMA DownSame ==
  ASSUME DownInv, down' = down \/ client'.pc = "ended", client'.pc \in {client.pc, "ended"},
         client'.chunk = client.chunk, client'.part = client.part, server'.chunk = server.chunk,
         InsideFrame' = InsideFrame, InsideFrame => Head(player'.todo) = Head(player.todo)
  PROVE  DownInv'
<1>1. CASE client'.pc = "ended"
  BY <1>1 DEF DownInv
<1>2. CASE client'.pc # "ended"
  <2>1. client.pc # "ended" /\ down' = down
    BY <1>2
  <2>2. \A k : Announced(k)' <=> Announced(k)
    BY <2>1 DEF Announced
  <2>3. \A k : Reader(k)' = Reader(k)
    BY <2>1 DEF Reader, After
  <2>4. \A k, c : Continues(Reader(k), c)' <=> Continues(Reader(k), c)
    BY <2>3 DEF Continues
  <2>5. down \in Seq(DownChunks)
        /\ \A k \in DOMAIN down : Continues(Reader(k - 1), down[k])
                               /\ (down[k].msg.len = 1 \/ Announced(k - 1))
    BY <2>1 DEF DownInv
  <2>6. \A k \in DOMAIN down' : Continues(Reader(k - 1), down[k])'
                               /\ (down'[k].msg.len = 1 \/ Announced(k - 1)')
    BY <2>1, <2>2, <2>3, <2>5 DEF Continues
  <2>7. server'.chunk = OwnChunk => Announced(Len(down))'
    BY <2>1, <2>2 DEF DownInv, Announced
  <2>8. (IF InsideFrame THEN Continues(Reader(Len(down)), Head(player.todo))
         ELSE Reader(Len(down)) = NoMessage)'
    <3>1. IF InsideFrame THEN Continues(Reader(Len(down)), Head(player.todo))
          ELSE Reader(Len(down)) = NoMessage
      BY <2>1 DEF DownInv
    <3>2. Reader(Len(down))' = Reader(Len(down))
      BY <2>1, <2>3 DEF Reader, After
    <3> QED
      BY <3>1, <3>2 DEF Continues
  <2> QED
    BY <2>1, <2>5, <2>6, <2>7, <2>8 DEF DownInv
<1> QED
  BY <1>1, <1>2

\* Writing what comes next to a client that knows the size, or has it on its way.
LEMMA GrowDown ==
  ASSUME DownInv, client.pc # "ended", server.chunk = OwnChunk, client' = client,
         NEW more \in Seq(DownChunks), NEW n \in Nat \ {0}, n = Len(more), down' = down \o more,
         Continues(Reader(Len(down)), more[1]),
         \A k \in 2 .. n : Continues(After(more[k - 1]), more[k]),
         IF InsideFrame' THEN Continues(After(more[n]), Head(player'.todo))
         ELSE After(more[n]) = NoMessage
  PROVE  DownInv'
<1>1. down \in Seq(DownChunks)
  BY DEF DownInv
<1>2. PICK a : a = Len(down) /\ a \in Nat
  BY <1>1
<1>3. /\ down' \in Seq(DownChunks) /\ Len(down') = a + n
      /\ DOMAIN down = 1 .. a /\ DOMAIN down' = 1 .. a + n
      /\ \A k \in 1 .. a : down'[k] = down[k]
      /\ \A k \in 1 .. n : down'[a + k] = more[k]
  BY <1>1, <1>2
<1>4. ASSUME NEW k \in Nat, NEW b \in 0 .. a, Announced(b), b <= k PROVE Announced(k)'
  <2>1. CASE client.chunk = OwnChunk
    BY <2>1 DEF Announced
  <2>2. CASE client.chunk # OwnChunk
    <3>1. PICK j \in 1 .. b : down[j].msg.type = "setChunkSize"
      BY <1>4, <2>2 DEF Announced
    <3>2. j \in 1 .. k /\ j \in 1 .. a
      BY <1>2, <1>4
    <3>3. down'[j] = down[j]
      BY <1>3, <3>2
    <3> QED
      BY <3>1, <3>2, <3>3 DEF Announced
  <2> QED
    BY <2>1, <2>2
<1>5. Announced(a)
  BY <1>2 DEF DownInv
<1>6. ASSUME NEW k \in 0 .. a PROVE Reader(k)' = Reader(k)
  <2>1. CASE k = 0
    BY <2>1 DEF Reader
  <2>2. CASE k # 0
    <3>1. down'[k] = down[k]
      BY <1>2, <1>3, <2>2
    <3> QED
      BY <2>2, <3>1 DEF Reader, After
  <2> QED
    BY <2>1, <2>2
<1>7. ASSUME NEW k \in 1 .. n PROVE Reader(a + k)' = After(more[k])
  <2>1. down'[a + k] = more[k] /\ a + k # 0
    BY <1>2, <1>3
  <2> QED
    BY <2>1 DEF Reader, After
<1>8. ASSUME NEW k \in DOMAIN down'
      PROVE  /\ Continues(Reader(k - 1), down[k])'
             /\ down'[k].msg.len = 1 \/ Announced(k - 1)'
  <2>1. CASE k <= a
    <3>1. k \in DOMAIN down /\ k - 1 \in 0 .. a /\ k - 1 \in Nat /\ k - 1 <= k - 1 /\ down'[k] = down[k]
      BY <1>2, <1>3, <2>1
    <3>2. Continues(Reader(k - 1), down[k]) /\ (down[k].msg.len = 1 \/ Announced(k - 1))
      BY <3>1 DEF DownInv
    <3>3. Reader(k - 1)' = Reader(k - 1)
      BY <1>6, <3>1
    <3>4. Continues(Reader(k - 1), down[k])'
      BY <3>1, <3>2, <3>3 DEF Continues
    <3> QED
      BY <1>4, <3>1, <3>2, <3>4
  <2>2. CASE ~(k <= a)
    <3>1. PICK j \in 1 .. n : k = a + j
      <4>1. k - a \in 1 .. n /\ k = a + (k - a)
        BY <1>2, <1>3, <2>2
      <4> QED
        BY <4>1
    <3>2. down'[k] = more[j] /\ k - 1 \in Nat /\ a <= k - 1 /\ a \in 0 .. a
      BY <1>2, <1>3, <3>1
    <3>3. Announced(k - 1)'
      BY <1>4, <1>5, <3>2
    <3>4. CASE j = 1
      <4>1. k - 1 = a /\ Reader(a)' = Reader(a)
        BY <1>2, <1>6, <3>1, <3>4
      <4>2. Reader(k - 1)' = Reader(k - 1)
        BY <1>6, <3>2, <4>1
      <4>3. Continues(Reader(k - 1), more[1])
        BY <1>2, <4>1
      <4> QED
        BY <3>2, <3>3, <3>4, <4>2, <4>3 DEF Continues
    <3>5. CASE j # 1
      <4>1. j \in 2 .. n /\ j - 1 \in 1 .. n /\ k - 1 = a + (j - 1)
        BY <1>2, <3>1, <3>5
      <4>2. Continues(After(more[j - 1]), more[j])
        BY <4>1
      <4>3. Reader(a + (j - 1))' = After(more[j - 1])
        BY <1>7, <4>1
      <4>4. Reader(k - 1)' = Reader(a + (j - 1))'
        BY <4>1
      <4> QED
        BY <3>2, <3>3, <4>2, <4>3, <4>4 DEF Continues
    <3> QED
      BY <3>4, <3>5
  <2> QED
    BY <2>1, <2>2
<1>9. PICK e : e = Len(down') /\ e = a + n /\ e \in Nat /\ a <= e /\ a \in 0 .. a
  BY <1>2, <1>3
<1>10. Announced(Len(down))'
  <2>1. Announced(e)'
    BY <1>4, <1>5, <1>9
  <2> QED
    BY <1>9, <2>1 DEF Announced
<1>11. Reader(Len(down))' = After(more[n])
  <2>1. n \in 1 .. n
    OBVIOUS
  <2>2. Reader(a + n)' = After(more[n])
    BY <1>7, <2>1
  <2>3. Reader(Len(down))' = Reader(a + n)'
    BY <1>9
  <2> QED
    BY <2>2, <2>3
<1>12. (IF InsideFrame THEN Continues(Reader(Len(down)), Head(player.todo))
        ELSE Reader(Len(down)) = NoMessage)'
  BY <1>11 DEF Continues
<1> QED
  BY <1>3, <1>8, <1>10, <1>12 DEF DownInv

\* The connection's own goroutine writes whole messages, and none of them inside
\* a frame.
LEMMA WriteWhole ==
  ASSUME ClientPhase, DownInv, server.chunk = OwnChunk, client' = client,
         ~InsideFrame, ~InsideFrame',
         NEW more \in Seq(OneChunks), more # <<>>, Written(more)
  PROVE  DownInv'
<1>1. CASE client.pc = "ended"
  BY <1>1 DEF DownInv
<1>2. CASE client.pc # "ended"
  <2>1. "client" \notin gone
    BY <1>2 DEF ClientPhase
  <2>2. down' = down \o more
    BY <2>1 DEF Written
  <2>3. PICK n \in Nat \ {0} : n = Len(more)
    OBVIOUS
  <2>4. \A k \in 1 .. n : more[k] \in OneChunks
    BY <2>3
  <2>5. \A k \in 1 .. n : more[k] \in DownChunks /\ more[k].place = 1 /\ After(more[k]) = NoMessage
    BY <2>4, OwnWrites
  <2>6. more \in Seq(DownChunks)
    BY OwnSequence
  <2>7. Reader(Len(down)) = NoMessage
    BY <1>2 DEF DownInv
  <2>8. 1 \in 1 .. n /\ n \in 1 .. n /\ \A k \in 2 .. n : k \in 1 .. n /\ k - 1 \in 1 .. n
    OBVIOUS
  <2>9. Continues(Reader(Len(down)), more[1])
    BY <2>5, <2>7, <2>8 DEF Continues
  <2>10. \A k \in 2 .. n : Continues(After(more[k - 1]), more[k])
    BY <2>5, <2>8 DEF Continues
  <2> QED
    BY <1>2, <2>2, <2>3, <2>5, <2>6, <2>8, <2>9, <2>10, GrowDown
<1> QED
  BY <1>1, <1>2

\* What is left of a message, before and after its next chunk.
LEMMA RestFacts ==
  ASSUME NEW S, NEW todo \in Seq(S), todo # <<>>, NEW m \in Media, NEW i \in 1 .. Cut(m), Rest(todo, m, i)
  PROVE  /\ Head(todo) = Part(m, i) /\ Cut(m) \in Nat \ {0}
         /\ i = Cut(m) => Tail(todo) = <<>>
         /\ i # Cut(m) => /\ i + 1 \in 1 .. Cut(m) /\ Tail(todo) # <<>>
                          /\ Rest(Tail(todo), m, i + 1) /\ Head(Tail(todo)) = Part(m, i + 1)
<1>1. m \in Downward /\ m.len \in Nat \ {0}
  BY DownwardFacts DEF Downward
<1>2. PICK cut \in Nat \ {0} : cut = Cut(m)
  BY <1>1, PartFacts
<1>3. /\ todo = <<Head(todo)>> \o Tail(todo) /\ todo[1] = Head(todo) /\ Len(todo) \in Nat \ {0}
      /\ Tail(todo) \in Seq(S) /\ Len(Tail(todo)) = Len(todo) - 1
      /\ \A j \in 1 .. Len(todo) - 1 : Tail(todo)[j] = todo[j + 1]
  BY HeadTailProperties
<1>4. PICK n \in Nat \ {0} : n = Len(todo) /\ n = cut - i + 1
  BY <1>2, <1>3 DEF Rest
<1>5. \A j \in 1 .. n : todo[j] = Part(m, i + j - 1)
  BY <1>4 DEF Rest
<1>6. Head(todo) = Part(m, i)
  <2>1. 1 \in 1 .. n /\ i + 1 - 1 = i
    BY <1>2
  <2>2. todo[1] = Part(m, i + 1 - 1)
    BY <1>5, <2>1
  <2> QED
    BY <1>3, <2>1, <2>2
<1>7. ASSUME i = cut PROVE Tail(todo) = <<>>
  <2>2. n = 1
    BY <1>2, <1>4, <1>7
  <2>1. Len(Tail(todo)) = 0
    BY <1>3, <1>4, <2>2
  <2> QED
    BY <1>3, <2>1, EmptySeq
<1>8. ASSUME i # cut
      PROVE  /\ i + 1 \in 1 .. cut /\ Tail(todo) # <<>>
             /\ Rest(Tail(todo), m, i + 1) /\ Head(Tail(todo)) = Part(m, i + 1)
  <2>1. PICK t \in Seq(S) : t = Tail(todo)
    BY <1>3
  <2>2. i + 1 \in 1 .. cut /\ Len(t) = cut - (i + 1) + 1 /\ Len(t) = n - 1 /\ n > 1
    BY <1>2, <1>3, <1>4, <1>8, <2>1
  <2>3. \A j \in 1 .. Len(t) : t[j] = Part(m, i + 1 + j - 1)
    <3> SUFFICES ASSUME NEW j \in 1 .. n - 1 PROVE t[j] = Part(m, i + 1 + j - 1)
      BY <2>2
    <3>1. j + 1 \in 1 .. n /\ i + 1 + j - 1 = i + (j + 1) - 1
      BY <1>2
    <3>2. t[j] = todo[j + 1]
      BY <1>3, <1>4, <2>1
    <3>3. todo[j + 1] = Part(m, i + (j + 1) - 1)
      BY <1>5, <3>1
    <3> QED
      BY <3>1, <3>2, <3>3
  <2>4. t # <<>>
    BY <2>2
  <2>5. Head(t) = Part(m, i + 1)
    <3>1. 1 \in 1 .. Len(t) /\ i + 1 + 1 - 1 = i + 1 /\ Head(t) = t[1]
      BY <1>2, <2>2, <2>4
    <3>2. t[1] = Part(m, i + 1 + 1 - 1)
      BY <2>3, <3>1
    <3> QED
      BY <3>1, <3>2
  <2>6. Rest(t, m, i + 1)
    BY <1>2, <2>2, <2>3 DEF Rest
  <2> QED
    BY <2>1, <2>2, <2>4, <2>5, <2>6
<1> QED
  BY <1>2, <1>6, <1>7, <1>8

\* All the chunks of a message.
LEMMA RestOfAll ==
  ASSUME NEW m \in Media
  PROVE  /\ Chunks(m, OwnChunk) \in Seq(Cuts(Media)) /\ Chunks(m, OwnChunk) # <<>>
         /\ Rest(Chunks(m, OwnChunk), m, 1) /\ 1 \in 1 .. Cut(m)
         /\ Head(Chunks(m, OwnChunk)) = Part(m, 1) /\ Part(m, 1).place = 1
<1>1. Media \subseteq Downward /\ m.len \in Nat \ {0}
  BY DownwardFacts DEF Downward
<1>2. PICK cut \in Nat \ {0} : cut = Cut(m)
  BY <1>1, PartFacts
<1>3. \A i \in 1 .. cut : Part(m, i) \in Cuts(Media) /\ Part(m, i).place = i
  BY <1>1, <1>2, CutIn
<1>4. PICK q : q = [i \in 1 .. cut |-> Part(m, i)]
  OBVIOUS
<1>5. Chunks(m, OwnChunk) = q
  BY <1>1, <1>2, <1>4, PartFacts
<1>6. q \in Seq(Cuts(Media)) /\ Len(q) = cut /\ \A i \in 1 .. cut : q[i] = Part(m, i)
  BY <1>3, <1>4
<1>7. q # <<>> /\ Head(q) = q[1] /\ 1 \in 1 .. cut
  BY <1>6
<1>8. Rest(q, m, 1)
  <2>1. Len(q) = cut - 1 + 1 /\ \A j \in 1 .. cut : 1 + j - 1 = j
    BY <1>2, <1>6
  <2> QED
    BY <1>2, <1>6, <2>1 DEF Rest
<1> QED
  BY <1>2, <1>3, <1>5, <1>6, <1>7, <1>8

\* The player's goroutine writes the next chunk of its message.
LEMMA WritePart ==
  ASSUME ClientPhase, DownInv, TodoInv, server.chunk = OwnChunk, client' = client,
         player.todo \in Seq(Cuts(Media)), player.todo # <<>>, Written(<<Head(player.todo)>>),
         player'.todo = Tail(player.todo)
  PROVE  DownInv' /\ TodoInv'
<1>1. PICK m \in Media : \E i \in 1 .. Cut(m) : Rest(player.todo, m, i)
  BY DEF TodoInv
<1>2. PICK i \in 1 .. Cut(m) : Rest(player.todo, m, i)
  BY <1>1
<1>3. PICK c : c = Head(player.todo)
  OBVIOUS
<1>4. PICK todo : todo = Tail(player.todo)
  OBVIOUS
<1>5. /\ c = Part(m, i) /\ Cut(m) \in Nat \ {0}
      /\ i = Cut(m) => todo = <<>>
      /\ i # Cut(m) => /\ i + 1 \in 1 .. Cut(m) /\ todo # <<>> /\ Rest(todo, m, i + 1)
                       /\ Head(todo) = Part(m, i + 1)
  BY <1>2, <1>3, <1>4, RestFacts
<1>6. /\ \A j \in 1 .. Cut(m) : Part(m, j) \in Cuts(Media) /\ Part(m, j).place = j /\ Part(m, j).msg = m
  BY CutIn DEF Downward
<1>7. TodoInv'
  <2>1. \A k \in 1 .. Cut(m) : Rest(todo, m, k)' <=> Rest(todo, m, k)
    OBVIOUS
  <2> SUFFICES ASSUME todo # <<>> PROVE Rest(todo, m, i + 1) /\ i + 1 \in 1 .. Cut(m)
    BY <1>4 DEF TodoInv
  <2> QED
    BY <1>5
<1>8. CASE client.pc = "ended"
  BY <1>7, <1>8 DEF DownInv
<1>9. CASE client.pc # "ended"
  <2>1. "client" \notin gone
    BY <1>9 DEF ClientPhase
  <2>2. PICK more : more = <<c>>
    OBVIOUS
  <2>3. down' = down \o more
    BY <1>3, <2>1, <2>2 DEF Written
  <2>4. c \in DownChunks /\ c.place = i /\ c.msg = m
    BY <1>5, <1>6, OwnWrites
  <2>5. more \in Seq(DownChunks) /\ Len(more) = 1 /\ more[1] = c
    BY <2>2, <2>4
  <2>6. Continues(Reader(Len(down)), c)
    <3>1. CASE InsideFrame
      BY <1>3, <1>9, <3>1 DEF DownInv
    <3>2. CASE ~InsideFrame
      <4>1. Reader(Len(down)) = NoMessage
        BY <1>9, <3>2 DEF DownInv
      <4>2. c.place = 1
        BY <1>3, <2>4, <3>2 DEF InsideFrame
      <4> QED
        BY <4>1, <4>2 DEF Continues
    <3> QED
      BY <3>1, <3>2
  <2>7. IF InsideFrame' THEN Continues(After(c), Head(player'.todo)) ELSE After(c) = NoMessage
    <3>1. CASE i = Cut(m)
      <4>1. After(c) = NoMessage
        BY <2>4, <3>1 DEF After
      <4>2. ~InsideFrame'
        BY <1>4, <1>5, <3>1 DEF InsideFrame
      <4> QED
        BY <4>1, <4>2
    <3>2. CASE i # Cut(m)
      <4>1. PICK d : d = Part(m, i + 1) /\ d = Head(todo) /\ d.place = i + 1 /\ d.msg = m
        BY <1>5, <1>6, <3>2
      <4>2. InsideFrame'
        BY <1>4, <1>5, <3>2, <4>1 DEF InsideFrame
      <4>3. After(c) = [msg |-> m, got |-> i * OwnChunk, mixed |-> FALSE]
        BY <2>4, <3>2 DEF After
      <4>4. i * OwnChunk # 0 /\ i + 1 - 1 = i
        BY <1>5 DEF OwnChunk
      <4>5. After(c) # NoMessage /\ After(c).msg = m /\ After(c).got = i * OwnChunk
        BY <4>3, <4>4 DEF NoMessage
      <4>6. Continues(After(c), d)
        BY <4>1, <4>4, <4>5 DEF Continues
      <4> QED
        BY <1>4, <4>1, <4>2, <4>6
    <3> QED
      BY <3>1, <3>2
  <2>8. PICK n \in Nat \ {0} : n = 1
    OBVIOUS
  <2>10. \A k \in 2 .. n : Continues(After(more[k - 1]), more[k])
    BY <2>8
  <2>11. n = Len(more) /\ more[n] = c
    BY <2>5, <2>8
  <2>12. Continues(Reader(Len(down)), more[1])
    BY <2>5, <2>6
  <2>13. IF InsideFrame' THEN Continues(After(more[n]), Head(player'.todo)) ELSE After(more[n]) = NoMessage
    BY <2>7, <2>11
  <2>9. DownInv'
    BY <1>9, <2>3, <2>5, <2>10, <2>11, <2>12, <2>13, GrowDown
  <2> QED
    BY <1>7, <2>9
<1> QED
  BY <1>8, <1>9

-----------------------------------------------------------------------------
(* What is encoded is decoded: the commands and answers of a connection.       *)

LEMMA LeastOf ==
  ASSUME NEW S \in SUBSET Nat, S # {}
  PROVE  \E k \in S : \A j \in S : k <= j
<1>1. PICK k \in S : \A j \in S : ~(<<j, k>> \in OpToRel(<, Nat))
  BY NatLessThanWellFounded, WFMin
<1>2. \A j \in S : ~(j < k)
  BY <1>1 DEF OpToRel
<1> QED
  BY <1>2

\* The state that Decode is in after n steps.
Reaches(body, n, s) ==
    \E p : /\ p[0] = Start /\ \A k \in 1 .. n : p[k] = Step(body, p[k - 1])
           /\ p[n] = s

LEMMA ReachesStart == ASSUME NEW body PROVE Reaches(body, 0, Start)
<1> DEFINE p == [k \in 0 .. 0 |-> Start]
<1>1. p[0] = Start /\ \A k \in 1 .. 0 : p[k] = Step(body, p[k - 1])
  OBVIOUS
<1> QED
  BY <1>1 DEF Reaches

LEMMA ReachesNext ==
  ASSUME NEW body, NEW n \in Nat, NEW s, Reaches(body, n, s), NEW t, t = Step(body, s)
  PROVE  Reaches(body, n + 1, t)
<1>1. PICK p : /\ p[0] = Start /\ \A k \in 1 .. n : p[k] = Step(body, p[k - 1])
               /\ p[n] = s
  BY DEF Reaches
<1> DEFINE q == [k \in 0 .. n + 1 |-> IF k = n + 1 THEN t ELSE p[k]]
<1>2. \A k \in 0 .. n + 1 : q[k] = IF k = n + 1 THEN t ELSE p[k]
  OBVIOUS
<1> HIDE DEF q
<1>3. q[0] = Start /\ q[n + 1] = t
  <2>1. 0 \in 0 .. n + 1 /\ n + 1 \in 0 .. n + 1 /\ 0 # n + 1
    OBVIOUS
  <2> QED
    BY <1>1, <1>2, <2>1
<1>4. ASSUME NEW k \in 1 .. n + 1 PROVE q[k] = Step(body, q[k - 1])
  <2>1. k \in 0 .. n + 1 /\ k - 1 \in 0 .. n + 1 /\ k - 1 # n + 1
    OBVIOUS
  <2>2. q[k - 1] = p[k - 1] /\ q[k] = IF k = n + 1 THEN t ELSE p[k]
    BY <1>2, <2>1
  <2>3. CASE k = n + 1
    <3>1. k - 1 = n
      BY <2>3
    <3> QED
      BY <1>1, <2>2, <2>3, <3>1
  <2>4. CASE k # n + 1
    <3>1. k \in 1 .. n
      BY <2>4
    <3> QED
      BY <1>1, <2>2, <2>4, <3>1
  <2> QED
    BY <2>3, <2>4
<1> QED
  BY <1>3, <1>4 DEF Reaches

\* Where the decoder stands still, it has decoded the body.
LEMMA DecodeEnds ==
  ASSUME NEW body, NEW m \in Nat, Len(body) \in Nat, m <= 2 * Len(body),
         NEW s, Reaches(body, m, s), Step(body, s) = s
  PROVE  Decode(body) = [err |-> s.bad, values |-> s.values]
<1> DEFINE L == 2 * Len(body)
           Runs(f) == f = [k \in 0 .. L |-> IF k = 0 THEN Start ELSE Step(body, f[k - 1])]
           run == CHOOSE f : Runs(f)
<1>1. Decode(body) = [err |-> run[L].bad, values |-> run[L].values]
  BY DEF Decode
<1>2. PICK p : /\ p[0] = Start /\ \A k \in 1 .. m : p[k] = Step(body, p[k - 1])
               /\ p[m] = s
  BY DEF Reaches
<1>3. PICK l \in Nat : l = 2 * Len(body) /\ m <= l
  OBVIOUS
<1> DEFINE q == [k \in 0 .. l |-> IF k <= m THEN p[k] ELSE s]
<1>4. \A k \in 0 .. l : q[k] = IF k <= m THEN p[k] ELSE s
  OBVIOUS
<1>5. q = [k \in 0 .. l |-> q[k]]
  OBVIOUS
<1> HIDE DEF q
<1>6. ASSUME NEW k \in 0 .. l PROVE q[k] = IF k = 0 THEN Start ELSE Step(body, q[k - 1])
  <2>1. CASE k = 0
    BY <1>2, <1>4, <2>1
  <2>2. CASE k # 0 /\ k <= m
    <3>1. k \in 1 .. m /\ k - 1 \in 0 .. l /\ k - 1 <= m
      BY <2>2
    <3> QED
      BY <1>2, <1>4, <2>2, <3>1
  <2>3. CASE k = m + 1
    <3>1. k - 1 \in 0 .. l /\ k - 1 <= m /\ k - 1 = m /\ ~(k <= m) /\ k # 0
      BY <2>3
    <3>2. q[k - 1] = s /\ q[k] = s
      BY <1>2, <1>4, <3>1
    <3> QED
      BY <3>1, <3>2
  <2>4. CASE k > m + 1
    <3>1. k - 1 \in 0 .. l /\ ~(k - 1 <= m) /\ ~(k <= m) /\ k # 0
      BY <2>4
    <3>2. q[k - 1] = s /\ q[k] = s
      BY <1>4, <3>1
    <3> QED
      BY <3>1, <3>2
  <2> QED
    BY <2>1, <2>2, <2>3, <2>4
<1>7. Runs(q)
  BY <1>3, <1>5, <1>6
<1>8. Runs(run)
  BY <1>7
<1> HIDE DEF run
<1>9. \A k \in 0 .. l : run[k] = IF k = 0 THEN Start ELSE Step(body, run[k - 1])
  BY <1>3, <1>8
<1> HIDE DEF Runs
<1>10. \A k \in 0 .. l : run[k] = q[k]
  <2> DEFINE T == {k \in 0 .. l : run[k] # q[k]}
  <2> SUFFICES ASSUME T # {} PROVE FALSE
    OBVIOUS
  <2>1. T \in SUBSET Nat
    OBVIOUS
  <2>2. PICK k \in T : \A j \in T : k <= j
    BY <2>1, LeastOf
  <2>3. k \in 0 .. l /\ run[k] # q[k]
    OBVIOUS
  <2>4. k # 0
    BY <1>6, <1>9, <2>3
  <2>5. k - 1 \in 0 .. l /\ ~(k <= k - 1)
    BY <2>3, <2>4
  <2>6. run[k - 1] = q[k - 1]
    BY <2>2, <2>5
  <2> QED
    BY <1>6, <1>9, <2>3, <2>4, <2>6
<1>11. q[l] = s
  <2>1. l \in 0 .. l
    OBVIOUS
  <2>2. CASE l <= m
    BY <1>2, <1>3, <1>4, <2>1, <2>2
  <2>3. CASE ~(l <= m)
    BY <1>4, <2>1, <2>3
  <2> QED
    BY <2>2, <2>3
<1>12. run[L] = s
  BY <1>3, <1>10, <1>11
<1> QED
  BY <1>1, <1>12

\* A concatenation, and the sequences that Encode puts end to end.
LEMMA Glued ==
  ASSUME NEW S, NEW s \in Seq(S), NEW t \in Seq(S), NEW u, u = s \o t
  PROVE  /\ u \in Seq(S) /\ Len(u) = Len(s) + Len(t)
         /\ \A i \in 1 .. Len(s) : u[i] = s[i]
         /\ \A i \in 1 .. Len(t) : u[Len(s) + i] = t[i]
BY ConcatProperties

Flattens(q, n, s) ==
    \E f : /\ f[1] = q[1] /\ \A i \in 2 .. n : f[i] = f[i - 1] \o q[i]
           /\ f[n] = s

LEMMA FlattensFirst == ASSUME NEW q PROVE Flattens(q, 1, q[1])
<1> DEFINE f == [i \in 1 .. 1 |-> q[1]]
<1>1. f[1] = q[1] /\ \A i \in 2 .. 1 : f[i] = f[i - 1] \o q[i]
  OBVIOUS
<1> QED
  BY <1>1 DEF Flattens

LEMMA FlattensNext ==
  ASSUME NEW q, NEW n \in Nat \ {0}, NEW s, Flattens(q, n, s)
  PROVE  Flattens(q, n + 1, s \o q[n + 1])
<1>1. PICK f : f[1] = q[1] /\ (\A i \in 2 .. n : f[i] = f[i - 1] \o q[i]) /\ f[n] = s
  BY DEF Flattens
<1>2. PICK t : t = s \o q[n + 1]
  OBVIOUS
<1> DEFINE g == [i \in 1 .. n + 1 |-> IF i = n + 1 THEN t ELSE f[i]]
<1>3. \A i \in 1 .. n + 1 : g[i] = IF i = n + 1 THEN t ELSE f[i]
  OBVIOUS
<1> HIDE DEF g
<1>4. g[1] = q[1] /\ g[n + 1] = t
  <2>1. 1 \in 1 .. n + 1 /\ n + 1 \in 1 .. n + 1 /\ 1 # n + 1
    OBVIOUS
  <2> QED
    BY <1>1, <1>3, <2>1
<1>5. ASSUME NEW i \in 2 .. n + 1 PROVE g[i] = g[i - 1] \o q[i]
  <2>1. i \in 1 .. n + 1 /\ i - 1 \in 1 .. n + 1 /\ i - 1 # n + 1
    OBVIOUS
  <2>2. g[i - 1] = f[i - 1] /\ g[i] = IF i = n + 1 THEN t ELSE f[i]
    BY <1>3, <2>1
  <2>3. CASE i = n + 1
    <3>1. i - 1 = n
      BY <2>3
    <3> QED
      BY <1>1, <1>2, <2>2, <2>3, <3>1
  <2>4. CASE i # n + 1
    <3>1. i \in 2 .. n
      BY <2>4
    <3> QED
      BY <1>1, <2>2, <2>4, <3>1
  <2> QED
    BY <2>3, <2>4
<1> QED
  BY <1>2, <1>4, <1>5 DEF Flattens

LEMMA FlattenIs ==
  ASSUME NEW q, NEW n \in Nat \ {0}, Len(q) = n, NEW s, Flattens(q, n, s)
  PROVE  FlattenSeq(q) = s
<1> DEFINE Eq(f) == f = [i \in 1 .. Len(q) |-> IF i = 1 THEN q[i] ELSE f[i - 1] \o q[i]]
           w == CHOOSE f : Eq(f)
<1>1. FlattenSeq(q) = w[Len(q)]
  BY DEF FlattenSeq
<1>2. PICK f : f[1] = q[1] /\ (\A i \in 2 .. n : f[i] = f[i - 1] \o q[i]) /\ f[n] = s
  BY DEF Flattens
<1> DEFINE g == [i \in 1 .. n |-> f[i]]
<1>3. (\A i \in 1 .. n : g[i] = f[i]) /\ g = [i \in 1 .. n |-> g[i]]
  OBVIOUS
<1> HIDE DEF g
<1>4. ASSUME NEW i \in 1 .. n PROVE g[i] = IF i = 1 THEN q[i] ELSE g[i - 1] \o q[i]
  <2>1. CASE i = 1
    BY <1>2, <1>3, <2>1
  <2>2. CASE i # 1
    <3>1. i \in 2 .. n /\ i - 1 \in 1 .. n
      BY <2>2
    <3> QED
      BY <1>2, <1>3, <2>2, <3>1
  <2> QED
    BY <2>1, <2>2
<1>5. Eq(g)
  BY <1>3, <1>4
<1>6. Eq(w)
  BY <1>5
<1> HIDE DEF w
<1>7. \A i \in 1 .. n : w[i] = IF i = 1 THEN q[i] ELSE w[i - 1] \o q[i]
  BY <1>6
<1> HIDE DEF Eq
<1>8. \A i \in 1 .. n : w[i] = f[i]
  <2> DEFINE T == {i \in 1 .. n : w[i] # f[i]}
  <2> SUFFICES ASSUME T # {} PROVE FALSE
    OBVIOUS
  <2>1. T \in SUBSET Nat
    OBVIOUS
  <2>2. PICK i \in T : \A j \in T : i <= j
    BY <2>1, LeastOf
  <2>3. i \in 1 .. n /\ w[i] # f[i]
    OBVIOUS
  <2>4. i # 1
    BY <1>2, <1>7, <2>3
  <2>5. i \in 2 .. n /\ i - 1 \in 1 .. n /\ ~(i <= i - 1)
    BY <2>3, <2>4
  <2>6. w[i - 1] = f[i - 1]
    BY <2>2, <2>5
  <2> QED
    BY <1>2, <1>7, <2>3, <2>4, <2>5, <2>6
<1>9. n \in 1 .. n
  OBVIOUS
<1> QED
  BY <1>1, <1>2, <1>8, <1>9

LEMMA EncodeThree ==
  ASSUME NEW v, Len(v) = 3
  PROVE  EncodeAll(v) = Encode(v[1]) \o Encode(v[2]) \o Encode(v[3])
<1>1. PICK q : q = [i \in 1 .. Len(v) |-> Encode(v[i])]
  OBVIOUS
<1>2. Len(q) = 3 /\ q[1] = Encode(v[1]) /\ q[2] = Encode(v[2]) /\ q[3] = Encode(v[3])
  BY <1>1
<1>3. Flattens(q, 1, q[1])
  BY FlattensFirst
<1>4. Flattens(q, 1 + 1, q[1] \o q[1 + 1])
  BY <1>3, FlattensNext
<1>5. Flattens(q, 2 + 1, (q[1] \o q[2]) \o q[2 + 1])
  BY <1>4, FlattensNext
<1>6. EncodeAll(v) = FlattenSeq(q)
  BY <1>1 DEF EncodeAll
<1>7. Flattens(q, 3, Encode(v[1]) \o Encode(v[2]) \o Encode(v[3]))
  BY <1>2, <1>5
<1>8. Len(q) = 3 /\ 3 \in Nat \ {0}
  BY <1>2
<1>9. PICK s : s = Encode(v[1]) \o Encode(v[2]) \o Encode(v[3])
  OBVIOUS
<1>10. FlattenSeq(q) = s
  BY <1>7, <1>8, <1>9, FlattenIs
<1> QED
  BY <1>6, <1>9, <1>10

LEMMA EncodeFour ==
  ASSUME NEW v, Len(v) = 4
  PROVE  EncodeAll(v) = Encode(v[1]) \o Encode(v[2]) \o Encode(v[3]) \o Encode(v[4])
<1>1. PICK q : q = [i \in 1 .. Len(v) |-> Encode(v[i])]
  OBVIOUS
<1>2. Len(q) = 4 /\ q[1] = Encode(v[1]) /\ q[2] = Encode(v[2]) /\ q[3] = Encode(v[3]) /\ q[4] = Encode(v[4])
  BY <1>1
<1>3. Flattens(q, 1, q[1])
  BY FlattensFirst
<1>4. Flattens(q, 1 + 1, q[1] \o q[1 + 1])
  BY <1>3, FlattensNext
<1>5. Flattens(q, 2 + 1, (q[1] \o q[2]) \o q[2 + 1])
  BY <1>4, FlattensNext
<1>6. Flattens(q, 3 + 1, ((q[1] \o q[2]) \o q[3]) \o q[3 + 1])
  BY <1>5, FlattensNext
<1>7. EncodeAll(v) = FlattenSeq(q)
  BY <1>1 DEF EncodeAll
<1>8. Flattens(q, 4, Encode(v[1]) \o Encode(v[2]) \o Encode(v[3]) \o Encode(v[4]))
  BY <1>2, <1>6
<1>9. Len(q) = 4 /\ 4 \in Nat \ {0}
  BY <1>2
<1>10. PICK s : s = Encode(v[1]) \o Encode(v[2]) \o Encode(v[3]) \o Encode(v[4])
  OBVIOUS
<1>11. FlattenSeq(q) = s
  BY <1>8, <1>9, <1>10, FlattenIs
<1> QED
  BY <1>7, <1>10, <1>11

(* Values in a token, and objects of one field. *)
Scalar(x) == x = Nil \/ \E j : x = Num(j) \/ x = Str(j)
Tok(x) == IF x.kind = "nil" THEN [m |-> "null"] ELSE [m |-> x.kind, v |-> x.v]

LEMMA ScalarFacts ==
  ASSUME NEW x, Scalar(x)
  PROVE  /\ EncodeScalar(x) = <<Tok(x)>> /\ Encode(x) = <<Tok(x)>>
         /\ \/ Tok(x).m = "null" /\ x = Nil
            \/ Tok(x).m \in {"number", "string"} /\ x = [kind |-> Tok(x).m, v |-> Tok(x).v]
<1>1. CASE x = Nil
  BY <1>1 DEF Nil, Tok, EncodeScalar, Encode
<1>2. CASE \E j : x = Num(j) \/ x = Str(j)
  <2>1. PICK j : x = Num(j) \/ x = Str(j)
    BY <1>2
  <2>2. x = [kind |-> "number", v |-> j] \/ x = [kind |-> "string", v |-> j]
    BY <2>1 DEF Num, Str
  <2> QED
    BY <2>2 DEF Tok, EncodeScalar, Encode
<1> QED
  BY <1>1, <1>2 DEF Scalar

LEMMA SingletonSeq == ASSUME NEW k PROVE SetToSeq({k}) = <<k>>
<1>1. Cardinality({k}) = 1
  BY FS_Singleton
<1> DEFINE F == [1 .. 1 -> {k}]
<1>2. PICK s : s = <<k>>
  OBVIOUS
<1>3. s \in F /\ IsInjective(s)
  BY <1>2 DEF IsInjective
<1>4. \A f \in F : f = s
  BY <1>2
<1>5. (CHOOSE f \in F : IsInjective(f)) = s
  <2> HIDE DEF F
  <2> QED
    BY <1>3, <1>4
<1> QED
  BY <1>1, <1>2, <1>5 DEF SetToSeq

ObjectToken == [m |-> "object"]
LEMMA EncodeSingle ==
  ASSUME NEW k, NEW y, Scalar(y), NEW S, {ObjectToken, Name(k), Tok(y), NoName, End} \subseteq S,
         NEW o, o = Encode(Single(k, y))
  PROVE  /\ o \in Seq(S) /\ Len(o) = 5 /\ o[1] = ObjectToken /\ o[2] = Name(k) /\ o[3] = Tok(y)
         /\ o[4] = NoName /\ o[5] = End
<1> DEFINE f == [x \in {k} |-> y]
<1>1. o = EncodeObject(f)
  BY DEF Encode, Single, Object
<1>2. DOMAIN f = {k} /\ f[k] = y
  OBVIOUS
<1> HIDE DEF f
<1> DEFINE q == [i \in 1 .. Len(<<k>>) |-> <<Name(<<k>>[i])>> \o EncodeScalar(f[<<k>>[i]])]
<1>3. o = <<ObjectToken>> \o FlattenSeq(q) \o <<NoName, End>>
  BY <1>1, <1>2, SingletonSeq DEF EncodeObject, ObjectToken
<1>4. Len(q) = 1 /\ q[1] = <<Name(k)>> \o <<Tok(y)>>
  <2>1. Len(<<k>>) = 1 /\ <<k>>[1] = k
    OBVIOUS
  <2>2. q = [i \in 1 .. 1 |-> <<Name(<<k>>[i])>> \o EncodeScalar(f[<<k>>[i]])]
    BY <2>1
  <2>3. q[1] = <<Name(k)>> \o EncodeScalar(f[k]) /\ Len(q) = 1
    <3> HIDE DEF q
    <3> QED
      BY <2>1, <2>2
  <2>4. EncodeScalar(f[k]) = <<Tok(y)>>
    BY <1>2, ScalarFacts
  <2> QED
    BY <2>3, <2>4
<1> HIDE DEF q
<1>5. FlattenSeq(q) = <<Name(k)>> \o <<Tok(y)>>
  <2>1. Flattens(q, 1, q[1])
    BY FlattensFirst
  <2> QED
    <3>1. 1 \in Nat \ {0}
      OBVIOUS
    <3>2. FlattenSeq(q) = q[1]
      BY <1>4, <2>1, <3>1, FlattenIs
    <3> QED
      BY <1>4, <3>2
<1>6. PICK a : a = <<ObjectToken>> /\ a \in Seq(S) /\ Len(a) = 1 /\ a[1] = ObjectToken
  <2>1. PICK x \in S : x = ObjectToken
    OBVIOUS
  <2>2. PICK s : s = <<x>>
    OBVIOUS
  <2>3. s = <<ObjectToken>> /\ s \in Seq(S) /\ Len(s) = 1 /\ s[1] = ObjectToken
    BY <2>1, <2>2
  <2> QED
    BY <2>3
<1>7. PICK b : b = <<Name(k)>> /\ b \in Seq(S) /\ Len(b) = 1 /\ b[1] = Name(k)
  <2>1. PICK x \in S : x = Name(k)
    OBVIOUS
  <2>2. PICK s : s = <<x>>
    OBVIOUS
  <2>3. s = <<Name(k)>> /\ s \in Seq(S) /\ Len(s) = 1 /\ s[1] = Name(k)
    BY <2>1, <2>2
  <2> QED
    BY <2>3
<1>8. PICK c : c = <<Tok(y)>> /\ c \in Seq(S) /\ Len(c) = 1 /\ c[1] = Tok(y)
  <2>1. PICK x \in S : x = Tok(y)
    OBVIOUS
  <2>2. PICK s : s = <<x>>
    OBVIOUS
  <2>3. s = <<Tok(y)>> /\ s \in Seq(S) /\ Len(s) = 1 /\ s[1] = Tok(y)
    BY <2>1, <2>2
  <2> QED
    BY <2>3
<1>9. PICK d : d = <<NoName, End>> /\ d \in Seq(S) /\ Len(d) = 2 /\ d[1] = NoName /\ d[2] = End
  <2>1. PICK x \in S : x = NoName
    OBVIOUS
  <2>2. PICK z \in S : z = End
    OBVIOUS
  <2>3. PICK s : s = <<x, z>>
    OBVIOUS
  <2>4. s = <<NoName, End>> /\ s \in Seq(S) /\ Len(s) = 2 /\ s[1] = NoName /\ s[2] = End
    BY <2>1, <2>2, <2>3
  <2> QED
    BY <2>4
<1>10. PICK bc : bc = b \o c
  OBVIOUS
<1>11. bc \in Seq(S) /\ Len(bc) = 2 /\ bc[1] = Name(k) /\ bc[2] = Tok(y)
  <2>1. /\ bc \in Seq(S) /\ Len(bc) = 1 + 1
        /\ (\A i \in 1 .. 1 : bc[i] = b[i]) /\ \A i \in 1 .. 1 : bc[1 + i] = c[i]
    BY <1>7, <1>8, <1>10, Glued
  <2> QED
    BY <1>7, <1>8, <2>1
<1>12. PICK abc : abc = a \o bc
  OBVIOUS
<1>13. abc \in Seq(S) /\ Len(abc) = 3 /\ abc[1] = ObjectToken /\ abc[2] = Name(k) /\ abc[3] = Tok(y)
  <2>0. /\ abc \in Seq(S) /\ Len(abc) = Len(a) + Len(bc)
        /\ (\A i \in 1 .. Len(a) : abc[i] = a[i]) /\ \A i \in 1 .. Len(bc) : abc[Len(a) + i] = bc[i]
    <3>1. a \in Seq(S) /\ bc \in Seq(S)
      BY <1>6, <1>11
    <3> QED
      BY <1>12, <3>1, Glued
  <2>1. /\ abc \in Seq(S) /\ Len(abc) = 1 + 2
        /\ (\A i \in 1 .. 1 : abc[i] = a[i]) /\ \A i \in 1 .. 2 : abc[1 + i] = bc[i]
    BY <1>6, <1>11, <2>0
  <2>2. abc[1 + 1] = bc[1] /\ abc[1 + 2] = bc[2] /\ abc[1] = a[1]
    BY <2>1
  <2> QED
    BY <1>6, <1>11, <2>1, <2>2
<1>14. o = abc \o d
  BY <1>3, <1>5, <1>6, <1>7, <1>8, <1>9, <1>10, <1>12
<1>17. /\ o \in Seq(S) /\ Len(o) = Len(abc) + Len(d)
       /\ (\A i \in 1 .. Len(abc) : o[i] = abc[i]) /\ \A i \in 1 .. Len(d) : o[Len(abc) + i] = d[i]
  <2>1. abc \in Seq(S) /\ d \in Seq(S)
    BY <1>9, <1>13
  <2> QED
    BY <1>14, <2>1, Glued
<1>15. /\ o \in Seq(S) /\ Len(o) = 3 + 2
       /\ (\A i \in 1 .. 3 : o[i] = abc[i]) /\ \A i \in 1 .. 2 : o[3 + i] = d[i]
  BY <1>9, <1>13, <1>17
<1>16. o[1] = abc[1] /\ o[2] = abc[2] /\ o[3] = abc[3] /\ o[3 + 1] = d[1] /\ o[3 + 2] = d[2]
  BY <1>15
<1> QED
  BY <1>9, <1>13, <1>15, <1>16

\* The decoder between two values, and inside an object of one field.
At(k, open, vs, cx) == [read |-> k, open |-> open, values |-> vs, complex |-> cx, bad |-> FALSE]
Reading(f, left, named, name) ==
    [kind |-> "object", f |-> f, left |-> left, named |-> named, name |-> name]

\* Inside an object, before a name and before a value.
WantsName(k, f, left, name, vs, cx) == At(k, <<Reading(f, left, FALSE, name)>>, vs, cx)
WantsValue(k, f, left, name, vs, cx) == At(k, <<Reading(f, left, TRUE, name)>>, vs, cx)

\* A step that reads a token: between values, and with one call open.
LEMMA StepReads ==
  ASSUME NEW body, NEW k \in Nat, k # Len(body), NEW vs, NEW cx, NEW open,
         open # <<>> => Last(open).left # 0
  PROVE  Step(body, At(k, open, vs, cx))
           = IF open = <<>> \/ Last(open).named THEN ReadValue(At(k + 1, open, vs, cx), body[k + 1])
             ELSE ReadName(At(k + 1, open, vs, cx), body[k + 1])
<1>1. PICK s : s = At(k, open, vs, cx)
  OBVIOUS
<1>2. s.read = k /\ s.open = open /\ s.bad = FALSE
  BY <1>1 DEF At
<1>3. PICK n : n = k + 1
  OBVIOUS
<1>4. PICK t : t = [s EXCEPT !.read = n]
  OBVIOUS
<1>5. t = At(n, open, vs, cx)
  BY <1>1, <1>4 DEF At
<1>6. Step(body, s) = IF open = <<>> \/ Last(open).named THEN ReadValue(t, body[n]) ELSE ReadName(t, body[n])
  BY <1>2, <1>3, <1>4 DEF Step
<1> QED
  BY <1>1, <1>3, <1>5, <1>6

LEMMA StepsBetween ==
  ASSUME NEW body, NEW k \in Nat, k # Len(body), NEW vs, NEW cx
  PROVE  Step(body, At(k, <<>>, vs, cx)) = ReadValue(At(k + 1, <<>>, vs, cx), body[k + 1])
BY StepReads

LEMMA StepsInside ==
  ASSUME NEW body, NEW k \in Nat, k # Len(body), NEW vs, NEW cx, NEW open, open # <<>>, Last(open).left # 0
  PROVE  Step(body, At(k, open, vs, cx))
           = IF Last(open).named THEN ReadValue(At(k + 1, open, vs, cx), body[k + 1])
             ELSE ReadName(At(k + 1, open, vs, cx), body[k + 1])
BY StepReads

\* A value outside every call, and what the token of a scalar is read as.
LEMMA ReturnsOutside ==
  ASSUME NEW k, NEW vs, NEW cx, NEW marker, marker # "reference", NEW x
  PROVE  Returning(At(k, <<>>, vs, cx), marker, x)
           = At(k, <<>>, Append(vs, x), IF marker = "object" THEN Append(cx, Len(vs) + 1) ELSE cx)
<1>0. PICK open : open = <<>>
  OBVIOUS
<1>1. PICK s : s = At(k, open, vs, cx)
  OBVIOUS
<1>2. PICK c : c = IF marker = "object" THEN Append(cx, Len(vs) + 1) ELSE cx
  OBVIOUS
<1>3. PICK new : new = Append(vs, x)
  OBVIOUS
<1>9. s.open = open /\ s.values = vs /\ s.complex = cx
  BY <1>1 DEF At
<1>4. s.open = <<>> /\ s.values = vs /\ s.complex = cx
  BY <1>0, <1>9
<1>5. PICK t : t = [s EXCEPT !.values = new, !.complex = c]
  OBVIOUS
<1>6. t = At(k, open, new, c)
  BY <1>1, <1>5 DEF At
<1>7. Returning(s, marker, x) = t
  BY <1>2, <1>3, <1>4, <1>5 DEF Returning
<1> QED
  BY <1>0, <1>1, <1>2, <1>3, <1>6, <1>7

LEMMA ReadsScalar ==
  ASSUME NEW s, NEW x, Scalar(x)
  PROVE  \E marker \in {"null", "number", "string"} : ReadValue(s, Tok(x)) = Returning(s, marker, x)
<1>1. /\ Tok(x).m \in {"null", "number", "string"}
      /\ Tok(x).m = "null" => x = Nil
      /\ Tok(x).m # "null" => x = [kind |-> Tok(x).m, v |-> Tok(x).v]
  BY ScalarFacts
<1> QED
  BY <1>1 DEF ReadValue

LEMMA StepScalar ==
  ASSUME NEW body, NEW k \in Nat, k # Len(body), NEW x, Scalar(x), body[k + 1] = Tok(x),
         NEW vs, NEW cx
  PROVE  Step(body, At(k, <<>>, vs, cx)) = At(k + 1, <<>>, Append(vs, x), cx)
<1>1. PICK marker \in {"null", "number", "string"} :
        ReadValue(At(k + 1, <<>>, vs, cx), Tok(x)) = Returning(At(k + 1, <<>>, vs, cx), marker, x)
  BY ReadsScalar
<1>2. marker # "reference" /\ marker # "object"
  OBVIOUS
<1>3. Returning(At(k + 1, <<>>, vs, cx), marker, x) = At(k + 1, <<>>, Append(vs, x), cx)
  BY <1>2, ReturnsOutside
<1> QED
  BY <1>1, <1>3, StepsBetween

LEMMA StepEnd ==
  ASSUME NEW body, NEW k \in Nat, k # Len(body), body[k + 1] = End, NEW vs, NEW cx
  PROVE  Step(body, At(k, <<>>, vs, cx)) = At(k + 1, <<>>, Append(vs, Nil), cx)
<1>1. ReadValue(At(k + 1, <<>>, vs, cx), End) = Returning(At(k + 1, <<>>, vs, cx), "end", Nil)
  BY DEF ReadValue, End
<1>2. Returning(At(k + 1, <<>>, vs, cx), "end", Nil) = At(k + 1, <<>>, Append(vs, Nil), cx)
  BY ReturnsOutside
<1> QED
  BY <1>1, <1>2, StepsBetween

LEMMA StepObject ==
  ASSUME NEW body, NEW k \in Nat, k # Len(body), body[k + 1] = ObjectToken, NEW vs, NEW cx
  PROVE  \E f, left, name : /\ f = <<>> /\ left \in Int /\ left < 0
                            /\ Step(body, At(k, <<>>, vs, cx)) = WantsName(k + 1, f, left, name, vs, cx)
<1>1. PICK s : s = At(k + 1, <<>>, vs, cx)
  OBVIOUS
<1>2. ReadValue(s, ObjectToken) = Calling(s, Pairs(-1))
  BY DEF ReadValue, ObjectToken
<1>3. PICK g : g = Reading(<<>>, -1, FALSE, "")
  OBVIOUS
<1>4. PICK o : o = <<g>>
  OBVIOUS
<1>6. PICK t : t = [s EXCEPT !.open = o]
  OBVIOUS
<1>8. PICK n : n = k + 1
  OBVIOUS
<1>9. PICK e : e = <<>>
  OBVIOUS
<1>10. s = At(n, e, vs, cx)
  BY <1>1, <1>8, <1>9
<1>11. s.open = e /\ t = At(n, o, vs, cx)
  BY <1>6, <1>10 DEF At
<1>7. s.open = <<>> /\ t = At(k + 1, o, vs, cx)
  BY <1>8, <1>9, <1>11
<1>5. Calling(s, Pairs(-1)) = t
  <2>1. Pairs(-1) = g
    BY <1>3 DEF Pairs, Reading
  <2>2. Append(<<>>, g) = o
    BY <1>4
  <2> QED
    BY <1>6, <1>7, <2>1, <2>2 DEF Calling
<1>30. PICK f : f = <<>>
  OBVIOUS
<1>31. PICK left : left = -1
  OBVIOUS
<1>32. PICK name : name = ""
  OBVIOUS
<1>33. t = WantsName(k + 1, f, left, name, vs, cx)
  BY <1>3, <1>4, <1>7, <1>30, <1>31, <1>32 DEF WantsName
<1>34. Step(body, At(k, <<>>, vs, cx)) = t
  BY <1>1, <1>2, <1>5, StepsBetween
<1>35. left \in Int /\ left < 0
  BY <1>31
<1>36. Step(body, At(k, <<>>, vs, cx)) = WantsName(k + 1, f, left, name, vs, cx)
  BY <1>33, <1>34
<1> QED
  BY <1>30, <1>35, <1>36

\* With one call open.
LEMMA OneOpen ==
  ASSUME NEW frame
  PROVE  /\ <<frame>> # <<>> /\ Last(<<frame>>) = frame /\ Front(<<frame>>) = <<>>
         /\ \A g : Append(<<>>, g) = <<g>>
BY DEF Last, Front

LEMMA StepName ==
  ASSUME NEW body, NEW k \in Nat, k # Len(body), NEW name, body[k + 1] = Name(name), NEW vs, NEW cx,
         NEW left \in Int, left # 0, NEW f, NEW old
  PROVE  Step(body, WantsName(k, f, left, old, vs, cx)) = WantsValue(k + 1, f, left, name, vs, cx)
<1>0. PICK r : r = Reading(f, left, FALSE, old)
  OBVIOUS
<1>1. PICK open : open = <<r>>
  OBVIOUS
<1>2. open # <<>> /\ Last(open) = r /\ Front(open) = <<>> /\ r.left = left /\ r.named = FALSE
  BY <1>0, <1>1, OneOpen DEF Reading
<1>3. PICK a : a = At(k + 1, open, vs, cx)
  OBVIOUS
<1>4. Step(body, At(k, open, vs, cx)) = ReadName(a, Name(name))
  BY <1>2, <1>3, StepsInside
<1>5. ReadName(a, Name(name)) = [a EXCEPT !.open = Append(Front(@), [Last(@) EXCEPT !.named = TRUE, !.name = name])]
  BY DEF ReadName, Name
<1>6. PICK g : g = Reading(f, left, TRUE, name)
  OBVIOUS
<1>11. PICK q : q = [r EXCEPT !.named = TRUE, !.name = name]
  OBVIOUS
<1>70. PICK no : no = FALSE
  OBVIOUS
<1>71. PICK yes : yes = TRUE
  OBVIOUS
<1>72. q = [r EXCEPT !.named = yes, !.name = name] /\ r = Reading(f, left, no, old)
  BY <1>0, <1>11, <1>70, <1>71
<1>73. q = Reading(f, left, yes, name)
  BY <1>72 DEF Reading
<1>7. q = g
  BY <1>6, <1>71, <1>73
<1>8. PICK o : o = <<g>>
  OBVIOUS
<1>12. PICK t : t = [a EXCEPT !.open = o]
  OBVIOUS
<1>20. PICK n : n = k + 1
  OBVIOUS
<1>21. a = At(n, open, vs, cx)
  BY <1>3, <1>20
<1>22. a.open = open /\ t = At(n, o, vs, cx)
  BY <1>12, <1>21 DEF At
<1>13. a.open = open /\ t = At(k + 1, o, vs, cx)
  BY <1>20, <1>22
<1>9. Append(Front(open), g) = o
  BY <1>2, <1>8, OneOpen
<1>10. ReadName(a, Name(name)) = t
  BY <1>2, <1>5, <1>7, <1>9, <1>11, <1>12, <1>13
<1> QED
  BY <1>0, <1>1, <1>4, <1>6, <1>8, <1>10, <1>13 DEF WantsName, WantsValue

LEMMA StepField ==
  ASSUME NEW body, NEW k \in Nat, k # Len(body), NEW x, Scalar(x), body[k + 1] = Tok(x), NEW vs, NEW cx,
         NEW left \in Int, left # 0, NEW f, NEW name
  PROVE  Step(body, WantsValue(k, f, left, name, vs, cx))
           = WantsName(k + 1, Put(f, name, x), left - 1, name, vs, cx)
<1>0. PICK r : r = Reading(f, left, TRUE, name)
  OBVIOUS
<1>1. PICK open : open = <<r>>
  OBVIOUS
<1>2. /\ open # <<>> /\ Last(open) = r /\ Front(open) = <<>>
      /\ r.left = left /\ r.named = TRUE /\ r.kind = "object" /\ r.f = f /\ r.name = name
  BY <1>0, <1>1, OneOpen DEF Reading
<1>3. PICK a : a = At(k + 1, open, vs, cx)
  OBVIOUS
<1>4. Step(body, At(k, open, vs, cx)) = ReadValue(a, Tok(x))
  BY <1>2, <1>3, StepsInside
<1>5. PICK marker : ReadValue(a, Tok(x)) = Returning(a, marker, x)
  BY ReadsScalar
<1>6. PICK g : g = Reading(Put(f, name, x), left - 1, FALSE, name)
  OBVIOUS
<1>7. Taken(r, x) = g
  <2>1. PICK new : new = Put(f, name, x)
    OBVIOUS
  <2>2. PICK l : l = left - 1
    OBVIOUS
  <2>3. PICK q : q = [r EXCEPT !.f = new, !.left = l, !.named = FALSE]
    OBVIOUS
  <2>6. PICK no : no = FALSE
    OBVIOUS
  <2>7. PICK yes : yes = TRUE
    OBVIOUS
  <2>8. q = [r EXCEPT !.f = new, !.left = l, !.named = no] /\ r = Reading(f, left, yes, name)
    BY <1>0, <2>3, <2>6, <2>7
  <2>9. q = Reading(new, l, no, name)
    BY <2>8 DEF Reading
  <2>5. q = Reading(new, l, FALSE, name)
    BY <2>6, <2>9
  <2>4. q = g
    BY <1>6, <2>1, <2>2, <2>5
  <2> QED
    BY <1>2, <2>1, <2>2, <2>3, <2>4 DEF Taken
<1>8. PICK o : o = <<g>>
  OBVIOUS
<1>12. PICK t : t = [a EXCEPT !.open = o]
  OBVIOUS
<1>20. PICK n : n = k + 1
  OBVIOUS
<1>21. a = At(n, open, vs, cx)
  BY <1>3, <1>20
<1>22. a.open = open /\ t = At(n, o, vs, cx)
  BY <1>12, <1>21 DEF At
<1>13. a.open = open /\ t = At(k + 1, o, vs, cx)
  BY <1>20, <1>22
<1>9. Append(Front(open), g) = o
  BY <1>2, <1>8, OneOpen
<1>10. Returning(a, marker, x) = t
  BY <1>2, <1>7, <1>9, <1>12, <1>13 DEF Returning
<1> QED
  BY <1>0, <1>1, <1>4, <1>5, <1>6, <1>8, <1>10, <1>13 DEF WantsName, WantsValue

WithObject(vs, f, new) == new = Append(vs, Object(f))
Facing(body, k, t) == k \in Nat /\ k # Len(body) /\ body[k + 1] = t
LEMMA StepNoName ==
  ASSUME NEW body, NEW k, Facing(body, k, NoName), NEW vs, NEW cx,
         NEW left \in Int, left # 0, NEW f, NEW name, NEW new, WithObject(vs, f, new)
  PROVE  \E c : Step(body, WantsName(k, f, left, name, vs, cx)) = At(k + 1, <<>>, new, c)
<1>15. new = Append(vs, Object(f))
  BY DEF WithObject
<1>14. k \in Nat /\ k # Len(body) /\ body[k + 1] = NoName
  BY DEF Facing
<1>0. PICK r : r = Reading(f, left, FALSE, name)
  OBVIOUS
<1>1. PICK open : open = <<r>>
  OBVIOUS
<1>2. /\ open # <<>> /\ Last(open) = r /\ Front(open) = <<>>
      /\ r.left = left /\ r.named = FALSE /\ r.kind = "object" /\ r.f = f
  BY <1>0, <1>1, OneOpen DEF Reading
<1>3. PICK a : a = At(k + 1, open, vs, cx)
  OBVIOUS
<1>4. Step(body, At(k, open, vs, cx)) = ReadName(a, NoName)
  BY <1>2, <1>3, <1>14, StepsInside
<1>5. ReadName(a, NoName) = Closing(a)
  BY DEF ReadName, NoName
<1>9. PICK o : o = <<>>
  OBVIOUS
<1>10. PICK t : t = [a EXCEPT !.open = o]
  OBVIOUS
<1>20. PICK n : n = k + 1
  OBVIOUS
<1>21. a = At(n, open, vs, cx)
  BY <1>3, <1>20
<1>22. a.open = open /\ t = At(n, o, vs, cx)
  BY <1>10, <1>21 DEF At
<1>6. a.open = open /\ t = At(k + 1, o, vs, cx)
  BY <1>20, <1>22
<1>7. Closing(a) = Returning(t, "object", Object(f))
  BY <1>2, <1>6, <1>9, <1>10 DEF Closing
<1>8. Returning(At(k + 1, <<>>, vs, cx), "object", Object(f))
        = At(k + 1, <<>>, Append(vs, Object(f)), Append(cx, Len(vs) + 1))
  BY ReturnsOutside
<1> QED
  BY <1>0, <1>1, <1>4, <1>5, <1>6, <1>7, <1>8, <1>9, <1>14, <1>15 DEF WantsName

\* The decoder between two values, after `k` of the tokens.
Between(body, k, vs) == \E cx : Reaches(body, k, At(k, <<>>, vs, cx))
Holds(body, k, e) == k + Len(e) <= Len(body) /\ \A i \in 1 .. Len(e) : body[k + i] = e[i]
Flat(z) == Scalar(z) \/ \E name, y : Scalar(y) /\ z = Single(name, y)

LEMMA BetweenStart == ASSUME NEW body PROVE Between(body, 0, <<>>)
<1>1. Start = At(0, <<>>, <<>>, <<>>)
  BY DEF Start, At
<1> QED
  BY <1>1, ReachesStart DEF Between

LEMMA BetweenScalar ==
  ASSUME NEW body, NEW k \in Nat, k # Len(body), NEW x, Scalar(x), body[k + 1] = Tok(x),
         NEW vs, Between(body, k, vs)
  PROVE  Between(body, k + 1, Append(vs, x))
<1>1. PICK cx : Reaches(body, k, At(k, <<>>, vs, cx))
  BY DEF Between
<1>2. PICK t : t = At(k + 1, <<>>, Append(vs, x), cx)
  OBVIOUS
<1>3. t = Step(body, At(k, <<>>, vs, cx))
  BY <1>2, StepScalar
<1>4. Reaches(body, k + 1, t)
  BY <1>1, <1>3, ReachesNext
<1> QED
  BY <1>2, <1>4 DEF Between

LEMMA BetweenEnd ==
  ASSUME NEW body, NEW k \in Nat, k # Len(body), body[k + 1] = End, NEW vs, Between(body, k, vs)
  PROVE  Between(body, k + 1, Append(vs, Nil))
<1>1. PICK cx : Reaches(body, k, At(k, <<>>, vs, cx))
  BY DEF Between
<1>2. PICK t : t = At(k + 1, <<>>, Append(vs, Nil), cx)
  OBVIOUS
<1>3. t = Step(body, At(k, <<>>, vs, cx))
  BY <1>2, StepEnd
<1>4. Reaches(body, k + 1, t)
  BY <1>1, <1>3, ReachesNext
<1> QED
  BY <1>2, <1>4 DEF Between

LEMMA PutFirst == ASSUME NEW name, NEW y PROVE Object(Put(<<>>, name, y)) = Single(name, y)
<1>1. DOMAIN <<>> = {}
  OBVIOUS
<1>2. DOMAIN <<>> \cup {name} = {name}
  BY <1>1
<1>3. Put(<<>>, name, y) = [x \in {name} |-> y]
  BY <1>2 DEF Put
<1> QED
  BY <1>3 DEF Single

LEMMA BetweenSingle ==
  ASSUME NEW body, NEW k \in Nat, Len(body) \in Nat, k + 4 <= Len(body), NEW name, NEW y, Scalar(y),
         body[k + 1] = ObjectToken, body[k + 2] = Name(name), body[k + 3] = Tok(y),
         body[k + 4] = NoName, NEW vs, Between(body, k, vs)
  PROVE  Between(body, k + 4, Append(vs, Single(name, y)))
<1>1. PICK cx : Reaches(body, k, At(k, <<>>, vs, cx))
  BY DEF Between
<1>0. /\ k \in Nat /\ k + 1 \in Nat /\ k + 2 \in Nat /\ k + 3 \in Nat
      /\ k # Len(body) /\ k + 1 # Len(body) /\ k + 2 # Len(body) /\ k + 3 # Len(body)
      /\ (k + 1) + 1 = k + 2 /\ (k + 2) + 1 = k + 3 /\ (k + 3) + 1 = k + 4
  OBVIOUS
<1>2. PICK k1 \in Nat : k1 = k + 1
  OBVIOUS
<1>3. PICK k2 \in Nat : k2 = k + 2 /\ k2 = k1 + 1
  BY <1>2
<1>4. PICK k3 \in Nat : k3 = k + 3 /\ k3 = k2 + 1
  BY <1>3
<1>5. PICK k4 \in Nat : k4 = k + 4 /\ k4 = k3 + 1
  BY <1>4
<1>6. /\ k # Len(body) /\ k1 # Len(body) /\ k2 # Len(body) /\ k3 # Len(body)
      /\ body[k + 1] = ObjectToken /\ body[k1 + 1] = Name(name) /\ body[k2 + 1] = Tok(y)
      /\ body[k3 + 1] = NoName
  BY <1>2, <1>3, <1>4, <1>5
<1>7. PICK f : f = Put(<<>>, name, y)
  OBVIOUS
<1>10. PICK f0, l1, old : f0 = <<>> /\ l1 \in Int /\ l1 < 0
              /\ Step(body, At(k, <<>>, vs, cx)) = WantsName(k + 1, f0, l1, old, vs, cx)
  <2>1. k # Len(body) /\ body[k + 1] = ObjectToken
    BY <1>6
  <2> QED
    BY <2>1, StepObject
<1>8. l1 \in Int /\ l1 # 0
  BY <1>10
<1>9. PICK l2 \in Int : l2 = l1 - 1 /\ l2 # 0
  BY <1>10
<1>11. PICK s1 : s1 = WantsName(k1, f0, l1, old, vs, cx)
  OBVIOUS
<1>12. s1 = Step(body, At(k, <<>>, vs, cx))
  BY <1>2, <1>10, <1>11
<1>13. Reaches(body, k1, s1)
  BY <1>1, <1>2, <1>12, ReachesNext
<1>21. PICK s2 : s2 = WantsValue(k2, f0, l1, name, vs, cx)
  OBVIOUS
<1>22. s2 = Step(body, s1)
  <2>1. Step(body, WantsName(k1, f0, l1, old, vs, cx)) = WantsValue(k1 + 1, f0, l1, name, vs, cx)
    BY <1>6, <1>8, StepName
  <2> QED
    BY <1>3, <1>11, <1>21, <2>1
<1>23. Reaches(body, k2, s2)
  BY <1>3, <1>13, <1>22, ReachesNext
<1>31. PICK s3 : s3 = WantsName(k3, f, l2, name, vs, cx)
  OBVIOUS
<1>32. s3 = Step(body, s2)
  <2>1. Step(body, WantsValue(k2, f0, l1, name, vs, cx))
          = WantsName(k2 + 1, Put(f0, name, y), l1 - 1, name, vs, cx)
    BY <1>6, <1>8, StepField
  <2>2. f = Put(f0, name, y)
    BY <1>7, <1>10
  <2> QED
    BY <1>4, <1>9, <1>21, <1>31, <2>1, <2>2
<1>33. Reaches(body, k3, s3)
  BY <1>4, <1>23, <1>32, ReachesNext
<1>39. PICK new : new = Append(vs, Object(f))
  OBVIOUS
<1>40. PICK c : Step(body, WantsName(k3, f, l2, name, vs, cx)) = At(k3 + 1, <<>>, new, c)
  <2>1. Facing(body, k3, NoName)
    BY <1>6 DEF Facing
  <2>2. l2 \in Int /\ l2 # 0
    BY <1>9
  <2>3. WithObject(vs, f, new)
    BY <1>39 DEF WithObject
  <2> QED
    BY <2>1, <2>2, <2>3, StepNoName
<1>41. PICK s4 : s4 = At(k4, <<>>, new, c)
  OBVIOUS
<1>42. s4 = Step(body, s3)
  BY <1>5, <1>31, <1>40, <1>41
<1>43. Reaches(body, k4, s4)
  BY <1>5, <1>33, <1>42, ReachesNext
<1>44. Between(body, k4, Append(vs, Object(f)))
  BY <1>39, <1>41, <1>43 DEF Between
<1> QED
  BY <1>5, <1>7, <1>44, PutFirst

\* A value where it is wanted, after those that came before.
Grown(V, vs, z, new) ==
    /\ new \in Seq(V) /\ Len(new) > Len(vs) /\ (Scalar(z) => Len(new) = Len(vs) + 1)
    /\ \A i \in 1 .. Len(vs) : new[i] = vs[i]
    /\ new[Len(vs) + 1] = z

LEMMA Extended ==
  ASSUME NEW V, NEW vs \in Seq(V), NEW z \in V, NEW t, t = Append(vs, z)
  PROVE  /\ t \in Seq(V) /\ Len(t) = Len(vs) + 1 /\ t[Len(vs) + 1] = z
         /\ \A i \in 1 .. Len(vs) : t[i] = vs[i]
BY AppendProperties

LEMMA BetweenFlat ==
  ASSUME NEW body, Len(body) \in Nat, NEW k \in Nat, NEW z, Flat(z), Holds(body, k, Encode(z)),
         NEW V, Nil \in V, z \in V, NEW vs \in Seq(V), Between(body, k, vs)
  PROVE  \E new : Between(body, k + Len(Encode(z)), new) /\ Grown(V, vs, z, new)
<1>1. PICK t : t = Append(vs, z)
  OBVIOUS
<1>2. /\ t \in Seq(V) /\ Len(t) = Len(vs) + 1 /\ t[Len(vs) + 1] = z
      /\ \A i \in 1 .. Len(vs) : t[i] = vs[i]
  BY <1>1, Extended
<1>3. CASE Scalar(z)
  <2>1. Encode(z) = <<Tok(z)>>
    BY <1>3, ScalarFacts
  <2>2. Len(Encode(z)) = 1 /\ Encode(z)[1] = Tok(z)
    BY <2>1
  <2>3. k # Len(body) /\ body[k + 1] = Tok(z)
    BY <2>2 DEF Holds
  <2>4. Between(body, k + 1, t)
    BY <1>1, <1>3, <2>3, BetweenScalar
  <2>5. Len(vs) \in Nat
    OBVIOUS
  <2> QED
    BY <1>2, <2>2, <2>4, <2>5 DEF Grown
<1>4. CASE ~Scalar(z)
  <2>1. PICK name, y : Scalar(y) /\ z = Single(name, y)
    BY <1>4 DEF Flat
  <2>2. PICK e : e = Encode(z)
    OBVIOUS
  <2>3. /\ Len(e) = 5 /\ e[1] = ObjectToken /\ e[2] = Name(name) /\ e[3] = Tok(y)
        /\ e[4] = NoName /\ e[5] = End
    <3>1. PICK S : S = {ObjectToken, Name(name), Tok(y), NoName, End}
      OBVIOUS
    <3>2. {ObjectToken, Name(name), Tok(y), NoName, End} \subseteq S
      BY <3>1
    <3>3. e = Encode(Single(name, y))
      BY <2>1, <2>2
    <3> QED
      BY <2>1, <3>2, <3>3, EncodeSingle
  <2>4. k + 5 <= Len(body) /\ \A i \in 1 .. 5 : body[k + i] = e[i]
    BY <2>2, <2>3 DEF Holds
  <2>5. /\ body[k + 1] = ObjectToken /\ body[k + 2] = Name(name) /\ body[k + 3] = Tok(y)
        /\ body[k + 4] = NoName /\ body[k + 5] = End
    BY <2>3, <2>4
  <2>6. Between(body, k + 4, t)
    <3>1. k + 4 <= Len(body)
      BY <2>4
    <3>2. Between(body, k + 4, Append(vs, Single(name, y)))
      BY <2>1, <2>5, <3>1, BetweenSingle
    <3> QED
      BY <1>1, <2>1, <3>2
  <2>7. PICK j \in Nat : j = k + 4 /\ j # Len(body) /\ j + 1 = k + 5 /\ body[j + 1] = End
    BY <2>4, <2>5
  <2>8. PICK u : u = Append(t, Nil)
    OBVIOUS
  <2>9. Between(body, j + 1, u)
    BY <2>6, <2>7, <2>8, BetweenEnd
  <2>10. /\ u \in Seq(V) /\ Len(u) = Len(t) + 1 /\ \A i \in 1 .. Len(t) : u[i] = t[i]
    BY <1>2, <2>8, Extended
  <2>11. Len(vs) \in Nat
    OBVIOUS
  <2>12. Grown(V, vs, z, u)
    BY <1>2, <1>4, <2>10, <2>11 DEF Grown
  <2> QED
    BY <2>2, <2>3, <2>7, <2>9, <2>12
<1> QED
  BY <1>3, <1>4

LEMMA BetweenLast ==
  ASSUME NEW body, Len(body) \in Nat, NEW vs, Between(body, Len(body), vs)
  PROVE  Decode(body) = [err |-> FALSE, values |-> vs]
<1>1. PICK cx : Reaches(body, Len(body), At(Len(body), <<>>, vs, cx))
  BY DEF Between
<1>2. PICK m \in Nat : m = Len(body) /\ m <= 2 * Len(body)
  OBVIOUS
<1>3. PICK e : e = <<>>
  OBVIOUS
<1>4. PICK s : s = At(m, e, vs, cx)
  OBVIOUS
<1>5. s.read = m /\ s.open = e /\ s.values = vs /\ s.bad = FALSE
  BY <1>4 DEF At
<1>6. Step(body, s) = s
  BY <1>2, <1>3, <1>5 DEF Step
<1>7. Reaches(body, m, s)
  BY <1>1, <1>2, <1>3, <1>4
<1>8. Decode(body) = [err |-> s.bad, values |-> s.values]
  BY <1>2, <1>6, <1>7, DecodeEnds
<1> QED
  BY <1>5, <1>8

\* The tokens of a value.
IsSeq(s) == \E S : s \in Seq(S)
LEMMA SeqGrows ==
  ASSUME NEW S, NEW T, S \subseteq T, NEW s \in Seq(S)
  PROVE  s \in Seq(T)
OBVIOUS

LEMMA FlatTokens ==
  ASSUME NEW z, Flat(z)
  PROVE  IsSeq(Encode(z))
<1>1. CASE Scalar(z)
  <2>1. PICK S : S = {Tok(z)}
    OBVIOUS
  <2>2. Encode(z) = <<Tok(z)>>
    BY <1>1, ScalarFacts
  <2>3. Encode(z) \in Seq(S)
    BY <2>1, <2>2
  <2> QED
    BY <2>3 DEF IsSeq
<1>2. CASE ~Scalar(z)
  <2>1. PICK name, y : Scalar(y) /\ z = Single(name, y)
    BY <1>2 DEF Flat
  <2>2. PICK S : S = {ObjectToken, Name(name), Tok(y), NoName, End}
    OBVIOUS
  <2>3. PICK e : e = Encode(z)
    OBVIOUS
  <2>4. {ObjectToken, Name(name), Tok(y), NoName, End} \subseteq S /\ e = Encode(Single(name, y))
    BY <2>1, <2>2, <2>3
  <2>5. e \in Seq(S)
    BY <2>1, <2>4, EncodeSingle
  <2> QED
    BY <2>3, <2>5 DEF IsSeq
<1> QED
  BY <1>1, <1>2

LEMMA TwoAlike ==
  ASSUME NEW s, NEW t, IsSeq(s), IsSeq(t)
  PROVE  \E S : s \in Seq(S) /\ t \in Seq(S)
<1>1. PICK A : s \in Seq(A)
  BY DEF IsSeq
<1>2. PICK B : t \in Seq(B)
  BY DEF IsSeq
<1>3. PICK C : C = A \cup B
  OBVIOUS
<1>4. s \in Seq(C) /\ t \in Seq(C)
  <2>1. A \subseteq C /\ B \subseteq C
    BY <1>3
  <2> QED
    BY <1>1, <1>2, <2>1, SeqGrows
<1> QED
  BY <1>4

\* The bodies of Encode, one after another.
LEMMA Joined ==
  ASSUME NEW s, NEW t, IsSeq(s), IsSeq(t), NEW u, u = s \o t
  PROVE  /\ IsSeq(u)
         /\ Len(s) \in Nat /\ Len(t) \in Nat /\ Len(u) = Len(s) + Len(t)
         /\ \A i \in 1 .. Len(s) : u[i] = s[i]
         /\ \A i \in 1 .. Len(t) : u[Len(s) + i] = t[i]
<1>1. PICK S : s \in Seq(S) /\ t \in Seq(S)
  BY TwoAlike
<1>2. /\ u \in Seq(S) /\ Len(u) = Len(s) + Len(t)
      /\ \A i \in 1 .. Len(s) : u[i] = s[i]
      /\ \A i \in 1 .. Len(t) : u[Len(s) + i] = t[i]
  BY <1>1, Glued
<1>3. Len(s) \in Nat /\ Len(t) \in Nat
  BY <1>1
<1> QED
  BY <1>2, <1>3 DEF IsSeq

LengthsAdd(s, t, u) == IsSeq(u) /\ Len(s) \in Nat /\ Len(t) \in Nat /\ Len(u) = Len(s) + Len(t)
LEMMA JoinedLength ==
  ASSUME NEW s, NEW t, IsSeq(s), IsSeq(t), NEW u, u = s \o t
  PROVE  LengthsAdd(s, t, u)
BY Joined DEF LengthsAdd

\* What has been decoded after a value, of a body that goes on.
LEMMA HoldsLonger ==
  ASSUME NEW s, NEW t, IsSeq(s), IsSeq(t), NEW u, u = s \o t,
         NEW k \in Nat, NEW e, Len(e) \in Nat, Holds(s, k, e)
  PROVE  Holds(u, k, e)
<1>1. /\ Len(s) \in Nat /\ Len(t) \in Nat /\ Len(u) = Len(s) + Len(t)
      /\ \A i \in 1 .. Len(s) : u[i] = s[i]
  BY Joined
<1>2. k + Len(e) <= Len(s) /\ \A i \in 1 .. Len(e) : s[k + i] = e[i]
  BY DEF Holds
<1>3. ASSUME NEW i \in 1 .. Len(e) PROVE u[k + i] = e[i]
  <2>1. k + i \in 1 .. Len(s)
    BY <1>1, <1>2
  <2> QED
    BY <1>1, <1>2, <2>1
<1> QED
  BY <1>1, <1>2, <1>3 DEF Holds

LEMMA HoldsLast ==
  ASSUME NEW s, NEW t, IsSeq(s), IsSeq(t), NEW u, u = s \o t
  PROVE  Holds(u, Len(s), t) /\ Holds(u, 0, s)
<1>1. /\ Len(s) \in Nat /\ Len(t) \in Nat /\ Len(u) = Len(s) + Len(t)
      /\ \A i \in 1 .. Len(s) : u[i] = s[i]
      /\ \A i \in 1 .. Len(t) : u[Len(s) + i] = t[i]
  BY Joined
<1>2. \A i \in 1 .. Len(s) : 0 + i = i
  OBVIOUS
<1> QED
  BY <1>1, <1>2 DEF Holds

\* A command is decoded as its name, its transaction and what follows them.
Survives(v) ==
    \E w : /\ Decode(EncodeAll(v)) = [err |-> FALSE, values |-> w]
           /\ Len(w) \in Nat /\ Len(w) >= 3 /\ w[1] = v[1] /\ w[2] = v[2] /\ w[3] = v[3]

\* The first two values, and the third, of whatever body begins with them.
LEMMA DecodesTwo ==
  ASSUME NEW a, Scalar(a), NEW b, Scalar(b), NEW body, Len(body) \in Nat,
         Holds(body, 0, Encode(a)), Holds(body, 1, Encode(b)),
         NEW V, Nil \in V, a \in V, b \in V
  PROVE  \E w \in Seq(V) : Between(body, 2, w) /\ Len(w) = 2 /\ w[1] = a /\ w[2] = b
<1>1. PICK e : e = <<>>
  OBVIOUS
<1>2. e \in Seq(V) /\ Len(e) = 0 /\ Between(body, 0, e)
  BY <1>1, BetweenStart
<1>3. Len(Encode(a)) = 1 /\ Len(Encode(b)) = 1
  <2>1. Encode(a) = <<Tok(a)>> /\ Encode(b) = <<Tok(b)>>
    BY ScalarFacts
  <2> QED
    BY <2>1
<1>8. PICK k \in Nat : k = 0
  OBVIOUS
<1>4. PICK o : Between(body, k + Len(Encode(a)), o) /\ Grown(V, e, a, o)
  <2>1. Flat(a) /\ Holds(body, k, Encode(a)) /\ Between(body, k, e)
    BY <1>2, <1>8 DEF Flat
  <2> QED
    BY <1>2, <2>1, BetweenFlat
<1>5. Between(body, 1, o) /\ o \in Seq(V) /\ Len(o) = 1 /\ o[1] = a
  BY <1>2, <1>3, <1>4, <1>8 DEF Grown
<1>6. PICK w : Between(body, 1 + Len(Encode(b)), w) /\ Grown(V, o, b, w)
  <2>1. Flat(b) /\ 1 \in Nat
    BY DEF Flat
  <2> QED
    BY <1>5, <2>1, BetweenFlat
<1>7. Between(body, 2, w) /\ w \in Seq(V) /\ Len(w) = 2 /\ w[2] = b /\ w[1] = o[1]
  BY <1>3, <1>5, <1>6 DEF Grown
<1> QED
  BY <1>5, <1>7

LEMMA DecodesThree ==
  ASSUME NEW v, Len(v) = 3, Scalar(v[1]), Scalar(v[2]), Flat(v[3])
  PROVE  Survives(v)
<1>1. PICK a, b, c : a = v[1] /\ b = v[2] /\ c = v[3]
  OBVIOUS
<1>2. PICK ea : ea = Encode(a)
  OBVIOUS
<1>3. PICK eb : eb = Encode(b)
  OBVIOUS
<1>4. PICK ec : ec = Encode(c)
  OBVIOUS
<1>5. PICK ab : ab = ea \o eb
  OBVIOUS
<1>6. PICK body : body = ab \o ec
  OBVIOUS
<1>7. EncodeAll(v) = body
  BY <1>1, <1>2, <1>3, <1>4, <1>5, <1>6, EncodeThree
<1>8. Scalar(a) /\ Scalar(b) /\ Flat(c) /\ Flat(a) /\ Flat(b)
  BY <1>1 DEF Flat
<1>9. IsSeq(ea) /\ IsSeq(eb) /\ IsSeq(ec)
  BY <1>2, <1>3, <1>4, <1>8, FlatTokens
<1>10. Len(ea) = 1 /\ Len(eb) = 1
  <2>1. ea = <<Tok(a)>> /\ eb = <<Tok(b)>>
    BY <1>2, <1>3, <1>8, ScalarFacts
  <2> QED
    BY <2>1
<1>11. IsSeq(ab) /\ Len(ab) = Len(ea) + Len(eb)
  <2>1. LengthsAdd(ea, eb, ab)
    BY <1>5, <1>9, JoinedLength
  <2> QED
    BY <2>1 DEF LengthsAdd
<1>12. Len(ab) = 2
  BY <1>10, <1>11
<1>13. IsSeq(body) /\ Len(body) = Len(ab) + Len(ec) /\ Len(ec) \in Nat
  <2>1. LengthsAdd(ab, ec, body)
    BY <1>6, <1>9, <1>11, JoinedLength
  <2> QED
    BY <2>1 DEF LengthsAdd
<1>14. Len(body) = 2 + Len(ec) /\ Len(body) \in Nat
  BY <1>12, <1>13
<1>15. Holds(ab, 0, ea) /\ Holds(ab, Len(ea), eb)
  BY <1>5, <1>9, HoldsLast
<1>16. Holds(body, 0, ea) /\ Holds(body, 1, eb)
  <2>1. Holds(ab, 1, eb) /\ 1 \in Nat /\ 0 \in Nat /\ Len(ea) \in Nat /\ Len(eb) \in Nat
    BY <1>10, <1>15
  <2>2. Holds(body, 0, ea)
    BY <1>6, <1>9, <1>11, <1>15, <2>1, HoldsLonger
  <2>3. Holds(body, 1, eb)
    BY <1>6, <1>9, <1>11, <2>1, HoldsLonger
  <2> QED
    BY <2>2, <2>3
<1>17. Holds(body, 2, ec)
  <2>1. Holds(body, Len(ab), ec)
    BY <1>6, <1>9, <1>11, HoldsLast
  <2> QED
    BY <1>12, <2>1
<1>18. PICK V : Nil \in V /\ a \in V /\ b \in V /\ c \in V
  <2>1. PICK W : W = {Nil, a, b, c}
    OBVIOUS
  <2>2. Nil \in W /\ a \in W /\ b \in W /\ c \in W
    BY <2>1
  <2> QED
    BY <2>2
<1>19. PICK o \in Seq(V) : Between(body, 2, o) /\ Len(o) = 2 /\ o[1] = a /\ o[2] = b
  BY <1>2, <1>3, <1>8, <1>14, <1>16, <1>18, DecodesTwo
<1>20. PICK w : Between(body, 2 + Len(Encode(c)), w) /\ Grown(V, o, c, w)
  <2>1. Holds(body, 2, Encode(c)) /\ 2 \in Nat
    BY <1>4, <1>17
  <2> QED
    BY <1>8, <1>14, <1>18, <1>19, <2>1, BetweenFlat
<1>21. Between(body, Len(body), w)
  BY <1>4, <1>14, <1>20
<1>22. Decode(body) = [err |-> FALSE, values |-> w]
  BY <1>14, <1>21, BetweenLast
<1>23. /\ w \in Seq(V) /\ Len(w) > 2 /\ w[2 + 1] = c /\ \A i \in 1 .. 2 : w[i] = o[i]
  BY <1>19, <1>20 DEF Grown
<1>24. Len(w) \in Nat /\ Len(w) >= 3 /\ w[1] = a /\ w[2] = b /\ w[3] = c
  BY <1>19, <1>23
<1> QED
  BY <1>1, <1>7, <1>22, <1>24 DEF Survives

LEMMA DecodesFour ==
  ASSUME NEW v, Len(v) = 4, Scalar(v[1]), Scalar(v[2]), Scalar(v[3]), Flat(v[4])
  PROVE  Survives(v)
<1>1. PICK a, b, c, d : a = v[1] /\ b = v[2] /\ c = v[3] /\ d = v[4]
  OBVIOUS
<1>2. PICK ea : ea = Encode(a)
  OBVIOUS
<1>3. PICK eb : eb = Encode(b)
  OBVIOUS
<1>4. PICK ec : ec = Encode(c)
  OBVIOUS
<1>30. PICK ed : ed = Encode(d)
  OBVIOUS
<1>5. PICK ab : ab = ea \o eb
  OBVIOUS
<1>6. PICK abc : abc = ab \o ec
  OBVIOUS
<1>31. PICK body : body = abc \o ed
  OBVIOUS
<1>7. EncodeAll(v) = body
  BY <1>1, <1>2, <1>3, <1>4, <1>5, <1>6, <1>30, <1>31, EncodeFour
<1>8. Scalar(a) /\ Scalar(b) /\ Scalar(c) /\ Flat(a) /\ Flat(b) /\ Flat(c) /\ Flat(d)
  BY <1>1 DEF Flat
<1>9. IsSeq(ea) /\ IsSeq(eb) /\ IsSeq(ec) /\ IsSeq(ed)
  BY <1>2, <1>3, <1>4, <1>8, <1>30, FlatTokens
<1>10. Len(ea) = 1 /\ Len(eb) = 1 /\ Len(ec) = 1
  <2>1. ea = <<Tok(a)>> /\ eb = <<Tok(b)>> /\ ec = <<Tok(c)>>
    BY <1>2, <1>3, <1>4, <1>8, ScalarFacts
  <2> QED
    BY <2>1
<1>11. IsSeq(ab) /\ Len(ab) = Len(ea) + Len(eb)
  <2>1. LengthsAdd(ea, eb, ab)
    BY <1>5, <1>9, JoinedLength
  <2> QED
    BY <2>1 DEF LengthsAdd
<1>12. Len(ab) = 2
  BY <1>10, <1>11
<1>32. IsSeq(abc) /\ Len(abc) = Len(ab) + Len(ec)
  <2>1. LengthsAdd(ab, ec, abc)
    BY <1>6, <1>9, <1>11, JoinedLength
  <2> QED
    BY <2>1 DEF LengthsAdd
<1>33. Len(abc) = 3
  BY <1>10, <1>12, <1>32
<1>13. IsSeq(body) /\ Len(body) = Len(abc) + Len(ed) /\ Len(ed) \in Nat
  <2>1. LengthsAdd(abc, ed, body)
    BY <1>9, <1>31, <1>32, JoinedLength
  <2> QED
    BY <2>1 DEF LengthsAdd
<1>14. Len(body) = 3 + Len(ed) /\ Len(body) \in Nat
  BY <1>13, <1>33
<1>15. Holds(ab, 0, ea) /\ Holds(ab, Len(ea), eb)
  BY <1>5, <1>9, HoldsLast
<1>34. Holds(ab, 1, eb) /\ 1 \in Nat /\ 0 \in Nat /\ 2 \in Nat /\ Len(ea) \in Nat /\ Len(eb) \in Nat /\ Len(ec) \in Nat
  BY <1>10, <1>15
<1>16. Holds(abc, 0, ea) /\ Holds(abc, 1, eb)
  <2>2. Holds(abc, 0, ea)
    BY <1>6, <1>9, <1>11, <1>15, <1>34, HoldsLonger
  <2>3. Holds(abc, 1, eb)
    BY <1>6, <1>9, <1>11, <1>34, HoldsLonger
  <2> QED
    BY <2>2, <2>3
<1>17. Holds(abc, 2, ec)
  <2>1. Holds(abc, Len(ab), ec)
    BY <1>6, <1>9, <1>11, HoldsLast
  <2> QED
    BY <1>12, <2>1
<1>35. Holds(body, 0, ea) /\ Holds(body, 1, eb) /\ Holds(body, 2, ec)
  <2>2. Holds(body, 0, ea)
    BY <1>9, <1>16, <1>31, <1>32, <1>34, HoldsLonger
  <2>3. Holds(body, 1, eb)
    BY <1>9, <1>16, <1>31, <1>32, <1>34, HoldsLonger
  <2>4. Holds(body, 2, ec)
    BY <1>9, <1>17, <1>31, <1>32, <1>34, HoldsLonger
  <2> QED
    BY <2>2, <2>3, <2>4
<1>36. Holds(body, 3, ed)
  <2>1. Holds(body, Len(abc), ed)
    BY <1>9, <1>31, <1>32, HoldsLast
  <2> QED
    BY <1>33, <2>1
<1>18. PICK V : Nil \in V /\ a \in V /\ b \in V /\ c \in V /\ d \in V
  <2>1. PICK W : W = {Nil, a, b, c, d}
    OBVIOUS
  <2>2. Nil \in W /\ a \in W /\ b \in W /\ c \in W /\ d \in W
    BY <2>1
  <2> QED
    BY <2>2
<1>19. PICK o \in Seq(V) : Between(body, 2, o) /\ Len(o) = 2 /\ o[1] = a /\ o[2] = b
  BY <1>2, <1>3, <1>8, <1>14, <1>18, <1>35, DecodesTwo
<1>20. PICK u : Between(body, 2 + Len(Encode(c)), u) /\ Grown(V, o, c, u)
  <2>1. Holds(body, 2, Encode(c)) /\ 2 \in Nat
    BY <1>4, <1>35
  <2> QED
    BY <1>8, <1>14, <1>18, <1>19, <2>1, BetweenFlat
<1>37. /\ Between(body, 3, u) /\ u \in Seq(V) /\ Len(u) = 3
       /\ u[2 + 1] = c /\ \A i \in 1 .. 2 : u[i] = o[i]
  BY <1>4, <1>8, <1>10, <1>19, <1>20 DEF Grown
<1>38. PICK w : Between(body, 3 + Len(Encode(d)), w) /\ Grown(V, u, d, w)
  <2>1. Holds(body, 3, Encode(d)) /\ 3 \in Nat
    BY <1>30, <1>36
  <2> QED
    BY <1>8, <1>14, <1>18, <1>37, <2>1, BetweenFlat
<1>21. Between(body, Len(body), w)
  BY <1>14, <1>30, <1>38
<1>22. Decode(body) = [err |-> FALSE, values |-> w]
  BY <1>14, <1>21, BetweenLast
<1>23. /\ w \in Seq(V) /\ Len(w) > 3 /\ \A i \in 1 .. 3 : w[i] = u[i]
  BY <1>37, <1>38 DEF Grown
<1>24. Len(w) \in Nat /\ Len(w) >= 3 /\ w[1] = a /\ w[2] = b /\ w[3] = c
  BY <1>19, <1>23, <1>37
<1> QED
  BY <1>1, <1>7, <1>22, <1>24 DEF Survives

\* Whatever is written into a command of three or four values, the other end's
\* Decode finds the first three of them, without an error: the strings and
\* numbers, and an object with one field that comes last.  The end marker of that
\* object, which decodeObjectamf0 leaves unread, is one more value behind them
\* (amf0.go:42, 166, 287, 396).
THEOREM CommandsDecoded ==
  ASSUME NEW v, Len(v) \in {3, 4}, Scalar(v[1]), Scalar(v[2]),
         Len(v) = 3 => Flat(v[3]),
         Len(v) = 4 => Scalar(v[3]) /\ Flat(v[4])
  PROVE  Survives(v)
<1>1. CASE Len(v) = 3
  BY <1>1, DecodesThree
<1>2. CASE Len(v) = 4
  BY <1>2, DecodesFour
<1> QED
  BY <1>1, <1>2


(* The commands and answers of a connection, as they are parsed.               *)

LEMMA Parsed ==
  ASSUME NEW v, Survives(v), NEW r, r = ParseCommand(EncodeAll(v))
  PROVE  /\ r.name # "error" => r.name = v[1].v /\ r.txn = v[2].v /\ r.object = v[3]
         /\ Arguments(v[1].v) = 3 => r.txn = v[2].v
<1>1. PICK w : /\ Decode(EncodeAll(v)) = [err |-> FALSE, values |-> w]
               /\ Len(w) \in Nat /\ Len(w) >= 3 /\ w[1] = v[1] /\ w[2] = v[2] /\ w[3] = v[3]
  BY DEF Survives
<1>2. PICK d : d = Decode(EncodeAll(v))
  OBVIOUS
<1>3. d.err = FALSE /\ d.values = w
  BY <1>1, <1>2
<1>4. PICK ok : ok = (Len(w) >= Arguments(v[1].v))
  OBVIOUS
<1>5. r = [name |-> IF ok THEN w[1].v ELSE "error", txn |-> IF ok THEN w[2].v ELSE 0,
           object |-> IF ok THEN w[3] ELSE Nil]
  BY <1>1, <1>2, <1>3, <1>4 DEF ParseCommand
<1>6. r.name # "error" => ok
  BY <1>5
<1>7. Arguments(v[1].v) = 3 => ok
  BY <1>1, <1>4
<1>8. ok => r.name = w[1].v /\ r.txn = w[2].v /\ r.object = w[3]
  BY <1>5
<1> QED
  BY <1>1, <1>6, <1>7, <1>8

LEMMA ValuesOf ==
  ASSUME NEW a, NEW b, NEW rest, NEW v, v = <<a, b>> \o rest
  PROVE  /\ \A x : rest = <<x>> => Len(v) = 3 /\ v[1] = a /\ v[2] = b /\ v[3] = x
         /\ \A x, y : rest = <<x, y>> => Len(v) = 4 /\ v[1] = a /\ v[2] = b /\ v[3] = x /\ v[4] = y
<1>1. ASSUME NEW x, rest = <<x>> PROVE Len(v) = 3 /\ v[1] = a /\ v[2] = b /\ v[3] = x
  BY <1>1
<1>2. ASSUME NEW x, NEW y, rest = <<x, y>>
      PROVE  Len(v) = 4 /\ v[1] = a /\ v[2] = b /\ v[3] = x /\ v[4] = y
  BY <1>2
<1> QED
  BY <1>1, <1>2

LEMMA Scalars == Scalar(Nil) /\ \A j : Scalar(Num(j)) /\ Scalar(Str(j))
BY DEF Scalar

\* What follows the transaction in any command of the two ends.
RestIs(rest, x, y) == \/ rest = <<x>> /\ Flat(x)
                      \/ rest = <<x, y>> /\ Scalar(x) /\ Flat(y)
ValuesAre(v, a, n, rest) == v = <<Str(a), Num(n)>> \o rest
LEMMA RestSurvives ==
  ASSUME NEW a, NEW n, NEW rest, NEW x, NEW y, RestIs(rest, x, y), NEW v, ValuesAre(v, a, n, rest)
  PROVE  Survives(v) /\ v[1].v = a /\ v[2].v = n /\ v[3] = x
<1>1. PICK s : s = Str(a)
  OBVIOUS
<1>2. PICK t : t = Num(n)
  OBVIOUS
<1>3. v = <<s, t>> \o rest
  BY <1>1, <1>2 DEF ValuesAre
<1>4. Scalar(s) /\ Scalar(t) /\ s.v = a /\ t.v = n
  BY <1>1, <1>2, Scalars DEF Str, Num
<1>5. CASE rest = <<x>> /\ Flat(x)
  <2>1. Len(v) = 3 /\ v[1] = s /\ v[2] = t /\ v[3] = x
    BY <1>3, <1>5, ValuesOf
  <2>2. Survives(v)
    BY <1>4, <1>5, <2>1, DecodesThree
  <2> QED
    BY <1>4, <2>1, <2>2
<1>6. CASE rest = <<x, y>> /\ Scalar(x) /\ Flat(y)
  <2>1. Len(v) = 4 /\ v[1] = s /\ v[2] = t /\ v[3] = x /\ v[4] = y
    BY <1>3, <1>6, ValuesOf
  <2>2. Survives(v)
    BY <1>4, <1>6, <2>1, DecodesFour
  <2> QED
    BY <1>4, <2>1, <2>2
<1> QED
  BY <1>5, <1>6 DEF RestIs

LEMMA ReceivedIs ==
  ASSUME NEW name \in Requests \cup {"_result", "onStatus"}, NEW n \in Txns, NEW rest \in Rests,
         NEW v, v = <<Str(name), Num(n)>> \o rest
  PROVE  Received[v] = ParseCommand(EncodeAll(v))
<1> DEFINE D == {<<Str(k), Num(j)>> \o l : k \in Requests \cup {"_result", "onStatus"}, j \in Txns, l \in Rests}
<1>1. v \in D
  OBVIOUS
<1>2. Received = [values \in D |-> ParseCommand(EncodeAll(values))]
  BY DEF Received, Txns
<1> HIDE DEF D
<1> QED
  BY <1>1, <1>2

LEMMA RequestSurvives ==
  ASSUME TypeInv, NEW name \in Requests, NEW n \in Txns, NEW r,
         r = Received[RequestMessage(name, n).values], r.name # "error"
  PROVE  /\ r.name = name /\ r.txn = n
         /\ name = "connect" => r.object.f["app"].v = client.app
<1>1. PICK rest : rest = RequestRest(name)
  OBVIOUS
<1>2. PICK v : v = <<Str(name), Num(n)>> \o rest
  OBVIOUS
<1>3. RequestMessage(name, n).values = v
  BY <1>1, <1>2 DEF RequestMessage, Command
<1>4. client.app \in Apps
  BY DEF TypeInv, ClientType
<1>5. rest \in Rests
  BY <1>1, <1>4 DEF RequestRest, Rests
<1>6. r = ParseCommand(EncodeAll(v))
  BY <1>2, <1>3, <1>5, ReceivedIs
<1>7. PICK one : one = Single("app", Str(client.app))
  OBVIOUS
<1>8. PICK x, y : /\ \/ rest = <<x>> /\ Flat(x)
                     \/ rest = <<x, y>> /\ Scalar(x) /\ Flat(y)
                  /\ name = "connect" => x = one
  <2>1. CASE name = "connect"
    <3>1. rest = <<one>>
      BY <1>1, <1>7, <2>1 DEF RequestRest
    <3>2. Flat(one)
      BY <1>7, Scalars DEF Flat
    <3> QED
      BY <3>1, <3>2
  <2>2. CASE name = "play"
    <3>1. PICK s : s = Str("stream")
      OBVIOUS
    <3>2. rest = <<Nil, s>>
      BY <1>1, <2>2, <3>1 DEF RequestRest
    <3>3. Scalar(Nil) /\ Flat(s)
      BY <3>1, Scalars DEF Flat
    <3> QED
      BY <2>2, <3>2, <3>3
  <2>3. CASE name # "connect" /\ name # "play"
    <3>1. rest = <<Nil>>
      BY <1>1, <2>3 DEF RequestRest
    <3>2. Flat(Nil)
      BY Scalars DEF Flat
    <3> QED
      BY <2>3, <3>1, <3>2
  <2> QED
    BY <2>1, <2>2, <2>3
<1>9. Survives(v) /\ v[1].v = name /\ v[2].v = n /\ v[3] = x
  <2>1. RestIs(rest, x, y)
    BY <1>8 DEF RestIs
  <2>2. ValuesAre(v, name, n, rest)
    BY <1>2 DEF ValuesAre
  <2> QED
    BY <2>1, <2>2, RestSurvives
<1>10. r.name = name /\ r.txn = n /\ r.object = x
  BY <1>6, <1>9, Parsed
<1>11. one.f["app"].v = client.app
  BY <1>7 DEF Single, Object, Str
<1> QED
  BY <1>8, <1>10, <1>11

LEMMA AnswerSurvives ==
  ASSUME NEW m \in Answers
  PROVE  Received[m.values].txn = TurnOf(m) /\ TurnOf(m) \in Txns
<1>1. PICK name, n, rest, len : /\ m = Command(name, n, rest, len) /\ n \in Txns
                                /\ name \in {"_result", "onStatus"} /\ rest \in Rests
                                /\ \/ \E k \in Requests : rest = Result(k)
                                   \/ \E code : rest = Status(code)
  <2>1. CASE m \in ResultMessages
    <3>1. PICK n \in Txns, k \in Requests, len \in 1 .. 2 : m = Command("_result", n, Result(k), len)
      BY <2>1 DEF ResultMessages
    <3>2. Result(k) \in Rests
      BY DEF Rests
    <3> QED
      BY <3>1, <3>2
  <2>2. CASE m \in StatusMessages
    <3>1. PICK n \in Txns, code \in Range(PlayStatuses) \cup OtherCommands \cup {"Play.StreamNotFound"} :
            m = StatusMessage(n, code)
      BY <2>2 DEF StatusMessages
    <3>2. Status(code) \in Rests /\ m = Command("onStatus", n, Status(code), 2)
      BY <3>1 DEF Rests, StatusMessage
    <3> QED
      BY <3>1, <3>2
  <2> QED
    BY <2>1, <2>2 DEF Answers
<1>2. PICK v : v = <<Str(name), Num(n)>> \o rest
  OBVIOUS
<1>3. m.values = v
  BY <1>1, <1>2 DEF Command
<1>4. PICK r : r = Received[v] /\ r = ParseCommand(EncodeAll(v))
  BY <1>1, <1>2, ReceivedIs
<1>5. PICK x, y : \/ rest = <<x>> /\ Flat(x)
                  \/ rest = <<x, y>> /\ Scalar(x) /\ Flat(y)
  <2>1. CASE \E k \in Requests : rest = Result(k)
    <3>1. \/ rest = <<Single("code", Str("Success"))>> \/ rest = <<Nil, Num(0)>> \/ rest = <<Nil, Nil>>
      BY <2>1 DEF Result
    <3>2. Scalar(Nil) /\ Flat(Nil) /\ Flat(Num(0)) /\ Flat(Single("code", Str("Success")))
      BY Scalars DEF Flat
    <3> QED
      BY <3>1, <3>2
  <2>2. CASE \E code : rest = Status(code)
    <3>1. PICK code : rest = <<Nil, Single("code", Str(code))>>
      BY <2>2 DEF Status
    <3>2. Scalar(Nil) /\ Flat(Single("code", Str(code)))
      BY Scalars DEF Flat
    <3> QED
      BY <3>1, <3>2
  <2> QED
    BY <1>1, <2>1, <2>2
<1>6. Survives(v) /\ v[1].v = name /\ v[2].v = n
  <2>1. RestIs(rest, x, y)
    BY <1>5 DEF RestIs
  <2>2. ValuesAre(v, name, n, rest)
    BY <1>2 DEF ValuesAre
  <2> QED
    BY <2>1, <2>2, RestSurvives
<1>7. Arguments(name) = 3
  BY <1>1 DEF Arguments
<1>8. r.txn = n
  BY <1>4, <1>6, <1>7, Parsed
<1> QED
  BY <1>1, <1>3, <1>4, <1>6, <1>8 DEF TurnOf

\* What a sequence is with an element behind it, and one of five.
LEMMA Added ==
  ASSUME NEW S, NEW s \in Seq(S), NEW c \in S, NEW t, t = s \o <<c>>
  PROVE  /\ t \in Seq(S) /\ Len(t) = Len(s) + 1
         /\ \A i \in 1 .. Len(s) : t[i] = s[i]
         /\ t[Len(s) + 1] = c
<1>1. t = Append(s, c)
  BY AppendIsConcat
<1> QED
  BY <1>1, AppendProperties

LEMMA FiveJoined ==
  ASSUME NEW S, NEW a \in S, NEW b \in S, NEW c \in S, NEW d \in S, NEW e \in S,
         NEW t, t = <<a>> \o <<b>> \o <<c>> \o <<d>> \o <<e>>
  PROVE  t \in Seq(S) /\ Len(t) = 5 /\ t[1] = a /\ t[2] = b /\ t[3] = c /\ t[4] = d /\ t[5] = e
<1>1. PICK t1 : t1 = <<a>>
  OBVIOUS
<1>2. PICK t2 : t2 = t1 \o <<b>>
  OBVIOUS
<1>3. PICK t3 : t3 = t2 \o <<c>>
  OBVIOUS
<1>4. PICK t4 : t4 = t3 \o <<d>>
  OBVIOUS
<1>5. PICK t5 : t5 = t4 \o <<e>>
  OBVIOUS
<1>6. t1 \in Seq(S) /\ Len(t1) = 1 /\ t1[1] = a
  BY <1>1
<1>7. t2 \in Seq(S) /\ Len(t2) = 2 /\ t2[1] = a /\ t2[2] = b
  <2>0. t1 \in Seq(S) /\ t2 = t1 \o <<b>>
    BY <1>2, <1>6
  <2>1. t2 \in Seq(S) /\ Len(t2) = Len(t1) + 1 /\ t2[Len(t1) + 1] = b /\ \A i \in 1 .. Len(t1) : t2[i] = t1[i]
    BY <2>0, Added
  <2>2. t2 \in Seq(S) /\ Len(t2) = 2 /\ t2[2] = b /\ \A i \in 1 .. 1 : t2[i] = t1[i]
    BY <1>6, <2>1
  <2>3. t2[1] = t1[1]
    BY <2>2
  <2> QED
    BY <1>6, <2>2, <2>3
<1>8. t3 \in Seq(S) /\ Len(t3) = 3 /\ t3[1] = a /\ t3[2] = b /\ t3[3] = c
  <2>0. t2 \in Seq(S) /\ t3 = t2 \o <<c>>
    BY <1>3, <1>7
  <2>1. t3 \in Seq(S) /\ Len(t3) = Len(t2) + 1 /\ t3[Len(t2) + 1] = c /\ \A i \in 1 .. Len(t2) : t3[i] = t2[i]
    BY <2>0, Added
  <2>2. t3 \in Seq(S) /\ Len(t3) = 3 /\ t3[3] = c /\ \A i \in 1 .. 2 : t3[i] = t2[i]
    BY <1>7, <2>1
  <2>3. t3[1] = t2[1] /\ t3[2] = t2[2]
    BY <2>2
  <2> QED
    BY <1>7, <2>2, <2>3
<1>9. t4 \in Seq(S) /\ Len(t4) = 4 /\ t4[1] = a /\ t4[2] = b /\ t4[3] = c /\ t4[4] = d
  <2>0. t3 \in Seq(S) /\ t4 = t3 \o <<d>>
    BY <1>4, <1>8
  <2>1. t4 \in Seq(S) /\ Len(t4) = Len(t3) + 1 /\ t4[Len(t3) + 1] = d /\ \A i \in 1 .. Len(t3) : t4[i] = t3[i]
    BY <2>0, Added
  <2>2. t4 \in Seq(S) /\ Len(t4) = 4 /\ t4[4] = d /\ \A i \in 1 .. 3 : t4[i] = t3[i]
    BY <1>8, <2>1
  <2>3. t4[1] = t3[1] /\ t4[2] = t3[2] /\ t4[3] = t3[3]
    BY <2>2
  <2> QED
    BY <1>8, <2>2, <2>3
<1>10. t5 \in Seq(S) /\ Len(t5) = 5 /\ t5[1] = a /\ t5[2] = b /\ t5[3] = c /\ t5[4] = d /\ t5[5] = e
  <2>0. t4 \in Seq(S) /\ t5 = t4 \o <<e>>
    BY <1>5, <1>9
  <2>1. t5 \in Seq(S) /\ Len(t5) = Len(t4) + 1 /\ t5[Len(t4) + 1] = e /\ \A i \in 1 .. Len(t4) : t5[i] = t4[i]
    BY <2>0, Added
  <2>2. t5 \in Seq(S) /\ Len(t5) = 5 /\ t5[5] = e /\ \A i \in 1 .. 4 : t5[i] = t4[i]
    BY <1>9, <2>1
  <2>3. t5[1] = t4[1] /\ t5[2] = t4[2] /\ t5[3] = t4[3] /\ t5[4] = t4[4]
    BY <2>2
  <2> QED
    BY <1>9, <2>2, <2>3
<1> QED
  BY <1>1, <1>2, <1>3, <1>4, <1>5, <1>10

-----------------------------------------------------------------------------
(* Steps of the server.                                                        *)

\* What a step of the server's loop finds, and what taking a chunk does.
Took == /\ TypeInv /\ Connected /\ server.pc = "loop" /\ server.todo = <<>> /\ up # <<>>
        /\ UNCHANGED <<clientVars, gone, roomVars>>
        /\ UpInv' /\ ClientPhase'
        /\ Turn \in DOMAIN asked /\ Turn \in Txns /\ Place \in 1 .. 3
        /\ ServerPart = [msg |-> Sent(Turn), got |-> Place, mixed |-> FALSE]
        /\ IF Whole(ServerPart) THEN Turn' = Turn + 1 /\ Place' = 1
           ELSE Turn' = Turn /\ Place' = Place + 1

LEMMA PhaseSame ==
  ASSUME ClientPhase, client' = client, asked' = asked, gone' = gone PROVE ClientPhase'
BY DEF ClientPhase

LEMMA ServerTake ==
  ASSUME FrameInv, ServerTakes PROVE Took
<1>1. TypeInv /\ Connected /\ server.pc = "loop" /\ server.todo = <<>> /\ up # <<>> /\ up' = Tail(up)
      /\ UNCHANGED <<clientVars, gone, roomVars>>
  BY DEF FrameInv, ServerTakes, Idle
<1>2. client' = client /\ asked' = asked /\ gone' = gone
  BY <1>1 DEF clientVars
<1>3. UpInv /\ ReaderInv /\ ClientPhase
  BY <1>1 DEF Connected
<1>4. PICK last : last = (Place = Sent(Turn).len)
  OBVIOUS
<1>5. /\ UpInv'
      /\ Turn' = IF last THEN Turn + 1 ELSE Turn
      /\ Place' = IF last THEN 1 ELSE Place + 1
  BY <1>1, <1>2, <1>3, <1>4, TakeUp
<1>6. /\ ServerPart = [msg |-> Sent(Turn), got |-> Place, mixed |-> FALSE]
      /\ Whole(ServerPart) <=> last
  BY <1>1, <1>3, <1>4, ServerFrames
<1>7. Turn \in DOMAIN asked /\ Place \in 1 .. 3
  BY <1>1, <1>3, UpHead
<1>8. Turn \in Txns
  BY <1>1, <1>7, SentFacts
<1>9. ClientPhase'
  BY <1>2, <1>3, PhaseSame
<1> QED
  BY <1>1, <1>5, <1>6, <1>7, <1>8, <1>9 DEF Took

\* The command of its turn, when it is whole.
LEMMA ServerDo ==
  ASSUME FrameInv, NEW names, "error" \notin names, ServerDoes(names)
  PROVE  /\ Took /\ Turn' = Turn + 1 /\ Place' = 1
         /\ Asked.name \in names /\ Asked.name = asked[Turn] /\ Asked.txn = Turn
         /\ asked[Turn] \in Requests
         /\ Asked.name = "connect" => Asked.object.f["app"].v = client.app
<1>1. Took /\ Whole(ServerPart) /\ Asked.name \in names
  BY ServerTake DEF ServerDoes
<1>2. PICK n : n = Turn
  OBVIOUS
<1>3. n \in DOMAIN asked /\ n \in Txns /\ TypeInv /\ ServerPart.msg = Sent(n)
  BY <1>1, <1>2 DEF Took
<1>4. asked[n] \in Requests /\ Sent(n) = RequestMessage(asked[n], n)
  BY <1>3, SentFacts
<1>5. Asked = Received[RequestMessage(asked[n], n).values]
  BY <1>3, <1>4 DEF Asked
<1>6. /\ Asked.name = asked[n] /\ Asked.txn = n
      /\ Asked.name = "connect" => Asked.object.f["app"].v = client.app
  BY <1>1, <1>3, <1>4, <1>5, RequestSurvives
<1> QED
  BY <1>1, <1>2, <1>4, <1>6 DEF Took

\* Steps that are none of this direction.
LEMMA DownKept ==
  ASSUME DownInv, TodoInv, down' = down, client' = client, player' = player, server'.chunk = server.chunk
  PROVE  DownInv' /\ TodoInv'
<1>1. TodoInv'
  <2>1. \A m, i : Rest(player.todo, m, i)' <=> Rest(player.todo, m, i)
    BY DEF Rest
  <2> QED
    BY <2>1 DEF TodoInv
<1>2. InsideFrame' = InsideFrame
  BY DEF InsideFrame
<1> QED
  BY <1>1, <1>2, DownSame

\* A chunk that is not the last of its message.
LEMMA ReadsPartStep ==
  ASSUME FrameInv, ServerReadsPart PROVE FrameInv'
<1>1. Took /\ ~Whole(ServerPart) /\ server' = [server EXCEPT !.part = ServerPart]
      /\ UNCHANGED <<down, player>>
  BY ServerTake DEF ServerReadsPart
<1>2. PICK n : n = Turn
  OBVIOUS
<1>3. PICK i : i = Place
  OBVIOUS
<1>4. /\ TypeInv /\ Connected /\ client' = client /\ asked' = asked /\ gone' = gone /\ UpInv'
      /\ ClientPhase' /\ Turn' = n /\ Place' = i + 1 /\ i \in 1 .. 3 /\ n \in DOMAIN asked
      /\ ServerPart = [msg |-> Sent(n), got |-> i, mixed |-> FALSE]
      /\ server.pc = "loop" /\ UNCHANGED <<answered, pulled, upstream, log>>
  BY <1>1, <1>2, <1>3 DEF Took, clientVars, roomVars
<1>5. Sent(n) \in RequestMessages
  BY <1>4, SentFacts
<1>6. ServerPart \in Parts
  BY <1>4, <1>5 DEF Parts
<1>7. ServerType'
  <2>1. Parts' = Parts
    BY <1>4 DEF Parts, RequestMessages, RequestMessage, RequestRest
  <2> QED
    BY <1>1, <1>4, <1>6, <2>1 DEF TypeInv, ServerType
<1>8. TypeInv'
  BY <1>1, <1>4, <1>7 DEF TypeInv, ClientType, AskedType, PulledType, PlayerType, RoomType
<1>9. /\ server'.pc = "loop" /\ server'.part = ServerPart /\ server'.app = server.app
      /\ server'.chunk = server.chunk /\ server'.todo = server.todo
  BY <1>1, <1>4 DEF TypeInv, ServerType
<1>10. ReaderInv'
  <2>1. Sent(Turn)' = Sent(n)
    BY <1>4 DEF Sent, RequestMessage, RequestRest
  <2>2. (Place' = 1) = FALSE /\ Place' - 1 = i
    BY <1>4
  <2> QED
    BY <1>4, <1>9, <2>1, <2>2 DEF ReaderInv
<1>11. ServerPhase'
  BY <1>1, <1>2, <1>4, <1>9 DEF Connected, ServerPhase
<1>12. DownInv' /\ TodoInv'
  BY <1>1, <1>4, <1>9, DownKept DEF Connected
<1> QED
  BY <1>4, <1>8, <1>9, <1>10, <1>11, <1>12 DEF FrameInv, Connected

\* The sequences that are written.
LEMMA Messages ==
  /\ \A m \in Answers \cup Controls : <<OneChunk(m)>> \in Seq(OneChunks)
  /\ \A n \in Txns, name \in Requests, len \in 1 .. 2 : Command("_result", n, Result(name), len) \in Answers
  /\ \A n \in Txns, code \in Range(PlayStatuses) \cup OtherCommands \cup {"Play.StreamNotFound"} :
       StatusMessage(n, code) \in StatusMessages
  /\ StatusMessages \subseteq Answers /\ Answers \cup Controls \cup Media \subseteq Downward
  /\ \A type \in ControlTypes : Control(type) \in Controls
  /\ MetaMessage \in Media /\ \A tag \in Frames : TagMessage(tag) \in Media
<1>1. \A m \in Answers \cup Controls : <<OneChunk(m)>> \in Seq(OneChunks)
  <2> SUFFICES ASSUME NEW m \in Answers \cup Controls PROVE <<OneChunk(m)>> \in Seq(OneChunks)
    OBVIOUS
  <2>1. OneChunk(m) \in OneChunks
    BY DEF OneChunks
  <2> QED
    BY <2>1
<1>2. \A n \in Txns, name \in Requests, len \in 1 .. 2 : Command("_result", n, Result(name), len) \in Answers
  BY DEF Answers, ResultMessages
<1>3. \A n \in Txns, code \in Range(PlayStatuses) \cup OtherCommands \cup {"Play.StreamNotFound"} :
       StatusMessage(n, code) \in StatusMessages
  BY DEF StatusMessages
<1>4. StatusMessages \subseteq Answers /\ Answers \cup Controls \cup Media \subseteq Downward
      /\ \A type \in ControlTypes : Control(type) \in Controls
  BY DEF Downward, Answers, Controls
<1>5. \A tag \in Frames : TagMessage(tag) \in Media
  BY DEF Media, Tags
<1>6. MetaMessage \in Media
  <2>1. PICK tag : tag = [type |-> "meta"]
    OBVIOUS
  <2>2. tag \in Tags /\ TagMessage(tag) = MetaMessage
    BY <2>1 DEF Tags, TagMessage
  <2> QED
    BY <2>2 DEF Media
<1> QED
  BY <1>1, <1>2, <1>3, <1>4, <1>5, <1>6

\* An answer is one chunk, and comes between two messages of the player's
\* goroutine as long as nothing is torn.
LEMMA AnswerIs ==
  ASSUME NEW m \in Answers, Answer(m), server.chunk = OwnChunk, ~torn'
  PROVE  /\ Written(<<OneChunk(m)>>) /\ <<OneChunk(m)>> \in Seq(OneChunks) /\ <<OneChunk(m)>> # <<>>
         /\ ~InsideFrame
<1>1. m.len \in 1 .. 3
  BY DownwardFacts DEF Downward
<1>2. Chunks(m, server.chunk) = <<OneChunk(m)>>
  BY <1>1, OwnChunks
<1>3. Written(<<OneChunk(m)>>) /\ torn' = (torn \/ InsideFrame)
  BY <1>2 DEF Answer, ServerWrites
<1> QED
  BY <1>3, Messages

\* The end of a step that has read a command: what is left to look at.
Done == /\ Took /\ Turn' = Turn + 1 /\ Place' = 1
        /\ server'.part = NoMessage /\ server'.pc = "loop" /\ server'.app = "live"
        /\ server'.chunk = OwnChunk /\ client.app = "live"
        /\ ServerType' /\ PlayerType' /\ DownInv' /\ TodoInv'
        /\ player'.todo # <<>> => player'.pc \in {"headers", "read"}
        /\ player'.pc # "off" => Turn' > 3
LEMMA DoneStep ==
  ASSUME Done PROVE FrameInv'
<1>1. /\ Took /\ server'.part = NoMessage /\ server'.pc = "loop" /\ server'.app = "live"
      /\ server'.chunk = OwnChunk /\ client.app = "live" /\ Place' = 1
  BY DEF Done
<1>2. client' = client /\ asked' = asked /\ gone' = gone /\ TypeInv /\ UpInv' /\ ClientPhase'
      /\ UNCHANGED <<answered, pulled, upstream, log>>
  BY <1>1 DEF Took, clientVars, roomVars
<1>3. TypeInv'
  BY <1>2 DEF Done, TypeInv, ClientType, AskedType, PulledType, RoomType
<1>4. ReaderInv'
  BY <1>1 DEF ReaderInv
<1>5. ServerPhase'
  BY <1>1, <1>2 DEF Done, ServerPhase
<1>6. DownInv' /\ TodoInv'
  BY DEF Done
<1> QED
  BY <1>1, <1>2, <1>3, <1>4, <1>5, <1>6 DEF FrameInv, Connected

\* A command other than the first finds the connection in use.
LEMMA InUse ==
  ASSUME Took, asked[Turn] # "connect"
  PROVE  /\ server.app = "live" /\ server.chunk = OwnChunk /\ client.app = "live"
<1>1. /\ Turn \in DOMAIN asked /\ ServerPhase /\ ClientPhase /\ server.pc = "loop"
      /\ server.app \in {"none", "live"}
  BY DEF Took, Connected, TypeInv, ServerType
<1>2. Turn # 1
  <2>1. 1 \in DOMAIN asked => asked[1] = "connect"
    BY <1>1 DEF ClientPhase, Opening
  <2> QED
    BY <1>1, <2>1
<1> QED
  BY <1>1, <1>2 DEF ServerPhase

LEMMA AnswersStep ==
  ASSUME FrameInv, ServerAnswers, ~torn' PROVE FrameInv'
<1> DEFINE names == {"createStream", "releaseStream", "FCPublish", "receiveAudio",
                     "FCUnpublish", "pause", "seek", "deleteStream", "call", "close"}
<1>1. /\ ServerDoes(names)
      /\ server' = [server EXCEPT !.part = NoMessage] /\ player' = player
      /\ CASE Asked.name \in {"call", "close"} -> UNCHANGED <<down, torn>>
           [] Asked.name \in {"createStream", "releaseStream", "FCPublish", "receiveAudio"} ->
                Answer(Command("_result", Asked.txn, Result(Asked.name), 1))
           [] OTHER -> Answer(StatusMessage(Asked.txn, Asked.name))
  BY DEF ServerAnswers
<1>2. "error" \notin names /\ "connect" \notin names /\ "play" \notin names
  OBVIOUS
<1> HIDE DEF names
<1>3. /\ Took /\ Turn' = Turn + 1 /\ Place' = 1
      /\ Asked.name \in names /\ Asked.name = asked[Turn] /\ Asked.txn = Turn
      /\ asked[Turn] \in Requests
  BY <1>1, <1>2, ServerDo
<1>4. server.app = "live" /\ server.chunk = OwnChunk /\ client.app = "live"
  BY <1>2, <1>3, InUse
<1>5. /\ client' = client /\ asked' = asked /\ TypeInv /\ Connected /\ server.pc = "loop"
      /\ Turn \in Txns
  BY <1>3 DEF Took, clientVars
<1>6. /\ server'.part = NoMessage /\ server'.pc = "loop" /\ server'.app = "live"
      /\ server'.chunk = OwnChunk
  BY <1>1, <1>4, <1>5 DEF TypeInv, ServerType
<1>7. ServerType'
  <2>1. Parts' = Parts /\ NoMessage \in Parts
    BY <1>5 DEF Parts, RequestMessages, RequestMessage, RequestRest
  <2> QED
    BY <1>1, <1>5, <2>1 DEF TypeInv, ServerType
<1>8. down' = down \/ \E m \in Answers : Answer(m)
  <2>1. CASE Asked.name \in {"call", "close"}
    BY <1>1, <2>1
  <2>2. CASE Asked.name \in {"createStream", "releaseStream", "FCPublish", "receiveAudio"}
    <3>1. Answer(Command("_result", Asked.txn, Result(Asked.name), 1))
      BY <1>1, <2>2
    <3>2. Command("_result", Asked.txn, Result(Asked.name), 1) \in Answers
      BY <1>3, <1>5, Messages
    <3> QED
      BY <3>1, <3>2
  <2>3. CASE Asked.name \notin {"call", "close", "createStream", "releaseStream", "FCPublish", "receiveAudio"}
    <3>1. Answer(StatusMessage(Asked.txn, Asked.name))
      BY <1>1, <2>3
    <3>2. Asked.name \in OtherCommands
      BY <1>2, <1>3, <2>3 DEF Requests
    <3>3. StatusMessage(Asked.txn, Asked.name) \in Answers
      BY <1>3, <1>5, <3>2, Messages
    <3> QED
      BY <3>1, <3>3
  <2> QED
    BY <2>1, <2>2, <2>3
<1>9. DownInv' /\ TodoInv'
  <2>1. CASE down' = down
    BY <1>1, <1>4, <1>5, <1>6, <2>1, DownKept DEF Connected
  <2>2. ASSUME NEW m \in Answers, Answer(m) PROVE DownInv'
    <3>1. /\ Written(<<OneChunk(m)>>) /\ <<OneChunk(m)>> \in Seq(OneChunks) /\ <<OneChunk(m)>> # <<>>
          /\ ~InsideFrame
      BY <1>4, <2>2, AnswerIs
    <3>2. ~InsideFrame'
      BY <1>1, <3>1 DEF InsideFrame
    <3> QED
      BY <1>4, <1>5, <3>1, <3>2, WriteWhole DEF Connected
  <2>3. TodoInv'
    BY <1>1, <1>5 DEF Connected, TodoInv, Rest
  <2> QED
    BY <1>8, <2>1, <2>2, <2>3
<1>10. /\ PlayerType'
       /\ player'.todo # <<>> => player'.pc \in {"headers", "read"}
       /\ player'.pc # "off" => Turn' > 3
  <2>1. Turn \in Nat
    BY <1>5 DEF Txns
  <2> QED
    BY <1>1, <1>3, <1>5, <2>1 DEF Connected, ServerPhase, TypeInv, PlayerType
<1> QED
  BY <1>3, <1>4, <1>6, <1>7, <1>9, <1>10, DoneStep DEF Done

LEMMA ConnectsStep ==
  ASSUME FrameInv, ServerConnects, ~torn' PROVE FrameInv'
<1>1. /\ ServerDoes({"connect"}) /\ player' = player
      /\ IF Asked.object.f["app"].v = "live"
         THEN /\ server' = [server EXCEPT !.part = NoMessage, !.app = "live", !.chunk = OwnChunk]
              /\ ServerWrites(Chunks(Control("windowAckSize"), OwnChunk)
                         \o Chunks(Control("setPeerBandwidth"), OwnChunk)
                         \o Chunks(Control("setChunkSize"), OwnChunk)
                         \o Chunks(Control("streamBegin"), OwnChunk)
                         \o Chunks(Command("_result", Asked.txn, Result("connect"), 2), OwnChunk))
         ELSE server' = [server EXCEPT !.pc = "ended"] /\ down' = down
  BY DEF ServerConnects
<1>2. "error" \notin {"connect"}
  OBVIOUS
<1>3. /\ Took /\ Turn' = Turn + 1 /\ Place' = 1
      /\ Asked.name = "connect" /\ Asked.txn = Turn
      /\ Asked.object.f["app"].v = client.app
  BY <1>1, <1>2, ServerDo
<1>4. /\ client' = client /\ asked' = asked /\ gone' = gone /\ TypeInv /\ Connected /\ server.pc = "loop"
      /\ Turn \in Txns /\ UpInv' /\ ClientPhase'
      /\ UNCHANGED <<answered, pulled, upstream, log>>
  BY <1>3 DEF Took, clientVars, roomVars
<1>5. Parts' = Parts /\ NoMessage \in Parts
  BY <1>4 DEF Parts, RequestMessages, RequestMessage, RequestRest
<1>6. CASE client.app # "live"
  <2>1. server' = [server EXCEPT !.pc = "ended"] /\ down' = down /\ server.app = "none"
    BY <1>1, <1>3, <1>4, <1>6 DEF Connected, ServerPhase, TypeInv, ServerType
  <2>2. ServerType' /\ server'.pc = "ended" /\ server'.app = "none" /\ server'.chunk = server.chunk
        /\ server'.todo = server.todo
    BY <1>4, <1>5, <2>1 DEF TypeInv, ServerType
  <2>3. TypeInv'
    BY <1>1, <1>4, <2>2 DEF TypeInv, ClientType, AskedType, PulledType, PlayerType, RoomType
  <2>4. ServerPhase'
    BY <1>1, <1>4, <2>1, <2>2 DEF Connected, ServerPhase
  <2>5. DownInv' /\ TodoInv'
    BY <1>1, <1>4, <2>1, <2>2, DownKept DEF Connected
  <2>6. ReaderInv'
    BY <2>2 DEF ReaderInv
  <2> QED
    BY <1>4, <2>2, <2>3, <2>4, <2>5, <2>6 DEF FrameInv, Connected
<1>7. CASE client.app = "live"
  <2> DEFINE w == Control("windowAckSize")
             b == Control("setPeerBandwidth")
             s == Control("setChunkSize")
             g == Control("streamBegin")
             r == Command("_result", Turn, Result("connect"), 2)
             all == <<OneChunk(w)>> \o <<OneChunk(b)>> \o <<OneChunk(s)>> \o <<OneChunk(g)>> \o <<OneChunk(r)>>
  <2>1. {w, b, s, g, r} \subseteq Answers \cup Controls
    <3>1. "connect" \in Requests
      BY DEF Requests
    <3> QED
      BY <1>4, <3>1, Messages DEF ControlTypes
  <2>2. /\ w.len = 1 /\ b.len = 1 /\ s.len = 1 /\ g.len = 1 /\ r.len = 2 /\ s.type = "setChunkSize"
    BY DEF Control, Command
  <2> HIDE DEF w, b, s, g, r
  <2>3. PICK more : more = all
    OBVIOUS
  <2>8. /\ more \in Seq(OneChunks) /\ Len(more) = 5 /\ more[1] = OneChunk(w) /\ more[2] = OneChunk(b)
        /\ more[3] = OneChunk(s) /\ more[4] = OneChunk(g) /\ more[5] = OneChunk(r)
    <3>1. \A m \in {w, b, s, g, r} : OneChunk(m) \in OneChunks
      BY <2>1 DEF OneChunks
    <3>2. OneChunk(w) \in OneChunks /\ OneChunk(b) \in OneChunks /\ OneChunk(s) \in OneChunks
          /\ OneChunk(g) \in OneChunks /\ OneChunk(r) \in OneChunks
      BY <3>1
    <3> QED
      BY <2>3, <3>2, FiveJoined
  <2> HIDE DEF all
  <2>4. server' = [server EXCEPT !.part = NoMessage, !.app = "live", !.chunk = OwnChunk]
        /\ Written(more) /\ ~InsideFrame
    <3>1. ServerWrites(Chunks(w, OwnChunk) \o Chunks(b, OwnChunk) \o Chunks(s, OwnChunk) \o Chunks(g, OwnChunk)
                  \o Chunks(r, OwnChunk))
      BY <1>1, <1>3, <1>7 DEF w, b, s, g, r
    <3>2. /\ Chunks(w, OwnChunk) = <<OneChunk(w)>> /\ Chunks(b, OwnChunk) = <<OneChunk(b)>>
          /\ Chunks(s, OwnChunk) = <<OneChunk(s)>> /\ Chunks(g, OwnChunk) = <<OneChunk(g)>>
          /\ Chunks(r, OwnChunk) = <<OneChunk(r)>>
      BY <2>2, OwnChunks
    <3>3. Written(all) /\ ~InsideFrame
      <4>1. Written(all) /\ torn' = (torn \/ InsideFrame)
        BY <3>1, <3>2 DEF all, ServerWrites
      <4> QED
        BY <4>1
    <3> QED
      BY <1>1, <1>3, <1>7, <2>3, <3>3
  <2>5. ServerType' /\ server'.pc = "loop" /\ server'.app = "live" /\ server'.chunk = OwnChunk
        /\ server'.todo = server.todo /\ server'.part = NoMessage
    BY <1>4, <1>5, <2>4 DEF TypeInv, ServerType
  <2>6. /\ PlayerType'
        /\ player'.todo # <<>> => player'.pc \in {"headers", "read"}
        /\ player'.pc # "off" => Turn' > 3
    <3>1. Turn \in Nat
      BY <1>4 DEF Txns
    <3> QED
      BY <1>1, <1>3, <1>4, <3>1 DEF Connected, ServerPhase, TypeInv, PlayerType
  <2>7. DownInv' /\ TodoInv'
    <3>4. TodoInv' /\ ~InsideFrame'
      BY <1>1, <1>4, <2>4 DEF Connected, TodoInv, Rest, InsideFrame
    <3>1. CASE server.app = "live"
      <4>1. server.chunk = OwnChunk
        BY <1>4, <3>1 DEF Connected, ServerPhase
      <4>2. more # <<>>
        BY <2>8
      <4> QED
        BY <1>4, <2>4, <2>8, <3>4, <4>1, <4>2, WriteWhole DEF Connected
    <3>2. CASE server.app = "none"
      <4>1. down = <<>>
        BY <1>4, <3>2 DEF Connected, ServerPhase
      <4>2. CASE client.pc = "ended"
        BY <1>4, <3>4, <4>2 DEF DownInv
      <4>3. CASE client.pc # "ended"
        <5>1. "client" \notin gone
          BY <1>4, <4>3 DEF Connected, ClientPhase
        <5>2. down' = more
          <6>1. <<>> \o more = more
            BY <2>8
          <6> QED
            BY <2>4, <4>1, <5>1, <6>1 DEF Written
        <5>3. /\ \A k \in 1 .. 4 : down'[k].msg.len = 1
              /\ DOMAIN down' = 1 .. 5 /\ Len(down') = 5
              /\ down'[3].msg.type = "setChunkSize"
          <6>1. DOMAIN more = 1 .. 5
            BY <2>8
          <6>2. \A k \in 1 .. 4 : k = 1 \/ k = 2 \/ k = 3 \/ k = 4
            OBVIOUS
          <6> QED
            BY <2>2, <2>8, <5>2, <6>1, <6>2 DEF OneChunk
        <5>4. \A k \in 3 .. 5 : Announced(k)'
          BY <5>3 DEF Announced
        <5>7. \A k \in 0 .. 5 : Reader(k)' = NoMessage
          <6> SUFFICES ASSUME NEW k \in 0 .. 5 PROVE Reader(k)' = NoMessage
            OBVIOUS
          <6>1. CASE k = 0
            <7>1. client.part = NoMessage
              BY <1>4, <4>1, <4>3, <2>4 DEF Connected, DownInv, Reader
            <7> QED
              BY <1>4, <6>1, <7>1 DEF Reader
          <6>2. CASE k # 0
            <7>1. down'[k] \in OneChunks
              BY <2>8, <5>2, <6>2
            <7>2. After(down'[k]) = NoMessage
              BY <7>1, OwnWrites
            <7> QED
              BY <6>2, <7>2 DEF Reader, After
          <6> QED
            BY <6>1, <6>2
        <5>5. \A k \in DOMAIN down' :
                /\ Continues(Reader(k - 1), down[k])'
                /\ down'[k].msg.len = 1 \/ Announced(k - 1)'
          <6> SUFFICES ASSUME NEW k \in 1 .. 5
                       PROVE  Continues(Reader(k - 1), down[k])' /\ (down'[k].msg.len = 1 \/ Announced(k - 1)')
            BY <5>3
          <6>3. Continues(Reader(k - 1), down[k])'
            <7>1. down'[k] \in OneChunks /\ k - 1 \in 0 .. 5
              BY <2>8, <5>2
            <7> QED
              BY <5>7, <7>1, OwnWrites DEF Continues
          <6>1. CASE k = 5
            <7>1. k - 1 \in 3 .. 5
              BY <6>1
            <7> QED
              BY <5>4, <6>3, <7>1
          <6>2. CASE k # 5
            BY <5>3, <6>2, <6>3
          <6> QED
            BY <6>1, <6>2
        <5>6. Announced(Len(down))' /\ Reader(Len(down))' = NoMessage
          <6>1. Announced(5)'
            BY <5>4
          <6>2. Reader(5)' = NoMessage
            BY <5>7
          <6> QED
            BY <5>3, <6>1, <6>2 DEF Announced, Reader, After
        <5>8. down' \in Seq(DownChunks)
          <6>3. more \in Seq(DownChunks)
            BY <2>8, OwnSequence
          <6> QED
            BY <5>2, <6>3
        <5>9. (IF InsideFrame THEN Continues(Reader(Len(down)), Head(player.todo))
               ELSE Reader(Len(down)) = NoMessage)'
          BY <3>4, <5>6
        <5> QED
          BY <3>4, <5>5, <5>6, <5>8, <5>9 DEF DownInv
      <4> QED
        BY <4>2, <4>3
    <3> QED
      BY <1>4, <3>1, <3>2, <3>4 DEF TypeInv, ServerType
  <2> QED
    BY <1>3, <1>7, <2>5, <2>6, <2>7, DoneStep DEF Done
<1> QED
  BY <1>6, <1>7

LEMMA PlaysStep ==
  ASSUME FrameInv, ServerPlays, ~torn' PROVE FrameInv'
<1>1. ServerDoes({"play"})
  BY DEF ServerPlays
<1>2. "error" \notin {"play"}
  OBVIOUS
<1>3. /\ Took /\ Turn' = Turn + 1 /\ Place' = 1
      /\ Asked.name = "play" /\ Asked.txn = Turn /\ asked[Turn] = "play"
  BY <1>1, <1>2, ServerDo
<1>4. server.app = "live" /\ server.chunk = OwnChunk /\ client.app = "live"
  BY <1>3, InUse
<1>5. /\ client' = client /\ asked' = asked /\ TypeInv /\ Connected /\ server.pc = "loop"
      /\ Turn \in Txns /\ Turn \in DOMAIN asked /\ server.todo = <<>>
  BY <1>3 DEF Took, clientVars
<1>6. Parts' = Parts /\ NoMessage \in Parts
  BY <1>5 DEF Parts, RequestMessages, RequestMessage, RequestRest
<1>7. Turn' = 4 /\ player.pc = "off" /\ player.todo = <<>>
  <2>1. DOMAIN asked = 1 .. Len(asked) /\ Len(asked) \in Nat
    BY <1>5 DEF TypeInv, AskedType
  <2>2. Turn = 3
    <3>1. "play" \notin OtherCommands
      BY PullAssumption DEF PullAssumption
    <3> QED
      BY <1>3, <1>5, <2>1, <3>1 DEF Connected, ClientPhase, Opening
  <2> QED
    BY <1>3, <1>5, <2>2 DEF Connected, ServerPhase
<1>8. CASE upstream = "open"
  <2> DEFINE todo == [i \in 1 .. 4 |-> StatusMessage(Turn, PlayStatuses[i])]
  <2>1. /\ server' = [server EXCEPT !.part = NoMessage, !.todo = todo]
        /\ player' = [player EXCEPT !.pc = "snapshot"] /\ down' = down
    BY <1>3, <1>4, <1>8 DEF ServerPlays
  <2>2. todo \in Seq(StatusMessages)
    <3>1. \A i \in 1 .. 4 : PlayStatuses[i] \in Range(PlayStatuses)
      BY DEF PlayStatuses, Range
    <3>2. \A i \in 1 .. 4 : StatusMessage(Turn, PlayStatuses[i]) \in StatusMessages
      BY <1>5, <3>1, Messages
    <3> QED
      BY <3>2
  <2> HIDE DEF todo
  <2>3. ServerType' /\ server'.pc = "loop" /\ server'.app = "live" /\ server'.chunk = OwnChunk
        /\ server'.part = NoMessage
    BY <1>4, <1>5, <1>6, <2>1, <2>2 DEF TypeInv, ServerType
  <2>6. PlayerType' /\ player'.pc = "snapshot" /\ player'.todo = player.todo
    BY <1>5, <2>1 DEF TypeInv, PlayerType
  <2>4. DownInv' /\ TodoInv'
    <3>1. TodoInv' /\ ~InsideFrame /\ ~InsideFrame'
      BY <1>7, <2>6 DEF TodoInv, InsideFrame
    <3>2. InsideFrame' = InsideFrame
      BY <1>7, <2>6 DEF InsideFrame
    <3> QED
      BY <1>4, <1>5, <2>1, <2>3, <3>1, <3>2, DownSame DEF Connected
  <2> QED
    BY <1>3, <1>4, <1>7, <2>3, <2>4, <2>6, DoneStep DEF Done
<1>9. CASE upstream # "open"
  <2> DEFINE m == StatusMessage(Turn, "Play.StreamNotFound")
  <2>1. server' = [server EXCEPT !.part = NoMessage] /\ Answer(m) /\ player' = player
    BY <1>3, <1>4, <1>9 DEF ServerPlays
  <2>2. m \in Answers
    BY <1>5, Messages
  <2> HIDE DEF m
  <2>3. ServerType' /\ server'.pc = "loop" /\ server'.app = "live" /\ server'.chunk = OwnChunk
        /\ server'.part = NoMessage
    BY <1>4, <1>5, <1>6, <2>1 DEF TypeInv, ServerType
  <2>4. DownInv' /\ TodoInv'
    <3>1. /\ Written(<<OneChunk(m)>>) /\ <<OneChunk(m)>> \in Seq(OneChunks) /\ <<OneChunk(m)>> # <<>>
          /\ ~InsideFrame
      BY <1>4, <2>1, <2>2, AnswerIs
    <3>2. TodoInv' /\ ~InsideFrame'
      BY <1>7, <2>1 DEF TodoInv, InsideFrame
    <3> QED
      BY <1>4, <1>5, <3>1, <3>2, WriteWhole DEF Connected
  <2>5. /\ PlayerType'
        /\ player'.todo # <<>> => player'.pc \in {"headers", "read"}
    BY <1>5, <2>1 DEF Connected, ServerPhase, TypeInv, PlayerType
  <2> QED
    BY <1>3, <1>4, <1>7, <2>3, <2>4, <2>5, DoneStep DEF Done
<1> QED
  BY <1>8, <1>9

LEMMA SendsStatusStep ==
  ASSUME FrameInv, ServerSendsStatus, ~torn' PROVE FrameInv'
<1>1. /\ server.pc = "loop" /\ server.todo # <<>> /\ Answer(Head(server.todo))
      /\ server' = [server EXCEPT !.todo = Tail(server.todo)]
      /\ client' = client /\ asked' = asked /\ gone' = gone /\ up' = up /\ player' = player
      /\ UNCHANGED <<answered, pulled, upstream, log>>
  BY DEF ServerSendsStatus, clientVars, roomVars
<1>2. TypeInv /\ Connected
  BY <1>1 DEF FrameInv
<1>3. server.chunk = OwnChunk /\ server.app # "none"
  BY <1>1, <1>2 DEF Connected, ServerPhase, TypeInv, ServerType
<1> DEFINE m == Head(server.todo)
<1>4. m \in Answers /\ Tail(server.todo) \in Seq(StatusMessages)
  <2>1. server.todo \in Seq(StatusMessages)
    BY <1>2 DEF TypeInv, ServerType
  <2>2. m \in StatusMessages /\ Tail(server.todo) \in Seq(StatusMessages)
    BY <1>1, <2>1
  <2> QED
    BY <2>2, Messages
<1> HIDE DEF m
<1>5. ServerType' /\ server'.pc = "loop" /\ server'.app = server.app /\ server'.chunk = server.chunk
      /\ server'.part = server.part
  <2>1. Parts' = Parts
    BY <1>1 DEF Parts, RequestMessages, RequestMessage, RequestRest
  <2> QED
    BY <1>1, <1>2, <1>4, <2>1 DEF TypeInv, ServerType
<1>6. TypeInv'
  BY <1>1, <1>2, <1>5 DEF TypeInv, ClientType, AskedType, PulledType, PlayerType, RoomType
<1>7. DownInv' /\ TodoInv'
  <2>1. Answer(m)
    BY <1>1 DEF m
  <2>2. /\ Written(<<OneChunk(m)>>) /\ <<OneChunk(m)>> \in Seq(OneChunks) /\ <<OneChunk(m)>> # <<>>
        /\ ~InsideFrame
    BY <1>3, <1>4, <2>1, AnswerIs
  <2>3. ~InsideFrame' /\ TodoInv'
    BY <1>1, <1>2, <2>2 DEF Connected, TodoInv, Rest, InsideFrame
  <2> QED
    BY <1>1, <1>2, <1>3, <2>2, <2>3, WriteWhole DEF Connected
<1>8. Turn' = Turn /\ Place' = Place /\ Sent(Turn)' = Sent(Turn)
  BY <1>1 DEF Turn, Place, Sent, RequestMessage, RequestRest, TurnOf
<1>9. UpInv' /\ ReaderInv' /\ ClientPhase'
  <2>1. UpInv'
    BY <1>1, <1>2, UpSame DEF Connected
  <2>2. ReaderInv'
    BY <1>1, <1>2, <1>5, <1>8 DEF Connected, ReaderInv
  <2> QED
    BY <1>1, <1>2, <2>1, <2>2, PhaseSame DEF Connected
<1>10. ServerPhase'
  BY <1>1, <1>2, <1>3, <1>5, <1>8 DEF Connected, ServerPhase
<1> QED
  BY <1>5, <1>6, <1>7, <1>9, <1>10 DEF FrameInv, Connected

LEMMA FailsStep ==
  ASSUME FrameInv, HandshakeInv, ServerFails PROVE FrameInv'
<1>1. /\ server' = [server EXCEPT !.pc = "ended"] /\ "client" \in gone
      /\ client' = client /\ asked' = asked /\ gone' = gone /\ up' = up /\ player' = player /\ down' = down
      /\ UNCHANGED <<answered, pulled, upstream, log>>
  BY DEF ServerFails, clientVars, roomVars
<1>2. TypeInv /\ Connected
  <2>1. ~Handshaking
    BY <1>1, StillHandshaking
  <2> QED
    BY <2>1 DEF FrameInv, HandshakeInv, Through
<1>3. Parts' = Parts
  BY <1>1 DEF Parts, RequestMessages, RequestMessage, RequestRest
<1>4. ServerType' /\ server'.pc = "ended" /\ server'.app = server.app /\ server'.chunk = server.chunk
      /\ server'.todo = server.todo
  BY <1>1, <1>2, <1>3 DEF TypeInv, ServerType
<1>5. TypeInv'
  BY <1>1, <1>2, <1>4 DEF TypeInv, ClientType, AskedType, PulledType, PlayerType, RoomType
<1>6. UpInv' /\ Turn' = Turn /\ ClientPhase'
  BY <1>1, <1>2, UpSame, PhaseSame DEF Connected
<1>7. DownInv' /\ TodoInv' /\ ReaderInv'
  BY <1>1, <1>2, <1>4, DownKept DEF Connected, ReaderInv
<1>8. ServerPhase'
  BY <1>1, <1>2, <1>4, <1>6 DEF Connected, ServerPhase, ClientPhase
<1> QED
  BY <1>4, <1>5, <1>6, <1>7, <1>8 DEF FrameInv, Connected

-----------------------------------------------------------------------------
(* Steps of the client.                                                        *)

\* What a step finds that takes a chunk, and what it leaves alone.
Takes == /\ TypeInv /\ Connected /\ TakesDown
         /\ client.pc \in {"connect", "createStream", "loop"} /\ "client" \notin gone
         /\ server.app = "live"
         /\ UNCHANGED <<gone, server, player, upstream, log>>
         /\ ~ClientPart.mixed /\ Got \in Downward /\ Head(down).msg = Got
         /\ Head(down) \in DownChunks /\ Head(down) = down[1] /\ 1 \in DOMAIN down
         /\ Whole(ClientPart) <=> Head(down).place = Cut(Got)

LEMMA ClientTake ==
  ASSUME FrameInv, HandshakeInv, ClientTakes,
         client'.chunk = IF Got.type = "setChunkSize" THEN OwnChunk ELSE client.chunk,
         client'.part = IF Whole(ClientPart) THEN NoMessage ELSE ClientPart
  PROVE  Takes
<1>1. /\ client.pc \in {"connect", "createStream", "loop"} /\ down # <<>> /\ down' = Tail(down)
      /\ UNCHANGED <<gone, server, player, upstream, log>>
  BY DEF ClientTakes, Expecting, roomVars
<1>2. TypeInv /\ Connected
  <2>1. ~Handshaking
    BY <1>1, StillHandshaking
  <2> QED
    BY <2>1 DEF FrameInv, HandshakeInv, Through
<1>3. "client" \notin gone /\ server.app = "live"
  BY <1>1, <1>2 DEF Connected, ClientPhase, ServerPhase, TypeInv, ServerType
<1>4. /\ ~ClientPart.mixed /\ Got \in Downward /\ Head(down).msg = Got
      /\ Head(down) \in DownChunks /\ Head(down) = down[1] /\ 1 \in DOMAIN down
      /\ Whole(ClientPart) <=> Head(down).place = Cut(Got)
  BY <1>1, <1>2, ClientFrames DEF Connected
<1> QED
  BY <1>1, <1>2, <1>3, <1>4 DEF Takes, TakesDown


\* A message that makes the client ask nothing.
LEMMA QuietStep ==
  ASSUME Takes, asked' = asked, up' = up, ClientType', PulledType',
         client'.kind = client.kind, client'.app = client.app, client'.pc \in {client.pc, "ended"}
  PROVE  FrameInv'
<1>1. TypeInv /\ Connected /\ UNCHANGED <<gone, server, player, upstream, log>> /\ server.app = "live"
      /\ client.pc # "ended" /\ "client" \notin gone /\ TakesDown
  BY DEF Takes
<1>2. Parts' = Parts
  BY DEF Parts, RequestMessages, RequestMessage, RequestRest
<1>3. TypeInv'
  BY <1>1, <1>2 DEF TypeInv, AskedType, ServerType, PlayerType, RoomType
<1>4. DownInv' /\ TodoInv'
  <2>1. TodoInv'
    BY <1>1 DEF Connected, TodoInv, Rest
  <2> QED
    BY <1>1, <2>1, TakeDown DEF Connected
<1>5. UpInv' /\ Turn' = Turn /\ Place' = Place /\ Sent(Turn)' = Sent(Turn)
  BY <1>1, UpSame DEF Connected
<1>6. ReaderInv'
  BY <1>1, <1>5 DEF Connected, ReaderInv
<1>7. ClientPhase'
  BY <1>1 DEF Connected, ClientPhase
<1>8. ServerPhase'
  BY <1>1, <1>5 DEF Connected, ServerPhase
<1> QED
  BY <1>1, <1>3, <1>4, <1>5, <1>6, <1>7, <1>8 DEF FrameInv, Connected, ServerPhase

LEMMA ControlStep ==
  ASSUME FrameInv, HandshakeInv, ClientReadsControl PROVE FrameInv'
<1>1. /\ ClientTakes
      /\ client' = [client EXCEPT !.part = NoMessage, !.pc = AfterMessage,
                    !.chunk = IF Got.type = "setChunkSize" THEN OwnChunk ELSE client.chunk]
      /\ UNCHANGED <<asked, answered, pulled, up>>
      /\ Whole(ClientPart)
  BY DEF ClientReadsControl, ClientReads
<1>2. DOMAIN client = ClientFields
  BY DEF HandshakeInv
<1>3. Takes
  <2>1. /\ client'.chunk = IF Got.type = "setChunkSize" THEN OwnChunk ELSE client.chunk
        /\ client'.part = NoMessage
    BY <1>1, <1>2 DEF ClientFields
  <2> QED
    BY <1>1, <2>1, ClientTake
<1>4. TypeInv /\ AfterMessage \in {client.pc, "ended"}
  BY <1>3 DEF Takes, AfterMessage
<1>5. /\ ClientType' /\ client'.kind = client.kind /\ client'.app = client.app
      /\ client'.pc \in {client.pc, "ended"}
  <2>1. PICK size \in {DefaultChunk, OwnChunk} :
          size = IF Got.type = "setChunkSize" THEN OwnChunk ELSE client.chunk
    BY <1>4 DEF TypeInv, ClientType
  <2>2. PICK pc \in {client.pc, "ended"} : pc = AfterMessage
    BY <1>4
  <2>3. client' = [client EXCEPT !.part = NoMessage, !.pc = pc, !.chunk = size]
    BY <1>1, <2>1, <2>2
  <2>4. NoMessage \in ClientParts
    BY DEF ClientParts
  <2> QED
    BY <1>4, <2>3, <2>4 DEF TypeInv, ClientType
<1>6. PulledType'
  BY <1>1, <1>4 DEF TypeInv, PulledType
<1> QED
  BY <1>1, <1>3, <1>5, <1>6, QuietStep

\* Media as it arrives.
LEMMA MediaFacts ==
  ASSUME NEW m \in Downward
  PROVE  /\ m.type = "command" => m \in Answers
         /\ m.type = "frame" => m.tag \in Frames /\ m = TagMessage(m.tag)
<1>1. CASE m \in Answers
  <2>1. m.type = "command"
    <3>1. \A name, n, rest, len : Command(name, n, rest, len).type = "command"
      BY DEF Command
    <3>2. \A n, code : StatusMessage(n, code).type = "command"
      BY DEF StatusMessage, Command
    <3> QED
      BY <1>1, <3>1, <3>2 DEF Answers, ResultMessages, StatusMessages
  <2> QED
    BY <1>1, <2>1
<1>2. CASE m \in Controls
  <2>1. m.type \in ControlTypes
    BY <1>2 DEF Controls, Control
  <2> QED
    BY <2>1 DEF ControlTypes
<1>3. CASE m \in Media
  <2>1. PICK tag \in Tags : m = TagMessage(tag)
    BY <1>3 DEF Media
  <2>2. CASE tag.type = "meta"
    BY <2>1, <2>2 DEF TagMessage, MetaMessage
  <2>3. CASE tag.type # "meta"
    <3>1. tag \in Frames
      BY <2>3 DEF Tags
    <3>2. m.type = "frame" /\ m.tag = tag
      BY <2>1, <2>3 DEF TagMessage
    <3> QED
      BY <2>1, <3>1, <3>2
  <2> QED
    BY <2>2, <2>3
<1> QED
  BY <1>1, <1>2, <1>3 DEF Downward

\* Only media leaves the client inside a message.
LEMMA NextPart ==
  ASSUME Takes PROVE (IF Whole(ClientPart) THEN NoMessage ELSE ClientPart) \in ClientParts
<1>1. CASE Whole(ClientPart)
  BY <1>1 DEF ClientParts
<1>2. CASE ~Whole(ClientPart)
  <2>1. PICK c : c = Head(down)
    OBVIOUS
  <2>2. c \in DownChunks /\ c.msg = Got /\ c.place # Cut(Got) /\ Got \in Downward
    BY <1>2, <2>1 DEF Takes
  <2>3. c.place \in 1 .. Cut(Got) /\ Cut(Got) \in Nat \ {0} /\ (Got.len <= 3 => Cut(Got) = 1)
    BY <2>2, CutFacts DEF DownChunks
  <2>4. Got \in Media
    <3>1. ~(Got.len <= 3)
      BY <2>2, <2>3
    <3>2. Got.len \in Nat \ {0} /\ (Got.len > 2 => Got \in Media)
      BY <2>2, DownwardFacts
    <3> QED
      BY <3>1, <3>2
  <2>5. After(c) = ClientPart
    BY <1>2, <2>1, ClientFrames DEF Takes, Connected, TakesDown
  <2>6. After(c) = [msg |-> Got, got |-> c.place * OwnChunk, mixed |-> FALSE]
    BY <2>2 DEF After
  <2>7. c.place * OwnChunk \in Nat \ {0}
    BY <2>3 DEF OwnChunk
  <2> QED
    BY <1>2, <2>4, <2>5, <2>6, <2>7 DEF ClientParts
<1> QED
  BY <1>1, <1>2

LEMMA MediaStep ==
  ASSUME FrameInv, HandshakeInv, ClientReadsMedia PROVE FrameInv'
<1>1. /\ ClientTakes /\ Got.type \in {"meta", "frame"}
      /\ client' = IF Whole(ClientPart)
                   THEN [client EXCEPT !.part = NoMessage, !.pc = AfterMessage]
                   ELSE [client EXCEPT !.part = ClientPart]
      /\ pulled' = IF client.kind # "pull" \/ ~Whole(ClientPart) THEN pulled
                   ELSE IF Got.type = "meta" THEN [pulled EXCEPT !.meta = RelayedMeta]
                   ELSE [pulled EXCEPT !.tags = Append(@, IF ClientPart.mixed THEN [type |-> "mixed"]
                                                          ELSE Got.tag)]
      /\ UNCHANGED <<asked, answered, up>>
  BY DEF ClientReadsMedia
<1>2. DOMAIN client = ClientFields
  BY DEF HandshakeInv
<1>3. Takes
  <2>1. /\ client'.chunk = client.chunk
        /\ client'.part = IF Whole(ClientPart) THEN NoMessage ELSE ClientPart
    BY <1>1, <1>2 DEF ClientFields
  <2> QED
    BY <1>1, <2>1, ClientTake
<1>4. /\ TypeInv /\ AfterMessage \in {client.pc, "ended"} /\ ~ClientPart.mixed
      /\ Got \in Downward
  BY <1>3 DEF Takes, AfterMessage
<1>5. /\ ClientType' /\ client'.kind = client.kind /\ client'.app = client.app
      /\ client'.pc \in {client.pc, "ended"}
  <2>1. PICK pc \in {client.pc, "ended"} : pc = IF Whole(ClientPart) THEN AfterMessage ELSE client.pc
    BY <1>4
  <2>2. PICK part \in ClientParts : part = IF Whole(ClientPart) THEN NoMessage ELSE ClientPart
    BY <1>3, NextPart
  <2>3. client' = [client EXCEPT !.part = part, !.pc = pc]
    <3>1. CASE Whole(ClientPart)
      BY <1>1, <2>1, <2>2, <3>1
    <3>2. CASE ~Whole(ClientPart)
      <4>1. client' = [client EXCEPT !.part = part] /\ pc = client.pc
        BY <1>1, <2>1, <2>2, <3>2
      <4> QED
        BY <1>4, <4>1 DEF TypeInv, ClientType
    <3> QED
      BY <3>1, <3>2
  <2> QED
    BY <1>4, <2>3 DEF TypeInv, ClientType
<1>6. PulledType'
  <2>1. PulledType /\ answered' = answered
    BY <1>1, <1>4 DEF TypeInv
  <2>2. CASE pulled' = pulled
    BY <2>1, <2>2 DEF PulledType
  <2>3. CASE pulled' = [pulled EXCEPT !.meta = RelayedMeta]
    BY <2>1, <2>3 DEF PulledType
  <2>4. CASE Got.type = "frame" /\ pulled' = [pulled EXCEPT !.tags = Append(@, Got.tag)]
    <3>1. Got.tag \in Frames
      BY <1>4, <2>4, MediaFacts
    <3>2. PICK tag \in Frames : tag = Got.tag
      BY <3>1
    <3>3. Append(pulled.tags, tag) \in Seq(Frames)
      BY <2>1 DEF PulledType
    <3>4. PICK tags \in Seq(Frames) : tags = Append(pulled.tags, tag)
      BY <3>3
    <3>5. pulled' = [pulled EXCEPT !.tags = tags]
      BY <2>4, <3>2, <3>4
    <3> QED
      BY <2>1, <3>5 DEF PulledType
  <2> QED
    BY <1>1, <1>4, <2>2, <2>3, <2>4
<1> QED
  BY <1>1, <1>3, <1>5, <1>6, QuietStep

\* The command that is being read stays what it is when another is sent.
LEMMA SendReader ==
  ASSUME TypeInv, UpInv, ReaderInv, NEW name, NEW N, Sends(name, N), server' = server
  PROVE  ReaderInv'
<1>1. UpInv' /\ Turn' = Turn /\ Place' = Place
  BY SendUp
<1>2. CASE Place = 1
  BY <1>1, <1>2 DEF ReaderInv
<1>3. CASE Place # 1
  <2>1. up # <<>>
    BY <1>3 DEF Place
  <2>2. PICK t \in DOMAIN asked : t = Turn
    BY <2>1, UpHead
  <2>3. asked'[t] = asked[t]
    <3>1. asked \in Seq(Requests) /\ name \in Requests /\ asked' = Append(asked, name)
      BY DEF TypeInv, AskedType, Sends
    <3> QED
      BY <3>1
  <2>4. Sent(t)' = Sent(t)
    BY <2>3 DEF Sent, RequestMessage, RequestRest, Sends
  <2>5. Sent(Turn)' = Sent(Turn)
    <3>1. Turn' = t /\ Turn = t
      BY <1>1, <2>2
    <3> QED
      BY <2>4, <3>1 DEF Sent, RequestMessage, RequestRest
  <2> QED
    BY <1>1, <2>5 DEF ReaderInv
<1> QED
  BY <1>2, <1>3

\* An answer, which may make the client send its next command.
AnswerRead == Received[Got.values]
Counted == IF AnswerRead.name = "_result" THEN client.results + 1 ELSE client.results
NextAsked == CASE Expecting /\ Counted > client.expect ->
                    IF client.pc = "connect" THEN <<"createStream">> ELSE <<"play">>
               [] OTHER -> <<>>

LEMMA CommandStep ==
  ASSUME FrameInv, HandshakeInv, ClientReadsCommand PROVE FrameInv'
<1>1. /\ ClientTakes /\ Got.type = "command" /\ Whole(ClientPart)
      /\ answered' = IF answered # <<>> /\ Last(answered) = AnswerRead.txn THEN answered
                     ELSE Append(answered, AnswerRead.txn)
      /\ asked' = asked \o NextAsked
      /\ up' = IF NextAsked = <<>> THEN up ELSE up \o Request(NextAsked[1], Len(asked) + 1)
      /\ client' = [client EXCEPT !.part = NoMessage, !.results = Counted,
                !.pc = CASE NextAsked = <<"createStream">> -> "createStream"
                         [] NextAsked = <<"play">> -> "loop"
                         [] OTHER -> AfterMessage,
                !.expect = Counted, !.late = IF NextAsked = <<>> THEN client.late ELSE FALSE]
      /\ pulled' = pulled
  BY DEF ClientReadsCommand, ClientReads, AnswerRead, Counted, NextAsked
<1>2. DOMAIN client = ClientFields
  BY DEF HandshakeInv
<1>3. Takes
  <2>1. client'.chunk = client.chunk /\ client'.part = NoMessage
    BY <1>1, <1>2 DEF ClientFields
  <2> QED
    BY <1>1, <2>1, ClientTake
<1>4. /\ TypeInv /\ Connected /\ AfterMessage \in {client.pc, "ended"} /\ Got \in Downward
      /\ client.pc \in {"connect", "createStream", "loop"} /\ TakesDown /\ client.pc # "ended"
      /\ UNCHANGED <<gone, server, player, upstream, log>> /\ server.app = "live" /\ "client" \notin gone
  BY <1>3 DEF Takes, AfterMessage
<1>5. Counted \in Nat
  BY <1>4 DEF TypeInv, ClientType, Counted
<1>6. PulledType'
  <2>1. Got \in Answers
    BY <1>1, <1>4, MediaFacts
  <2>2. AnswerRead.txn \in Nat
    BY <2>1, AnswerSurvives DEF AnswerRead, Txns
  <2> QED
    BY <1>1, <1>4, <2>2 DEF TypeInv, PulledType
<1>7. CASE NextAsked = <<>>
  <2>1. /\ client' = [client EXCEPT !.part = NoMessage, !.results = Counted, !.pc = AfterMessage,
                                    !.expect = Counted, !.late = client.late]
        /\ up' = up
    <3>1. <<>> # <<"createStream">> /\ <<>> # <<"play">>
      OBVIOUS
    <3> QED
      BY <1>1, <1>7, <3>1
  <2>2. asked' = asked
    BY <1>1, <1>4, <1>7 DEF TypeInv, AskedType
  <2>3. /\ ClientType' /\ client'.kind = client.kind /\ client'.app = client.app
        /\ client'.pc \in {client.pc, "ended"}
    <3>1. PICK pc \in {client.pc, "ended"} : pc = AfterMessage
      BY <1>4
    <3>2. PICK n \in Nat : n = Counted
      BY <1>5
    <3>3. client' = [client EXCEPT !.part = NoMessage, !.results = n, !.pc = pc,
                                   !.expect = n, !.late = client.late]
      BY <2>1, <3>1, <3>2
    <3> QED
      BY <1>4, <3>3 DEF TypeInv, ClientType, ClientParts
  <2> QED
    BY <1>3, <1>6, <2>1, <2>2, <2>3, QuietStep
<1>8. CASE NextAsked # <<>>
  <2>1. PICK name, pc :
           /\ NextAsked = <<name>>
           /\ \/ name = "createStream" /\ pc = "createStream" /\ client.pc = "connect"
              \/ name = "play" /\ pc = "loop" /\ client.pc = "createStream"
    BY <1>4, <1>8 DEF NextAsked, Expecting
  <2>2. name \in Requests /\ pc \in {"createStream", "loop"}
    BY <2>1 DEF Requests
  <2>3. client' = [client EXCEPT !.part = NoMessage, !.results = Counted, !.pc = pc,
                                 !.expect = Counted, !.late = FALSE]
    <3>1. <<"createStream">> # <<"play">>
      OBVIOUS
    <3>2. CASE name = "createStream"
      BY <1>1, <1>8, <2>1, <3>1, <3>2
    <3>3. CASE name = "play"
      BY <1>1, <1>8, <2>1, <3>1, <3>3
    <3> QED
      BY <2>1, <3>2, <3>3
  <2>4. /\ ClientType' /\ client'.kind = client.kind /\ client'.app = client.app
        /\ client'.pc = pc
    <3>1. PICK n \in Nat : n = Counted
      BY <1>5
    <3>2. client' = [client EXCEPT !.part = NoMessage, !.results = n, !.pc = pc,
                                   !.expect = n, !.late = FALSE]
      BY <2>3, <3>1
    <3> QED
      BY <1>4, <2>2, <3>2 DEF TypeInv, ClientType, ClientParts
  <2>5. asked \in Seq(Requests) /\ Len(asked) \in Nat
    BY <1>4 DEF TypeInv, AskedType
  <2>6. asked' = Append(asked, name)
    <3>1. asked' = asked \o <<name>>
      BY <1>1, <2>1
    <3> QED
      BY <2>2, <2>5, <3>1, AppendIsConcat
  <2>7. PICK N : N = Len(asked) + 1
    OBVIOUS
  <2>8. up' = up \o Request(name, N)
    <3>1. NextAsked[1] = name
      BY <2>1
    <3> QED
      BY <1>1, <1>8, <2>7, <3>1
  <2>9. Sends(name, N)
    BY <2>2, <2>4, <2>6, <2>7, <2>8 DEF Sends
  <2>10. UpInv' /\ Turn' = Turn /\ Place' = Place
    BY <1>4, <2>9, SendUp DEF Connected
  <2>11. Len(asked) = IF name = "createStream" THEN 1 ELSE 2
    BY <1>4, <2>1 DEF Connected, ClientPhase
  <2>12. /\ asked' \in Seq(Requests) /\ Len(asked') = N /\ N \in {2, 3} /\ DOMAIN asked' = 1 .. N
         /\ asked'[N] = name /\ \A n \in 1 .. N - 1 : n \in DOMAIN asked /\ asked'[n] = asked[n]
    BY <2>2, <2>5, <2>6, <2>7, <2>11
  <2>13. AskedType'
    BY <2>12, PullAssumption DEF AskedType, PullAssumption
  <2>14. TypeInv'
    <3>1. Parts' = Parts
      BY <2>4 DEF Parts, RequestMessages, RequestMessage, RequestRest
    <3> QED
      BY <1>4, <1>6, <2>4, <2>13, <3>1 DEF TypeInv, ServerType, PlayerType, RoomType
  <2>15. ClientPhase'
    <3>1. \A n \in DOMAIN asked' : IF n <= 3 THEN asked'[n] = Opening[n] ELSE asked'[n] \in OtherCommands
      <4> SUFFICES ASSUME NEW n \in 1 .. N PROVE n <= 3 /\ asked'[n] = Opening[n]
        BY <2>12
      <4>1. CASE n = N
        BY <2>1, <2>7, <2>11, <2>12, <4>1 DEF Opening
      <4>2. CASE n # N
        <5>1. n \in 1 .. N - 1 /\ n <= 3
          BY <2>12, <4>2
        <5> QED
          BY <1>4, <2>12, <5>1 DEF Connected, ClientPhase
      <4> QED
        BY <4>1, <4>2
    <3>2. Len(asked') = IF pc = "createStream" THEN 2 ELSE 3
      <4>1. Len(asked') = Len(asked) + 1
        BY <2>7, <2>12
      <4>2. CASE name = "createStream"
        BY <2>1, <2>11, <4>1, <4>2
      <4>3. CASE name = "play"
        BY <2>1, <2>11, <4>1, <4>3
      <4> QED
        BY <2>1, <4>2, <4>3
    <3>3. "client" \notin gone'
      BY <1>4
    <3> QED
      BY <2>2, <2>4, <3>1, <3>2, <3>3 DEF ClientPhase
  <2>16. ServerPhase'
    BY <1>4, <2>4, <2>10 DEF Connected, ServerPhase
  <2>17. DownInv' /\ TodoInv'
    <3>1. TodoInv'
      BY <1>4 DEF Connected, TodoInv, Rest
    <3> QED
      BY <1>4, <3>1, TakeDown DEF Connected
  <2>18. ReaderInv'
    BY <1>4, <2>9, SendReader DEF Connected
  <2> QED
    BY <2>10, <2>14, <2>15, <2>16, <2>17, <2>18 DEF FrameInv, Connected, ServerPhase
<1> QED
  BY <1>7, <1>8

\* The other commands of a player.
LEMMA PlayerCommandsStep ==
  ASSUME FrameInv, HandshakeInv, PlayerCommands PROVE FrameInv'
<1>1. PICK name \in OtherCommands :
        asked' = Append(asked, name) /\ up' = up \o Request(name, Len(asked) + 1)
  BY DEF PlayerCommands
<1>2. /\ client.kind = "player" /\ client.pc = "loop" /\ Len(asked) < 3 + MaxOthers
      /\ UNCHANGED <<client, answered, pulled, down, gone, server, player, upstream, log>>
  BY DEF PlayerCommands, roomVars
<1>3. TypeInv /\ Connected
  <2>1. ~Handshaking
    BY <1>2, StillHandshaking
  <2> QED
    BY <2>1 DEF FrameInv, HandshakeInv, Through
<1>4. PICK N : N = Len(asked) + 1
  OBVIOUS
<1>5. name \in Requests /\ Sends(name, N)
  BY <1>1, <1>2, <1>4 DEF Sends, Requests
<1>6. /\ asked' \in Seq(Requests) /\ Len(asked') = N /\ N \in Nat /\ N > 3 /\ N <= 3 + MaxOthers
      /\ DOMAIN asked' = 1 .. N /\ asked'[N] = name
      /\ \A n \in 1 .. N - 1 : n \in DOMAIN asked /\ asked'[n] = asked[n]
  BY <1>1, <1>2, <1>3, <1>4, <1>5, PullAssumption
     DEF TypeInv, AskedType, Connected, ClientPhase, PullAssumption
<1>7. TypeInv'
  <2>1. Parts' = Parts
    BY <1>2 DEF Parts, RequestMessages, RequestMessage, RequestRest
  <2> QED
    BY <1>2, <1>3, <1>6, <2>1
       DEF TypeInv, ClientType, AskedType, PulledType, ServerType, PlayerType, RoomType
<1>8. UpInv' /\ Turn' = Turn /\ ReaderInv'
  BY <1>2, <1>3, <1>5, SendUp, SendReader DEF Connected
<1>9. ClientPhase'
  <2>1. \A n \in DOMAIN asked' : IF n <= 3 THEN asked'[n] = Opening[n] ELSE asked'[n] \in OtherCommands
    <3> SUFFICES ASSUME NEW n \in 1 .. N
                 PROVE  IF n <= 3 THEN asked'[n] = Opening[n] ELSE asked'[n] \in OtherCommands
      BY <1>6
    <3>1. CASE n = N
      BY <1>6, <3>1
    <3>2. CASE n # N
      BY <1>3, <1>6, <3>2 DEF Connected, ClientPhase
    <3> QED
      BY <3>1, <3>2
  <2>2. Len(asked') >= 3 /\ "client" \notin gone
    BY <1>2, <1>3, <1>6 DEF Connected, ClientPhase
  <2> QED
    BY <1>2, <2>1, <2>2 DEF ClientPhase
<1>10. ServerPhase' /\ DownInv' /\ TodoInv'
  <2>1. ServerPhase'
    BY <1>2, <1>3, <1>8 DEF Connected, ServerPhase
  <2> QED
    BY <1>2, <1>3, <2>1, DownKept DEF Connected
<1> QED
  BY <1>2, <1>3, <1>7, <1>8, <1>9, <1>10 DEF FrameInv, Connected, ServerPhase

\* What leaves the connection alone, or ends the client's side of it.
LEMMA StillFrames ==
  ASSUME FrameInv, UNCHANGED <<asked, answered, pulled, up, server, player>>,
         ClientType', RoomType',
         client'.kind = client.kind, client'.app = client.app, client'.chunk = client.chunk,
         client'.pc \in {client.pc, "ended"}, client'.part = client.part,
         down' = down \/ (down' = <<>> /\ client'.pc = "ended"),
         server.pc \in {"loop", "ended"} => ("client" \in gone' => client'.pc = "ended")
  PROVE  FrameInv'
<1>1. TypeInv'
  <2>1. Parts' = Parts
    BY DEF Parts, RequestMessages, RequestMessage, RequestRest
  <2> QED
    BY <2>1 DEF FrameInv, TypeInv, AskedType, PulledType, ServerType, PlayerType
<1>2. CASE server.pc \in {"loop", "ended"}
  <2>1. TypeInv /\ Connected
    BY <1>2 DEF FrameInv
  <2>2. UpInv' /\ Turn' = Turn /\ Place' = Place /\ Sent(Turn)' = Sent(Turn)
    BY <2>1, UpSame DEF Connected
  <2>3. ReaderInv'
    BY <2>1, <2>2 DEF Connected, ReaderInv
  <2>4. ClientPhase'
    BY <1>2, <2>1 DEF Connected, ClientPhase
  <2>5. ServerPhase'
    BY <2>1, <2>2 DEF Connected, ServerPhase
  <2>6. DownInv' /\ TodoInv'
    <3>1. InsideFrame' = InsideFrame
      BY DEF InsideFrame
    <3>2. TodoInv'
      BY <2>1 DEF Connected, TodoInv, Rest
    <3> QED
      BY <2>1, <3>1, <3>2, DownSame DEF Connected
  <2> QED
    BY <1>1, <1>2, <2>2, <2>3, <2>4, <2>5, <2>6 DEF FrameInv, Connected
<1>3. CASE server.pc \notin {"loop", "ended"}
  BY <1>1, <1>3 DEF FrameInv, Early
<1> QED
  BY <1>2, <1>3

\* Deadlines, failures, the collector and the publisher.
LEMMA AsideStep ==
  ASSUME FrameInv, HandshakeInv,
         \/ DeadlinePasses \/ ClientFails \/ PlayerLeaves \/ Collects
         \/ Publishes \/ PublishesMeta \/ PublishesFrame \/ PublisherLeaves \/ UNCHANGED vars
  PROVE  FrameInv'
<1>1. TypeInv /\ DOMAIN client = ClientFields
  BY DEF FrameInv, HandshakeInv
<1>2. server.pc \in {"loop", "ended"} => ("client" \in gone => client.pc = "ended")
  BY DEF FrameInv, Connected, ClientPhase
<1>3. CASE DeadlinePasses
  <2>1. client' = [client EXCEPT !.late = TRUE]
        /\ UNCHANGED <<asked, answered, pulled, up, down, gone, server, player, upstream, log>>
    BY <1>3 DEF DeadlinePasses, roomVars
  <2>2. /\ ClientType' /\ client'.kind = client.kind /\ client'.app = client.app
        /\ client'.chunk = client.chunk /\ client'.pc = client.pc /\ client'.part = client.part
    BY <1>1, <2>1 DEF TypeInv, ClientType
  <2>3. RoomType'
    BY <1>1, <2>1 DEF TypeInv, RoomType
  <2> QED
    BY <1>2, <2>1, <2>2, <2>3, StillFrames
<1>4. CASE ClientFails \/ PlayerLeaves
  <2>1. /\ client' = [client EXCEPT !.pc = "ended"]
        /\ UNCHANGED <<asked, answered, pulled, up, server, player, upstream, log>>
        /\ down' \in {down, <<>>} /\ gone' \in {gone, gone \cup {"client"}}
    BY <1>4 DEF ClientFails, PlayerLeaves, roomVars
  <2>2. /\ ClientType' /\ client'.kind = client.kind /\ client'.app = client.app
        /\ client'.chunk = client.chunk /\ client'.pc = "ended" /\ client'.part = client.part
    BY <1>1, <2>1 DEF TypeInv, ClientType
  <2>3. RoomType'
    BY <1>1, <2>1 DEF TypeInv, RoomType
  <2> QED
    BY <2>1, <2>2, <2>3, StillFrames
<1>5. CASE Collects
  <2>1. PICK end \in {"client", "server"} : Collect(end)
    BY <1>5 DEF Collects
  <2>2. /\ UNCHANGED <<client, asked, answered, pulled, up, down, server, player, upstream, log>>
        /\ gone' = gone \cup {end} /\ (end = "client" => client.pc = "ended")
    BY <2>1 DEF Collect, clientVars, roomVars
  <2>3. ClientType' /\ RoomType'
    BY <1>1, <2>2 DEF TypeInv, ClientType, RoomType
  <2>4. server.pc \in {"loop", "ended"} => ("client" \in gone' => client'.pc = "ended")
    BY <1>2, <2>2
  <2> QED
    BY <2>2, <2>3, <2>4, StillFrames
<1>6. CASE Publishes \/ PublishesMeta \/ PublishesFrame \/ PublisherLeaves \/ UNCHANGED vars
  <2>1. UNCHANGED <<client, asked, answered, pulled, up, down, gone, server, player>>
    BY <1>6 DEF Publishes, PublishesMeta, PublishesFrame, PublisherLeaves, vars, clientVars
  <2>2. /\ upstream' \in {upstream, "open", "closed"}
        /\ log' = log \/ \E tag \in Tags : log' = Append(log, tag)
    <3>1. CASE PublishesMeta
      <4>1. PICK tag : tag = [type |-> "meta"]
        OBVIOUS
      <4>2. tag \in Tags
        BY <4>1 DEF Tags
      <4> QED
        BY <3>1, <4>1, <4>2 DEF PublishesMeta
    <3>2. CASE PublishesFrame
      <4>1. PICK type \in {"key", "inter"} : log' = Append(log, [type |-> type, n |-> Len(log) + 1])
        BY <3>2 DEF PublishesFrame
      <4>2. Len(log) + 1 \in Nat \ {0}
        BY <1>1 DEF TypeInv, RoomType
      <4>3. [type |-> type, n |-> Len(log) + 1] \in Tags
        BY <4>2 DEF Tags, Frames
      <4> QED
        BY <3>2, <4>1, <4>3 DEF PublishesFrame
    <3>3. CASE Publishes \/ PublisherLeaves \/ UNCHANGED vars
      BY <3>3 DEF Publishes, PublisherLeaves, vars, roomVars
    <3> QED
      BY <1>6, <3>1, <3>2, <3>3
  <2>3. ClientType' /\ RoomType'
    <3>1. log' \in Seq(Tags)
      BY <1>1, <2>2 DEF TypeInv, RoomType
    <3> QED
      BY <1>1, <2>1, <2>2, <3>1 DEF TypeInv, ClientType, RoomType
  <2> QED
    BY <1>2, <2>1, <2>3, StillFrames
<1> QED
  BY <1>3, <1>4, <1>5, <1>6

-----------------------------------------------------------------------------
(* Steps of the goroutine of RTMPJoin.                                         *)

LEMMA LargestOf ==
  ASSUME NEW n \in Nat, NEW S \in SUBSET (0 .. n), S # {}
  PROVE  Max(S) \in S /\ \A x \in S : x <= Max(S)
<1> DEFINE T == {m \in 0 .. n : n - m \in S}
<1>1. T \in SUBSET Nat /\ T # {}
  <2>1. PICK x \in S : TRUE
    OBVIOUS
  <2>2. n - x \in 0 .. n /\ n - (n - x) = x
    OBVIOUS
  <2>3. n - x \in T /\ T \in SUBSET Nat
    BY <2>1, <2>2
  <2> HIDE DEF T
  <2> QED
    BY <2>3
<1>2. PICK m \in T : \A j \in T : m <= j
  BY <1>1, LeastOf
<1>3. \A x \in S : x <= n - m
  <2> SUFFICES ASSUME NEW x \in S PROVE x <= n - m
    OBVIOUS
  <2>1. n - x \in T
    OBVIOUS
  <2> QED
    BY <1>2, <2>1
<1>4. \E x \in S : \A y \in S : x >= y
  BY <1>2, <1>3
<1> QED
  BY <1>4 DEF Max

\* A reader of the broadcast starts where it has tags, or at the start.
LEMMA StartInLog ==
  ASSUME TypeInv
  PROVE  /\ GopStart \in 0 .. Len(log)
         /\ \A i \in DOMAIN log : log[i].type = "key" => i - 1 <= GopStart
<1> DEFINE S == {0} \cup {i - 1 : i \in {j \in DOMAIN log : log[j].type = "key"}}
<1>1. DOMAIN log = 1 .. Len(log) /\ Len(log) \in Nat
  BY DEF TypeInv, RoomType
<1>2. S \in SUBSET (0 .. Len(log)) /\ S # {}
  BY <1>1
<1>3. \A i \in DOMAIN log : log[i].type = "key" => i - 1 \in S
  OBVIOUS
<1>4. GopStart = Max(S)
  BY DEF GopStart
<1> HIDE DEF S
<1>5. Max(S) \in S /\ \A x \in S : x <= Max(S)
  BY <1>1, <1>2, LargestOf
<1> QED
  BY <1>2, <1>3, <1>4, <1>5

\* What is left to look at after such a step.
LEMMA PlayerFrames ==
  ASSUME TypeInv, Connected, player.pc # "off", PlayerType', DownInv', TodoInv',
         UNCHANGED <<clientVars, up, gone, server, roomVars>>,
         player'.todo # <<>> => player'.pc \in {"headers", "read"}
  PROVE  FrameInv'
<1>1. UNCHANGED <<client, asked, answered, pulled, up, gone, server, upstream, log>>
  BY DEF clientVars, roomVars
<1>2. Parts' = Parts
  BY <1>1 DEF Parts, RequestMessages, RequestMessage, RequestRest
<1>3. TypeInv'
  BY <1>1, <1>2 DEF TypeInv, ClientType, AskedType, PulledType, ServerType, RoomType
<1>4. UpInv' /\ Turn' = Turn /\ Place' = Place /\ Sent(Turn)' = Sent(Turn)
  BY <1>1, UpSame DEF Connected
<1>5. ReaderInv' /\ ClientPhase'
  BY <1>1, <1>4, PhaseSame DEF Connected, ReaderInv
<1>6. ServerPhase'
  BY <1>1, <1>4 DEF Connected, ServerPhase
<1> QED
  BY <1>3, <1>4, <1>5, <1>6 DEF FrameInv, Connected, ServerPhase

LEMMA PlayerStep ==
  ASSUME FrameInv, HandshakeInv, PlayerSteps PROVE FrameInv'
<1>1. player.pc # "off" \/ player.todo # <<>>
  BY DEF PlayerSteps, PlayerSnapshots, PlayerSubscribes, PlayerReads, PlayerSendsChunk, PlayerEnds
<1>2. TypeInv /\ Connected
  <2>1. ~Handshaking
    BY <1>1, StillHandshaking
  <2> QED
    BY <2>1 DEF FrameInv, HandshakeInv, Through
<1>3. player.pc # "off" /\ server.chunk = OwnChunk
  BY <1>1, <1>2 DEF Connected, ServerPhase, TypeInv, ServerType
<1>4. /\ UNCHANGED <<clientVars, up, gone, server, roomVars>>
      /\ client' = client /\ server' = server /\ gone' = gone
  BY DEF PlayerSteps, PlayerSnapshots, PlayerSubscribes, PlayerReads, PlayerSendsChunk, PlayerEnds, clientVars
<1> DEFINE S == Cuts(Media)
<1>5. player \in [pc : {"off", "snapshot", "headers", "read", "ended"}, todo : Seq(S), at : Nat]
  BY <1>2 DEF TypeInv, PlayerType
<1>6. ASSUME NEW m \in Media PROVE Chunks(m, server.chunk) \in Seq(S)
  BY <1>3, <1>6, RestOfAll
<1>7. ASSUME down' = down, player.todo = <<>>,
             player'.todo = <<>> \/ \E m \in Media : player'.todo = Chunks(m, server.chunk)
      PROVE  DownInv' /\ TodoInv'
  <2>1. TodoInv' /\ ~InsideFrame'
    <3>1. CASE player'.todo = <<>>
      BY <3>1 DEF TodoInv, InsideFrame
    <3>2. CASE player'.todo # <<>>
      <4>1. PICK m \in Media : player'.todo = Chunks(m, OwnChunk)
        BY <1>3, <1>7, <3>2
      <4>2. PICK todo : todo = Chunks(m, OwnChunk)
        OBVIOUS
      <4>3. Rest(todo, m, 1) /\ 1 \in 1 .. Cut(m) /\ Head(todo).place = 1
        BY <4>2, RestOfAll
      <4>4. player'.todo = todo
        BY <4>1, <4>2
      <4> QED
        BY <4>3, <4>4 DEF TodoInv, InsideFrame, Rest
    <3> QED
      BY <3>1, <3>2
  <2>2. ~InsideFrame
    BY <1>7 DEF InsideFrame
  <2>3. InsideFrame' = InsideFrame
    BY <2>1, <2>2 DEF InsideFrame
  <2> QED
    BY <1>2, <1>4, <1>7, <2>1, <2>2, <2>3, DownSame DEF Connected
<1> HIDE DEF S
<1>8. PlayerType' = (player' \in [pc : {"off", "snapshot", "headers", "read", "ended"}, todo : Seq(S), at : Nat])
  BY DEF PlayerType, S
<1>9. CASE PlayerSnapshots
  <2>1. PICK todo \in Seq(S) : /\ player' = [player EXCEPT !.pc = "headers", !.todo = todo]
                               /\ todo = <<>> \/ \E m \in Media : todo = Chunks(m, server.chunk)
    <3>1. MetaMessage \in Media
      BY Messages
    <3>2. PICK todo : todo = IF meta = Nil THEN <<>> ELSE Chunks(MetaMessage, server.chunk)
      OBVIOUS
    <3>3. todo \in Seq(S)
      BY <1>6, <3>1, <3>2
    <3> QED
      BY <1>9, <3>1, <3>2, <3>3 DEF PlayerSnapshots
  <2>2. PlayerType' /\ player'.pc = "headers" /\ player'.todo = todo
    BY <1>5, <1>8, <2>1
  <2>3. player.todo = <<>> /\ down' = down
    BY <1>2, <1>9 DEF PlayerSnapshots, Connected, ServerPhase
  <2>4. DownInv' /\ TodoInv'
    BY <1>7, <2>1, <2>2, <2>3
  <2> QED
    BY <1>2, <1>3, <1>4, <2>2, <2>4, PlayerFrames
<1>10. CASE PlayerSubscribes
  <2>1. PICK at \in Nat : at = GopStart
    BY <1>2, StartInLog DEF TypeInv, RoomType
  <2>2. player' = [player EXCEPT !.pc = "read", !.at = at]
    BY <1>10, <2>1 DEF PlayerSubscribes
  <2>3. PlayerType' /\ player'.pc = "read" /\ player'.todo = player.todo
    BY <1>5, <1>8, <2>2
  <2>4. DownInv' /\ TodoInv'
    BY <1>7, <1>10, <2>3 DEF PlayerSubscribes
  <2> QED
    BY <1>2, <1>3, <1>4, <2>3, <2>4, PlayerFrames
<1>11. CASE PlayerReads
  <2>1. player.at + 1 \in DOMAIN log /\ log \in Seq(Tags)
    BY <1>2, <1>5, <1>11 DEF PlayerReads, TypeInv, RoomType
  <2>2. TagMessage(log[player.at + 1]) \in Media
    BY <2>1 DEF Media
  <2>3. PICK todo \in Seq(S) : todo = Chunks(TagMessage(log[player.at + 1]), server.chunk)
    BY <1>6, <2>2
  <2>6. PICK at \in Nat : at = player.at + 1
    BY <1>5
  <2>4. player' = [player EXCEPT !.at = at, !.todo = todo] /\ player.pc = "read"
    BY <1>11, <2>3, <2>6 DEF PlayerReads
  <2>5. PlayerType' /\ player'.pc = "read" /\ player'.todo = todo
    BY <1>5, <1>8, <2>4
  <2>7. DownInv' /\ TodoInv'
    BY <1>7, <1>11, <2>2, <2>3, <2>5 DEF PlayerReads
  <2> QED
    BY <1>2, <1>3, <1>4, <2>5, <2>7, PlayerFrames
<1>12. CASE PlayerSendsChunk
  <2>1. player.todo # <<>> /\ Written(<<Head(player.todo)>>)
        /\ player' = [player EXCEPT !.todo = Tail(player.todo)]
    BY <1>12 DEF PlayerSendsChunk
  <2>2. player.todo \in Seq(S) /\ Tail(player.todo) \in Seq(S)
    BY <1>5, <2>1
  <2>4. PlayerType' /\ player'.pc = player.pc /\ player'.todo = Tail(player.todo)
    BY <1>5, <1>8, <2>1, <2>2
  <2>5. DownInv' /\ TodoInv'
    BY <1>2, <1>3, <1>4, <2>1, <2>2, <2>4, WritePart DEF Connected, S
  <2>6. player.pc \in {"headers", "read"}
    BY <1>2, <2>1 DEF Connected, ServerPhase
  <2> QED
    BY <1>2, <1>3, <1>4, <2>4, <2>5, <2>6, PlayerFrames
<1>13. CASE PlayerEnds
  <2>1. player' = [player EXCEPT !.pc = "ended", !.todo = <<>>] /\ down' = down
    BY <1>13 DEF PlayerEnds
  <2>2. PlayerType' /\ player'.todo = <<>>
    <3>1. <<>> \in Seq(S)
      OBVIOUS
    <3> QED
      BY <1>5, <1>8, <2>1, <3>1
  <2>3. DownInv' /\ TodoInv'
    <3>1. CASE player.todo = <<>>
      BY <1>7, <2>1, <2>2, <3>1
    <3>2. CASE player.todo # <<>>
      <4>1. client.pc = "ended"
        BY <1>2, <1>13, <3>2 DEF PlayerEnds, Connected, ClientPhase
      <4> QED
        BY <1>4, <2>2, <4>1 DEF DownInv, TodoInv
    <3> QED
      BY <3>1, <3>2
  <2> QED
    BY <1>2, <1>3, <1>4, <2>2, <2>3, PlayerFrames
<1> QED
  BY <1>9, <1>10, <1>11, <1>12, <1>13 DEF PlayerSteps

-----------------------------------------------------------------------------
(* The framing holds from the first command on.                                *)

LEMMA FrameInit == Init => FrameInv
<1> SUFFICES ASSUME Init PROVE FrameInv
  OBVIOUS
<1>1. PICK kind \in {"pull", "player"}, app \in Apps :
        \E mode \in IF kind = "pull" THEN {"SIMPLE"} ELSE Modes :
           client = [kind |-> kind, app |-> app, mode |-> mode, pc |-> "c0", late |-> FALSE,
                     results |-> 0, expect |-> 0, chunk |-> DefaultChunk, part |-> NoMessage]
  BY DEF Init
<1>2. ClientType /\ client.chunk = DefaultChunk /\ client.part = NoMessage
  <2>1. PICK mode \in AllModes :
           client = [kind |-> kind, app |-> app, mode |-> mode, pc |-> "c0", late |-> FALSE,
                     results |-> 0, expect |-> 0, chunk |-> DefaultChunk, part |-> NoMessage]
    BY <1>1, PullAssumption DEF PullAssumption, AllModes
  <2> QED
    BY <2>1 DEF ClientType, ClientParts
<1>3. ServerType /\ server.pc = "c0" /\ server.part = NoMessage /\ server.todo = <<>>
      /\ server.app = "none" /\ server.chunk = DefaultChunk
  <2>1. server = [pc |-> "c0", mode |-> "SIMPLE", s1 |-> Nil, app |-> "none",
                 chunk |-> DefaultChunk, part |-> NoMessage, todo |-> <<>>, warned |-> FALSE]
    BY DEF Init
  <2>2. NoMessage \in Parts /\ <<>> \in Seq(StatusMessages) /\ "SIMPLE" \in AllModes
    BY DEF Parts, AllModes
  <2> QED
    BY <2>1, <2>2 DEF ServerType
<1>4. AskedType /\ PulledType
  BY PullAssumption DEF Init, AskedType, PulledType, PullAssumption
<1>5. PlayerType /\ RoomType
  <2>1. <<>> \in Seq(Cuts(Media)) /\ <<>> \in Seq(Tags)
    OBVIOUS
  <2> QED
    BY <2>1 DEF Init, PlayerType, RoomType
<1> QED
  BY <1>2, <1>3, <1>4, <1>5 DEF Init, FrameInv, TypeInv, Early

\* Until the server has read C2, nothing of this has begun.
LEMMA EarlySteps ==
  ASSUME FrameInv, HandshakeInv,
         ClientHello \/ ServerReadsC0 \/ ServerReadsC1 \/ ClientReadsS0 \/ ClientReadsS2
  PROVE  FrameInv'
<1>1. Handshaking /\ server.pc \in {"c0", "c1", "c2"}
  <2>1. ~Through
    BY DEF Through, ClientHello, ServerReadsC0, ServerReadsC1, ClientReadsS0, ClientReadsS2
  <2> QED
    BY <2>1, StillHandshaking DEF HandshakeInv
<1>2. TypeInv /\ Early
  BY <1>1 DEF FrameInv
<1>3. UNCHANGED <<answered, pulled, gone, player, upstream, log>>
  BY DEF ClientHello, ServerReadsC0, ServerReadsC1, ClientReadsS0, ClientReadsS2, clientVars, roomVars
<1>4. PulledType' /\ PlayerType' /\ RoomType'
  BY <1>2, <1>3 DEF TypeInv, PulledType, PlayerType, RoomType
<1>5. CASE ClientHello \/ ClientReadsS0 \/ ClientReadsS2
  <2>1. server' = server /\ \E pc \in {"s0", "s1", "ended"} :
           \/ client' = [client EXCEPT !.pc = pc]
           \/ client' = [client EXCEPT !.pc = "connect", !.expect = 0, !.mode = "over"]
    BY <1>5 DEF ClientHello, ClientReadsS0, ClientReadsS2
  <2>2. /\ ClientType' /\ client'.chunk = client.chunk /\ client'.app = client.app
        /\ client'.part = client.part
    <3>1. PICK pc \in {"s0", "s1", "ended"} :
           \/ client' = [client EXCEPT !.pc = pc]
           \/ client' = [client EXCEPT !.pc = "connect", !.expect = 0, !.mode = "over"]
      BY <2>1
    <3>2. CASE client' = [client EXCEPT !.pc = pc]
      <4>1. PICK q \in {"c0", "s0", "s1", "connect", "createStream", "loop", "ended"} : q = pc
        OBVIOUS
      <4>2. client' = [client EXCEPT !.pc = q]
        BY <3>2, <4>1
      <4> QED
        BY <1>2, <4>2 DEF TypeInv, ClientType
    <3>3. CASE client' = [client EXCEPT !.pc = "connect", !.expect = 0, !.mode = "over"]
      BY <1>2, <3>3 DEF TypeInv, ClientType
    <3> QED
      BY <3>1, <3>2, <3>3
  <2>3. ServerType'
    <3>1. Parts' = Parts
      BY <2>2 DEF Parts, RequestMessages, RequestMessage, RequestRest
    <3> QED
      BY <1>2, <2>1, <3>1 DEF TypeInv, ServerType
  <2>4. AskedType'
    <3>1. asked' = asked \/ asked' = <<"connect">>
      BY <1>5 DEF ClientHello, ClientReadsS0, ClientReadsS2
    <3>2. <<"connect">> \in Seq(Requests) /\ Len(<<"connect">>) <= 3 + MaxOthers
      BY PullAssumption DEF Requests, PullAssumption
    <3> QED
      BY <1>2, <3>1, <3>2 DEF TypeInv, AskedType
  <2> QED
    BY <1>1, <1>2, <1>3, <1>4, <2>1, <2>2, <2>3, <2>4 DEF FrameInv, TypeInv, Early
<1>6. CASE ServerReadsC0 \/ ServerReadsC1
  <2>1. client' = client /\ asked' = asked
    BY <1>6 DEF ServerReadsC0, ServerReadsC1, clientVars
  <2>2. Parts' = Parts
    BY <2>1 DEF Parts, RequestMessages, RequestMessage, RequestRest
  <2>3. server.pc = "c0" => server'.pc = "c1"
    <3>1. server.pc = "c0" => AtC0 /\ ServerReadsC0
      BY <1>1, <1>6 DEF Handshaking, Greeting, AtHello, AtC0, AtC1, AtS0, AtS1, AtC2,
         ServerReadsC0, ServerReadsC1
    <3>2. AtC0 => Head(up).version = 3
      BY DEF AtC0
    <3> QED
      BY <1>2, <3>1, <3>2 DEF ServerReadsC0, TypeInv, ServerType
  <2>4. \/ server' = [server EXCEPT !.pc = "c1"]
        \/ \E mode \in AllModes : server' = [server EXCEPT !.pc = "c2", !.mode = mode, !.s1 = MakeS1(mode)]
    <3>1. CASE ServerReadsC0
      <4>1. server.pc = "c0" /\ server'.pc = "c1"
        BY <2>3, <3>1 DEF ServerReadsC0
      <4> QED
        BY <1>2, <3>1, <4>1 DEF ServerReadsC0, TypeInv, ServerType
    <3>2. CASE ServerReadsC1
      <4>1. ParseC1(Head(up).c1) \in AllModes
        BY DEF ParseC1, AllModes
      <4> QED
        BY <3>2, <4>1 DEF ServerReadsC1
    <3> QED
      BY <1>6, <3>1, <3>2
  <2>5. /\ ServerType' /\ server'.pc \in {"c1", "c2"} /\ server'.part = server.part
        /\ server'.todo = server.todo /\ server'.app = server.app /\ server'.chunk = server.chunk
    <3>1. CASE server' = [server EXCEPT !.pc = "c1"]
      BY <1>2, <2>2, <3>1 DEF TypeInv, ServerType
    <3>2. ASSUME NEW mode \in AllModes,
                 server' = [server EXCEPT !.pc = "c2", !.mode = mode, !.s1 = MakeS1(mode)]
          PROVE  /\ ServerType' /\ server'.pc \in {"c1", "c2"} /\ server'.part = server.part
                 /\ server'.todo = server.todo /\ server'.app = server.app /\ server'.chunk = server.chunk
      <4>1. PICK s1 \in {MakeS1(m) : m \in AllModes} : s1 = MakeS1(mode)
        OBVIOUS
      <4>2. server' = [server EXCEPT !.pc = "c2", !.mode = mode, !.s1 = s1]
        BY <3>2, <4>1
      <4> QED
        BY <1>2, <2>2, <4>2 DEF TypeInv, ServerType
    <3> QED
      BY <2>4, <3>1, <3>2
  <2> QED
    BY <1>2, <1>3, <1>4, <2>1, <2>5 DEF FrameInv, TypeInv, Early, ClientType, AskedType
<1> QED
  BY <1>5, <1>6

\* With C2 the connection has begun: the first command is what comes next.
LEMMA BeginStep ==
  ASSUME FrameInv, HandshakeInv, ServerReadsC2 PROVE FrameInv'
<1>1. Handshaking /\ AtC2
  BY DEF HandshakeInv, Handshaking, Greeting, AtHello, AtC0, AtC1, AtS0, AtS1, AtC2, Through, ServerReadsC2
<1>2. TypeInv /\ Early
  BY DEF FrameInv, ServerReadsC2
<1>3. /\ up' = Tail(up) /\ UNCHANGED <<client, asked, answered, pulled, down, gone, player, upstream, log>>
      /\ client.pc = "connect" /\ down = <<>> /\ asked = <<"connect">> /\ gone = {}
      /\ player.pc = "off" /\ player.todo = <<>>
  BY <1>1 DEF ServerReadsC2, clientVars, roomVars, Handshaking, AtC2
<1>4. up' = Request("connect", 1)'
  <2>1. PICK mode \in AllModes : up = <<C2Of(mode)>> \o Request("connect", 1)
    BY <1>1 DEF AtC2
  <2>2. Request("connect", 1)' = Request("connect", 1)
    BY <1>3 DEF Request, RequestMessage, RequestRest
  <2>3. PICK q : q = Request("connect", 1)
    OBVIOUS
  <2>4. PICK c : c = C2Of(mode)
    OBVIOUS
  <2>5. PICK S : q \in Seq(S) /\ c \in S
    <3>1. RequestMessage("connect", 1).len \in 1 .. 3
      BY RequestFacts
    <3>2. PICK m : m = RequestMessage("connect", 1)
      OBVIOUS
    <3>3. q = [i \in 1 .. m.len |-> [place |-> i, msg |-> m, units |-> 1]] /\ m.len \in Nat
      BY <2>3, <3>1, <3>2, DefaultChunks DEF Request
    <3>4. PICK f : f = [i \in 1 .. m.len |-> [place |-> i, msg |-> m, units |-> 1]]
      OBVIOUS
    <3>5. PICK n \in Nat : n = m.len
      BY <3>3
    <3>6. PICK T : T = {f[i] : i \in 1 .. n} \cup {c}
      OBVIOUS
    <3>7. f \in [1 .. n -> T]
      BY <3>4, <3>5, <3>6
    <3>8. f \in Seq(T) /\ c \in T
      BY <3>5, <3>6, <3>7
    <3> QED
      BY <3>3, <3>4, <3>8
  <2>6. up = <<c>> \o q
    BY <2>1, <2>3, <2>4
  <2>7. Tail(up) = q
    BY <2>5, <2>6
  <2> QED
    BY <1>3, <2>2, <2>3, <2>7
<1>5. UpInv' /\ Turn' = 1 /\ Place' = 1
  BY <1>3, <1>4, FirstUp
<1>6. Parts' = Parts
  BY <1>3 DEF Parts, RequestMessages, RequestMessage, RequestRest
<1>7. /\ ServerType' /\ server'.pc = "loop" /\ server'.part = server.part
      /\ server'.todo = server.todo /\ server'.app = server.app /\ server'.chunk = server.chunk
  <2>1. PICK w \in BOOLEAN : w = ~C2Accepted(Head(up).c2)
    OBVIOUS
  <2>2. server' = [server EXCEPT !.pc = "loop", !.warned = w, !.mode = "over", !.s1 = Nil]
    BY <2>1 DEF ServerReadsC2
  <2> QED
    BY <1>2, <1>6, <2>2 DEF TypeInv, ServerType
<1>8. TypeInv'
  BY <1>2, <1>3, <1>7 DEF TypeInv, ClientType, AskedType, PulledType, PlayerType, RoomType
<1>9. ClientPhase'
  BY <1>3 DEF ClientPhase, Opening
<1>10. ServerPhase' /\ ReaderInv'
  BY <1>2, <1>3, <1>5, <1>7 DEF Early, ServerPhase, ReaderInv
<1>11. DownInv' /\ TodoInv'
  <2>1. <<>> \in Seq(DownChunks)
    OBVIOUS
  <2>2. TodoInv' /\ ~InsideFrame' /\ server'.chunk # OwnChunk
    BY <1>2, <1>3, <1>7 DEF Early, TodoInv, InsideFrame, DefaultChunk, OwnChunk
  <2>3. Reader(0)' = NoMessage /\ down' = <<>> /\ Len(down') = 0 /\ DOMAIN down' = {}
    BY <1>2, <1>3 DEF Early, Reader
  <2>4. Reader(Len(down))' = NoMessage
    BY <2>3 DEF Reader
  <2> QED
    BY <2>1, <2>2, <2>3, <2>4 DEF DownInv
<1> QED
  BY <1>5, <1>7, <1>8, <1>9, <1>10, <1>11 DEF FrameInv, Connected

LEMMA FrameNext ==
  ASSUME FrameInv, HandshakeInv, [Next]_vars, ~torn' PROVE FrameInv'
<1>1. CASE ClientSteps
  BY <1>1, EarlySteps, ControlStep, CommandStep, MediaStep DEF ClientSteps
<1>2. CASE ServerSteps
  BY <1>2, EarlySteps, BeginStep, ReadsPartStep, ConnectsStep, AnswersStep, PlaysStep,
     SendsStatusStep, FailsStep DEF ServerSteps
<1>3. CASE PlayerSteps
  BY <1>3, PlayerStep
<1>4. CASE PlayerCommands
  BY <1>4, PlayerCommandsStep
<1>5. CASE \/ Leaving \/ DeadlinePasses
           \/ Publishes \/ PublishesMeta \/ PublishesFrame \/ PublisherLeaves \/ UNCHANGED vars
  BY <1>5, AsideStep DEF Leaving
<1> QED
  BY <1>1, <1>2, <1>3, <1>4, <1>5 DEF Next

\* What was torn stays so.
LEMMA TornStays == ASSUME torn, [Next]_vars PROVE torn'
<1>1. ASSUME NEW m, Answer(m) PROVE torn'
  BY <1>1 DEF Answer, ServerWrites
<1>2. CASE ServerSteps
  <2>1. ASSUME NEW more, ServerWrites(more) PROVE torn'
    BY <2>1 DEF ServerWrites
  <2> QED
    BY <1>1, <1>2, <2>1 DEF ServerSteps, ServerReadsC0, ServerReadsC1, ServerReadsC2, ServerReadsPart,
       ServerConnects, ServerAnswers, ServerPlays, ServerSendsStatus, ServerFails
<1>3. CASE ~ServerSteps
  BY <1>3 DEF Next, ClientSteps, PlayerSteps, Leaving, vars,
     ClientHello, ClientReadsS0, ClientReadsS2, ClientReadsControl, ClientReadsCommand, ClientReadsMedia,
     ClientReads, ClientTakes, PlayerSnapshots, PlayerSubscribes, PlayerReads, PlayerSendsChunk, PlayerEnds,
     ClientFails, PlayerLeaves, Collects, Collect, DeadlinePasses, PlayerCommands,
     Publishes, PublishesMeta, PublishesFrame, PublisherLeaves
<1> QED
  BY <1>2, <1>3

\* What comes next is what it is taken for.
LEMMA FramesExpected == FrameInv /\ HandshakeInv => ChunksExpected
<1> SUFFICES ASSUME FrameInv, HandshakeInv PROVE ChunksExpected
  OBVIOUS
<1>1. ASSUME Idle, up # <<>> PROVE Framed(server.part, Head(up), DefaultChunk)
  <2>1. server.pc = "loop" /\ TypeInv /\ Connected
    BY <1>1 DEF Idle, FrameInv
  <2> QED
    BY <1>1, <2>1, ServerFrames DEF Connected
<1>2. ASSUME Expecting \/ client.pc = "loop", down # <<>>
      PROVE  Framed(client.part, Head(down), client.chunk)
  <2>1. client.pc \in {"connect", "createStream", "loop"}
    BY <1>2 DEF Expecting
  <2>2. TypeInv /\ Connected
    <3>1. ~Handshaking
      BY <1>2, <2>1, StillHandshaking
    <3> QED
      BY <3>1 DEF FrameInv, HandshakeInv, Through
  <2> QED
    BY <1>2, <2>1, <2>2, ClientFrames DEF Connected
<1> QED
  BY <1>1, <1>2 DEF ChunksExpected

(* Each reader takes the chunk that comes next for what it is, for frames of   *)
(* any size, until an answer is written between two chunks of a frame: the     *)
(* announcement of a chunk size reaches the client before the first chunk that *)
(* needs it, and the chunks of a frame follow each other whatever goes before  *)
(* and after them (command_message.go:173-199, 482-499; chunk.go:183-191;      *)
(* room.go:80-146).                                                            *)
THEOREM FramingCorrect == Spec => []FramingAgreed
<1> DEFINE Inv == torn \/ FrameInv
<1>1. Init => Inv
  BY FrameInit
<1>2. Inv /\ HandshakeInv /\ [Next]_vars => Inv'
  BY FrameNext, TornStays
<1>3. Inv /\ HandshakeInv => FramingAgreed
  BY FramesExpected DEF FramingAgreed
<1> QED
  BY <1>1, <1>2, <1>3, HandshakeAlways, PTL DEF Spec
-----------------------------------------------------------------------------
(* The answers.                                                                *)

IsAnswer(k) == down[k].msg.type = "command"
TxnAt(k) == TurnOf(down[k].msg)
LastAnswered == IF answered = <<>> THEN 0 ELSE answered[Len(answered)]

\* What the client has heard: the answers up to the last, in order.
Told ==
    /\ \A i, j \in DOMAIN answered : i < j => answered[i] < answered[j]
    /\ \A i \in DOMAIN answered : answered[i] \in Owed /\ answered[i] <= LastAnswered
    /\ \A n \in Owed : n <= LastAnswered => \E i \in DOMAIN answered : answered[i] = n

\* What is on its way to it: in order, for commands that the server has read.
AnswerFits(k) == TxnAt(k) \in Owed /\ LastAnswered <= TxnAt(k) /\ TxnAt(k) < Turn
Coming ==
    /\ \A k \in DOMAIN down : IsAnswer(k) => AnswerFits(k)
    /\ \A j, k \in DOMAIN down : j < k /\ IsAnswer(j) /\ IsAnswer(k) => TxnAt(j) <= TxnAt(k)

\* The statuses of `play` are still to be written; nothing is read before.
StatusesFit ==
    /\ \A j \in DOMAIN server.todo : TurnOf(server.todo[j]) = Turn - 1
    /\ server.todo # <<>> => Turn - 1 \in Owed

\* No command that was read is left without its answer.
OnTheWay(n) == \E k \in DOMAIN down : IsAnswer(k) /\ TxnAt(k) = n
Reached(n) == n <= LastAnswered \/ OnTheWay(n) \/ (server.todo # <<>> /\ n = Turn - 1)
AllReached == server.app # "none" => \A n \in Owed : n < Turn => Reached(n)

\* The answers that a client has yet to hear.
InTurn == LastAnswered < Turn /\ Coming /\ StatusesFit /\ AllReached
AnswersInv ==
    IF server.pc \in {"loop", "ended"}
    THEN Told /\ (client.pc # "ended" => InTurn)
    ELSE answered = <<>>

-----------------------------------------------------------------------------
(* The frames.                                                                 *)

\* The last chunk of a frame stands for it.
IsFrame(c) == c.msg.type = "frame" /\ c.place = Cut(c.msg)
NumberOf(c) == c.msg.tag.n
LastPulled == IF pulled.tags = <<>> THEN 0 ELSE pulled.tags[Len(pulled.tags)].n

Numbered == \A n \in DOMAIN log : log[n].type # "meta" => log[n].n = n

\* A frame of the log, as it is sent.
InLog(c) == NumberOf(c) \in DOMAIN log /\ log[NumberOf(c)] = c.msg.tag
Moving(n) == \/ \E k \in DOMAIN down : IsFrame(down[k]) /\ NumberOf(down[k]) = n
             \/ \E k \in DOMAIN player.todo : IsFrame(player.todo[k]) /\ NumberOf(player.todo[k]) = n
NoneMissing(from) == \A n \in from .. player.at : log[n].type # "meta" => Moving(n)

\* Before the goroutine reads the broadcast there is no frame anywhere.
NoFrames ==
    player.pc \in {"off", "snapshot", "headers"} =>
      /\ pulled.tags = <<>>
      /\ \A k \in DOMAIN down : ~IsFrame(down[k])
      /\ \A k \in DOMAIN player.todo : ~IsFrame(player.todo[k])

\* The frames that are written, and the one that is about to be.
FrameFits(c) == InLog(c) /\ LastPulled < NumberOf(c) /\ NumberOf(c) <= player.at
FramesComing ==
    /\ \A k \in DOMAIN down : IsFrame(down[k]) =>
         FrameFits(down[k]) /\ NoneMissing(NumberOf(down[k]))
    /\ \A j, k \in DOMAIN down : j < k /\ IsFrame(down[j]) /\ IsFrame(down[k])
         => NumberOf(down[j]) < NumberOf(down[k])
FrameWaiting ==
    \A i \in DOMAIN player.todo : IsFrame(player.todo[i]) =>
      /\ FrameFits(player.todo[i]) /\ NumberOf(player.todo[i]) = player.at
      /\ \A k \in DOMAIN down : IsFrame(down[k]) => NumberOf(down[k]) < player.at
BehindPlayer == pulled.tags # <<>> => LastPulled <= player.at /\ NoneMissing(LastPulled + 1)

\* What is between the broadcast and a pull client's room.
Relaying == NoFrames /\ FramesComing /\ FrameWaiting /\ BehindPlayer
FramesInv ==
    /\ Numbered /\ player.at <= Len(log)
    /\ Stretch
    /\ client.kind = "pull" /\ client.pc # "ended" =>
         IF server.pc \in {"loop", "ended"} THEN Relaying ELSE pulled.tags = <<>>

-----------------------------------------------------------------------------
(* How the direction to the client changes: it grows at its end, or loses its  *)
(* first chunk.                                                                *)

\* The messages M are written, each once, behind what is there.
Grows(M) ==
    /\ \A k \in DOMAIN down : k \in DOMAIN down' /\ down'[k] = down[k]
    /\ \A k \in DOMAIN down' : k \notin DOMAIN down =>
         (\A j \in DOMAIN down : j < k) /\ down'[k].msg \in M
    /\ \A m \in M : \E k \in DOMAIN down' : k \notin DOMAIN down /\ down'[k].msg = m
    /\ \A j, k \in DOMAIN down' :
         j \notin DOMAIN down /\ k \notin DOMAIN down /\ down'[j].msg = down'[k].msg => j = k
Shifts ==
    /\ 1 \in DOMAIN down
    /\ \A k \in DOMAIN down' : k \in Nat \ {0} /\ k + 1 \in DOMAIN down /\ down'[k] = down[k + 1]
    /\ \A k \in DOMAIN down : k \in Nat /\ k >= 1
                              /\ (k # 1 => k - 1 \in DOMAIN down' /\ down'[k - 1] = down[k])

LEMMA GrowsNot == ASSUME down' = down PROVE Grows({})
BY DEF Grows

LEMMA GrowsBy ==
  ASSUME down \in Seq(DownChunks), NEW more \in Seq(DownChunks), down' = down \o more,
         \A i, j \in DOMAIN more : more[i].msg = more[j].msg => i = j,
         NEW M, M = {more[i].msg : i \in DOMAIN more}
  PROVE  Grows(M)
<1>1. PICK n \in Nat : n = Len(down)
  OBVIOUS
<1>2. PICK l \in Nat : l = Len(more)
  OBVIOUS
<1>3. /\ DOMAIN down = 1 .. n /\ DOMAIN more = 1 .. l /\ DOMAIN down' = 1 .. n + l
      /\ \A k \in 1 .. n : down'[k] = down[k]
      /\ \A k \in 1 .. l : down'[n + k] = more[k]
  <2>1. /\ DOMAIN down = 1 .. n /\ DOMAIN more = 1 .. l
    BY <1>1, <1>2
  <2>2. down' \in Seq(DownChunks) /\ Len(down') = n + l
    BY <1>1, <1>2
  <2>3. DOMAIN down' = 1 .. n + l
    BY <2>2
  <2>4. \A k \in 1 .. n : down'[k] = down[k]
    BY <1>1, <1>2
  <2>5. \A k \in 1 .. l : down'[n + k] = more[k]
    BY <1>1, <1>2
  <2> QED
    BY <2>1, <2>3, <2>4, <2>5
<1>4. ASSUME NEW k \in DOMAIN down', k \notin DOMAIN down
      PROVE  /\ k - n \in 1 .. l /\ down'[k] = more[k - n]
             /\ \A j \in DOMAIN down : j < k
  <2>1. k \in 1 .. n + l /\ ~(k \in 1 .. n)
    BY <1>3, <1>4
  <2>2. k - n \in 1 .. l /\ n + (k - n) = k
    BY <2>1
  <2>3. down'[n + (k - n)] = more[k - n]
    BY <1>3, <2>2
  <2> QED
    BY <1>3, <2>1, <2>2, <2>3
<1>5. \A k \in DOMAIN down : k \in DOMAIN down' /\ down'[k] = down[k]
  BY <1>3
<1>6. \A k \in DOMAIN down' : k \notin DOMAIN down =>
         (\A j \in DOMAIN down : j < k) /\ down'[k].msg \in M
  <2> SUFFICES ASSUME NEW k \in DOMAIN down', k \notin DOMAIN down
               PROVE  (\A j \in DOMAIN down : j < k) /\ down'[k].msg \in M
    OBVIOUS
  <2>1. k - n \in DOMAIN more /\ down'[k] = more[k - n] /\ \A j \in DOMAIN down : j < k
    BY <1>3, <1>4
  <2> QED
    BY <2>1
<1>7. ASSUME NEW m \in M PROVE \E k \in DOMAIN down' : k \notin DOMAIN down /\ down'[k].msg = m
  <2>1. PICK i \in 1 .. l : more[i].msg = m
    BY <1>3, <1>7
  <2>2. n + i \in 1 .. n + l /\ ~(n + i \in 1 .. n)
    OBVIOUS
  <2>3. down'[n + i] = more[i]
    BY <1>3
  <2> QED
    BY <1>3, <2>1, <2>2, <2>3
<1>8. ASSUME NEW j \in DOMAIN down', NEW k \in DOMAIN down',
             j \notin DOMAIN down, k \notin DOMAIN down, down'[j].msg = down'[k].msg
      PROVE  j = k
  <2>1. /\ j - n \in DOMAIN more /\ down'[j] = more[j - n]
        /\ k - n \in DOMAIN more /\ down'[k] = more[k - n]
    BY <1>3, <1>4, <1>8
  <2>2. PICK a, b : a = j - n /\ b = k - n
    OBVIOUS
  <2>3. a = b
    BY <1>8, <2>1, <2>2
  <2>4. j \in Nat /\ k \in Nat
    BY <1>3
  <2> QED
    BY <2>2, <2>3, <2>4
<1> QED
  BY <1>5, <1>6, <1>7, <1>8 DEF Grows

LEMMA GrowsOne ==
  ASSUME down \in Seq(DownChunks), NEW c \in DownChunks, down' = down \o <<c>>
  PROVE  Grows({c.msg})
<1>1. PICK more : more = <<c>>
  OBVIOUS
<1>2. more \in Seq(DownChunks) /\ DOMAIN more = {1} /\ more[1] = c
  <2>1. more \in Seq(DownChunks) /\ Len(more) = 1 /\ more[1] = c
    BY <1>1
  <2>2. DOMAIN more = {1}
    BY <2>1
  <2> QED
    BY <2>1, <2>2
<1>3. {c.msg} = {more[i].msg : i \in DOMAIN more}
  BY <1>2
<1>4. \A i, j \in DOMAIN more : more[i].msg = more[j].msg => i = j
  BY <1>2
<1> QED
  BY <1>1, <1>2, <1>3, <1>4, GrowsBy

\* The one chunk is written behind what is there.
Adds(c) == Grows({c.msg}) /\ \A k \in DOMAIN down' : k \notin DOMAIN down => down'[k] = c

LEMMA AddsOne ==
  ASSUME down \in Seq(DownChunks), NEW c \in DownChunks, down' = down \o <<c>>
  PROVE  Adds(c)
<1>1. Grows({c.msg})
  BY GrowsOne
<1>2. PICK n \in Nat : n = Len(down)
  OBVIOUS
<1>3. DOMAIN down = 1 .. n /\ DOMAIN down' = 1 .. n + 1 /\ down'[n + 1] = c
  BY <1>2
<1>4. \A k \in 1 .. n + 1 : k \notin 1 .. n => k = n + 1
  OBVIOUS
<1> QED
  BY <1>1, <1>3, <1>4 DEF Adds

LEMMA ShiftsBy ==
  ASSUME down \in Seq(DownChunks), down # <<>>, down' = Tail(down)
  PROVE  Shifts
<1>1. PICK n \in Nat : n = Len(down)
  OBVIOUS
<1>2. n >= 1 /\ DOMAIN down = 1 .. n
  BY <1>1
<1>3. DOMAIN down' = 1 .. n - 1 /\ \A k \in 1 .. n - 1 : down'[k] = down[k + 1]
  <2>1. down' \in Seq(DownChunks) /\ Len(down') = n - 1
    BY <1>1
  <2>2. DOMAIN down' = 1 .. n - 1
    BY <2>1
  <2>3. \A k \in 1 .. n - 1 : down'[k] = down[k + 1]
    BY <1>1
  <2> QED
    BY <2>2, <2>3
<1>4. \A k \in DOMAIN down' : k \in Nat \ {0} /\ k + 1 \in DOMAIN down /\ down'[k] = down[k + 1]
  BY <1>2, <1>3
<1>5. ASSUME NEW k \in DOMAIN down, k # 1 PROVE k - 1 \in DOMAIN down' /\ down'[k - 1] = down[k]
  <2>1. k - 1 \in 1 .. n - 1 /\ k - 1 + 1 = k
    BY <1>2, <1>5
  <2>2. down'[k - 1] = down[k - 1 + 1]
    BY <1>3, <2>1
  <2> QED
    BY <1>3, <2>1, <2>2
<1> QED
  BY <1>2, <1>4, <1>5 DEF Shifts

-----------------------------------------------------------------------------
(* What the server writes for a command.                                       *)

LEMMA AnswerFacts ==
  /\ \A n, name, len : LET m == Command("_result", n, Result(name), len) IN
       m.type = "command" /\ TurnOf(m) = n
  /\ \A n, code : LET m == StatusMessage(n, code) IN m.type = "command" /\ TurnOf(m) = n
<1>1. ASSUME NEW n, NEW name, NEW len
      PROVE  LET m == Command("_result", n, Result(name), len) IN m.type = "command" /\ TurnOf(m) = n
  <2>1. PICK rest \in {<<Single("code", Str("Success"))>>, <<Nil, Num(0)>>, <<Nil, Nil>>} : rest = Result(name)
    BY DEF Result
  <2>2. Command("_result", n, Result(name), len)
          = [type |-> "command", len |-> len, values |-> <<Str("_result"), Num(n)>> \o rest]
    BY <2>1 DEF Command
  <2> DEFINE v == <<Str("_result"), Num(n)>> \o rest
  <2>3. v[2] = Num(n)
    BY <2>1
  <2> HIDE DEF v
  <2>4. Command("_result", n, Result(name), len) = [type |-> "command", len |-> len, values |-> v]
    BY <2>2 DEF v
  <2> QED
    BY <2>3, <2>4 DEF TurnOf, Num
<1>2. ASSUME NEW n, NEW code
      PROVE  LET m == StatusMessage(n, code) IN m.type = "command" /\ TurnOf(m) = n
  <2>1. StatusMessage(n, code)
          = [type |-> "command", len |-> 2,
             values |-> <<Str("onStatus"), Num(n)>> \o <<Nil, Single("code", Str(code))>>]
    BY DEF StatusMessage, Command, Status
  <2> DEFINE v == <<Str("onStatus"), Num(n)>> \o <<Nil, Single("code", Str(code))>>
  <2>2. v[2] = Num(n)
    OBVIOUS
  <2> HIDE DEF v
  <2>3. StatusMessage(n, code) = [type |-> "command", len |-> 2, values |-> v]
    BY <2>1 DEF v
  <2> QED
    BY <2>2, <2>3 DEF TurnOf, Num
<1> QED
  BY <1>1, <1>2

NoAnswer == {"call", "close"}

\* The messages M, and what is left to be written, answer the command whose turn
\* it is.
Reply(M) ==
    /\ \A m \in M : m.type # "frame" /\ (m.type = "command" => TurnOf(m) = Turn)
    /\ \A j \in DOMAIN server'.todo : TurnOf(server'.todo[j]) = Turn
    /\ server'.todo # <<>> \/ (\E m \in M : m.type = "command") => asked[Turn] \notin NoAnswer
    /\ asked[Turn] \notin NoAnswer /\ server'.app # "none" =>
         server'.todo # <<>> \/ \E m \in M : m.type = "command"
Replies ==
    /\ TypeInv /\ Connected /\ Turn \in DOMAIN asked /\ Turn' = Turn + 1
    /\ UNCHANGED <<client, asked, answered, pulled, log>>
    /\ server.todo = <<>> /\ server.pc = "loop" /\ server'.pc \in {"loop", "ended"}
    /\ player'.todo = player.todo /\ player'.at = player.at
    /\ player'.pc = player.pc \/ (player.pc = "off" /\ player'.pc = "snapshot")
    /\ server.app = "none" => Turn = 1
    /\ \E M : Grows(M) /\ Reply(M)

\* What is written reaches a client that is still there.
LEMMA AnswerWritten ==
  ASSUME TypeInv, Connected, client.pc # "ended", server.chunk = OwnChunk,
         NEW m \in Answers, Answer(m)
  PROVE  Grows({m})
<1>1. m.len \in 1 .. 3
  BY DownwardFacts DEF Downward
<1>2. Chunks(m, server.chunk) = <<OneChunk(m)>>
  BY <1>1, OwnChunks
<1>3. "client" \notin gone /\ down \in Seq(DownChunks)
  BY DEF Connected, ClientPhase, DownInv
<1>4. PICK c : c = OneChunk(m)
  OBVIOUS
<1>5. c \in DownChunks /\ c.msg = m
  BY <1>4, OwnWrites DEF OneChunks, OneChunk
<1>6. down' = down \o <<c>>
  BY <1>2, <1>3, <1>4 DEF Answer, ServerWrites, Written
<1> QED
  BY <1>3, <1>5, <1>6, GrowsOne

\* The facts that are the same for the three kinds of command.
RepliesBut ==
    /\ TypeInv /\ Connected /\ Turn \in DOMAIN asked /\ Turn \in Txns /\ Turn' = Turn + 1
    /\ UNCHANGED <<client, asked, answered, pulled, log>>
    /\ server.todo = <<>> /\ server.pc = "loop"
    /\ server.app = "none" => Turn = 1
LEMMA RepliesTook ==
  ASSUME Took, Turn' = Turn + 1 PROVE RepliesBut
<1>1. /\ TypeInv /\ Connected /\ Turn \in DOMAIN asked /\ Turn \in Txns
      /\ UNCHANGED <<client, asked, answered, pulled, log>>
      /\ server.todo = <<>> /\ server.pc = "loop"
  BY DEF Took, clientVars, roomVars
<1>2. server.app = "none" => Turn = 1
  BY <1>1 DEF Connected, ServerPhase
<1> QED
  BY <1>1, <1>2 DEF RepliesBut

LEMMA AnswersReplies ==
  ASSUME FrameInv, ServerAnswers, client.pc # "ended" PROVE Replies
<1> DEFINE names == {"createStream", "releaseStream", "FCPublish", "receiveAudio",
                     "FCUnpublish", "pause", "seek", "deleteStream", "call", "close"}
<1>1. /\ ServerDoes(names)
      /\ server' = [server EXCEPT !.part = NoMessage] /\ player' = player
      /\ CASE Asked.name \in {"call", "close"} -> UNCHANGED <<down, torn>>
           [] Asked.name \in {"createStream", "releaseStream", "FCPublish", "receiveAudio"} ->
                Answer(Command("_result", Asked.txn, Result(Asked.name), 1))
           [] OTHER -> Answer(StatusMessage(Asked.txn, Asked.name))
  BY DEF ServerAnswers
<1>2. "error" \notin names /\ "connect" \notin names /\ "play" \notin names
  OBVIOUS
<1> HIDE DEF names
<1>3. /\ Took /\ Turn' = Turn + 1
      /\ Asked.name \in names /\ Asked.name = asked[Turn] /\ Asked.txn = Turn
      /\ asked[Turn] \in Requests
  BY <1>1, <1>2, ServerDo
<1>4. server.app = "live" /\ server.chunk = OwnChunk
  BY <1>2, <1>3, InUse
<1>5. RepliesBut
  BY <1>3, RepliesTook
<1>6. server'.todo = <<>> /\ server'.pc = "loop" /\ server'.app = "live"
  BY <1>1, <1>4, <1>5 DEF RepliesBut, TypeInv, ServerType
<1>7. \E M : Grows(M) /\ Reply(M)
  <2>1. CASE Asked.name \in {"call", "close"}
    <3>1. Grows({})
      BY <1>1, <2>1, GrowsNot
    <3>2. Reply({})
      BY <1>3, <1>6, <2>1 DEF Reply, NoAnswer
    <3> QED
      BY <3>1, <3>2
  <2>2. ASSUME NEW m \in Answers, Answer(m), m.type = "command", TurnOf(m) = Turn,
               Asked.name \notin {"call", "close"}
        PROVE  \E M : Grows(M) /\ Reply(M)
    <3>1. Grows({m})
      BY <1>4, <1>5, <2>2, AnswerWritten DEF RepliesBut
    <3>2. Reply({m})
      BY <1>3, <1>6, <2>2 DEF Reply, NoAnswer
    <3> QED
      BY <3>1, <3>2
  <2>3. CASE Asked.name \in {"createStream", "releaseStream", "FCPublish", "receiveAudio"}
    <3> DEFINE m == Command("_result", Turn, Result(Asked.name), 1)
    <3>1. Answer(m)
      BY <1>1, <1>3, <2>3
    <3>2. m \in Answers
      BY <1>3, <1>5, Messages DEF RepliesBut
    <3>3. m.type = "command" /\ TurnOf(m) = Turn
      BY AnswerFacts
    <3> HIDE DEF m
    <3> QED
      BY <2>2, <2>3, <3>1, <3>2, <3>3
  <2>4. CASE Asked.name \notin {"call", "close", "createStream", "releaseStream", "FCPublish", "receiveAudio"}
    <3> DEFINE m == StatusMessage(Turn, Asked.name)
    <3>1. Answer(m)
      BY <1>1, <1>3, <2>4
    <3>2. m \in Answers
      <4>1. Asked.name \in OtherCommands
        BY <1>2, <1>3, <2>4 DEF Requests
      <4> QED
        BY <1>5, <4>1, Messages DEF RepliesBut
    <3>3. m.type = "command" /\ TurnOf(m) = Turn
      BY AnswerFacts
    <3> HIDE DEF m
    <3> QED
      BY <2>2, <2>4, <3>1, <3>2, <3>3
  <2> QED
    BY <2>1, <2>3, <2>4
<1> QED
  BY <1>1, <1>5, <1>6, <1>7 DEF Replies, RepliesBut

LEMMA PlaysReplies ==
  ASSUME FrameInv, ServerPlays, client.pc # "ended" PROVE Replies
<1>1. ServerDoes({"play"})
  BY DEF ServerPlays
<1>2. "error" \notin {"play"}
  OBVIOUS
<1>3. /\ Took /\ Turn' = Turn + 1
      /\ Asked.name = "play" /\ Asked.txn = Turn /\ asked[Turn] = "play"
  BY <1>1, <1>2, ServerDo
<1>4. server.app = "live" /\ server.chunk = OwnChunk
  BY <1>3, InUse
<1>5. RepliesBut
  BY <1>3, RepliesTook
<1>6. player.pc = "off"
  <2>1. DOMAIN asked = 1 .. Len(asked) /\ Len(asked) \in Nat /\ Connected /\ Turn \in DOMAIN asked
    BY <1>5 DEF RepliesBut, TypeInv, AskedType
  <2>2. Turn = 3
    <3>1. "play" \notin OtherCommands
      BY PullAssumption DEF PullAssumption
    <3> QED
      BY <1>3, <2>1, <3>1 DEF Connected, ClientPhase, Opening
  <2> QED
    BY <2>1, <2>2 DEF Connected, ServerPhase
<1>7. CASE upstream = "open"
  <2> DEFINE todo == [i \in 1 .. 4 |-> StatusMessage(Turn, PlayStatuses[i])]
  <2>1. /\ server' = [server EXCEPT !.part = NoMessage, !.todo = todo]
        /\ player' = [player EXCEPT !.pc = "snapshot"] /\ down' = down
    BY <1>3, <1>4, <1>7 DEF ServerPlays
  <2>2. todo # <<>> /\ \A j \in DOMAIN todo : TurnOf(todo[j]) = Turn
    <3>1. DOMAIN todo = 1 .. 4 /\ Len(todo) = 4
      OBVIOUS
    <3>2. \A j \in 1 .. 4 : TurnOf(StatusMessage(Turn, PlayStatuses[j])) = Turn
      BY AnswerFacts
    <3>3. todo # <<>>
      BY <3>1
    <3> QED
      BY <3>1, <3>2, <3>3
  <2> HIDE DEF todo
  <2>3. server'.pc = "loop" /\ server'.app = "live" /\ server'.todo = todo
    BY <1>4, <1>5, <2>1 DEF RepliesBut, TypeInv, ServerType
  <2>4. player'.pc = "snapshot" /\ player'.todo = player.todo /\ player'.at = player.at
    BY <1>5, <2>1 DEF RepliesBut, TypeInv, PlayerType
  <2>5. Grows({}) /\ Reply({})
    BY <1>3, <2>1, <2>2, <2>3, GrowsNot DEF Reply, NoAnswer
  <2> QED
    BY <1>5, <1>6, <2>3, <2>4, <2>5 DEF Replies, RepliesBut
<1>8. CASE upstream # "open"
  <2> DEFINE m == StatusMessage(Turn, "Play.StreamNotFound")
  <2>1. server' = [server EXCEPT !.part = NoMessage] /\ Answer(m) /\ player' = player
    BY <1>3, <1>4, <1>8 DEF ServerPlays
  <2>2. m \in Answers
    BY <1>5, Messages DEF RepliesBut
  <2>3. m.type = "command" /\ TurnOf(m) = Turn
    BY AnswerFacts
  <2> HIDE DEF m
  <2>4. server'.pc = "loop" /\ server'.app = "live" /\ server'.todo = <<>>
    BY <1>4, <1>5, <2>1 DEF RepliesBut, TypeInv, ServerType
  <2>5. Grows({m})
    BY <1>4, <1>5, <2>1, <2>2, AnswerWritten DEF RepliesBut
  <2>6. Reply({m})
    BY <1>3, <2>3, <2>4 DEF Reply, NoAnswer
  <2> QED
    BY <1>5, <2>1, <2>4, <2>5, <2>6 DEF Replies, RepliesBut
<1> QED
  BY <1>7, <1>8

LEMMA ConnectsReplies ==
  ASSUME FrameInv, ServerConnects, client.pc # "ended" PROVE Replies
<1>1. /\ ServerDoes({"connect"}) /\ player' = player
      /\ IF Asked.object.f["app"].v = "live"
         THEN /\ server' = [server EXCEPT !.part = NoMessage, !.app = "live", !.chunk = OwnChunk]
              /\ ServerWrites(Chunks(Control("windowAckSize"), OwnChunk)
                         \o Chunks(Control("setPeerBandwidth"), OwnChunk)
                         \o Chunks(Control("setChunkSize"), OwnChunk)
                         \o Chunks(Control("streamBegin"), OwnChunk)
                         \o Chunks(Command("_result", Asked.txn, Result("connect"), 2), OwnChunk))
         ELSE server' = [server EXCEPT !.pc = "ended"] /\ down' = down
  BY DEF ServerConnects
<1>2. "error" \notin {"connect"}
  OBVIOUS
<1>3. /\ Took /\ Turn' = Turn + 1
      /\ Asked.name = "connect" /\ Asked.txn = Turn /\ asked[Turn] = "connect"
      /\ Asked.object.f["app"].v = client.app
  BY <1>1, <1>2, ServerDo
<1>4. RepliesBut
  BY <1>3, RepliesTook
<1>5. CASE client.app # "live"
  <2>1. server' = [server EXCEPT !.pc = "ended"] /\ down' = down /\ server.app = "none"
    BY <1>1, <1>3, <1>4, <1>5 DEF RepliesBut, Connected, ServerPhase, TypeInv, ServerType
  <2>2. server'.pc = "ended" /\ server'.app = "none" /\ server'.todo = <<>>
    BY <1>4, <2>1 DEF RepliesBut, TypeInv, ServerType
  <2>3. Grows({}) /\ Reply({})
    BY <2>1, <2>2, GrowsNot DEF Reply
  <2> QED
    BY <1>1, <1>4, <2>2, <2>3 DEF Replies, RepliesBut
<1>6. CASE client.app = "live"
  <2> DEFINE w == Control("windowAckSize")
             b == Control("setPeerBandwidth")
             s == Control("setChunkSize")
             g == Control("streamBegin")
             r == Command("_result", Turn, Result("connect"), 2)
             all == <<OneChunk(w)>> \o <<OneChunk(b)>> \o <<OneChunk(s)>> \o <<OneChunk(g)>> \o <<OneChunk(r)>>
  <2>1. {w, b, s, g, r} \subseteq Answers \cup Controls
    <3>1. "connect" \in Requests
      BY DEF Requests
    <3> QED
      BY <1>4, <3>1, Messages DEF ControlTypes, RepliesBut
  <2>2. /\ w.len = 1 /\ b.len = 1 /\ s.len = 1 /\ g.len = 1 /\ r.len = 2
        /\ w.type = "windowAckSize" /\ b.type = "setPeerBandwidth" /\ s.type = "setChunkSize"
        /\ g.type = "streamBegin" /\ r.type = "command"
    BY DEF Control, Command
  <2>3. TurnOf(r) = Turn
    BY AnswerFacts
  <2> HIDE DEF w, b, s, g, r
  <2>4. PICK more : more = all
    OBVIOUS
  <2>5. /\ more \in Seq(OneChunks) /\ Len(more) = 5 /\ more[1] = OneChunk(w) /\ more[2] = OneChunk(b)
        /\ more[3] = OneChunk(s) /\ more[4] = OneChunk(g) /\ more[5] = OneChunk(r)
    <3>1. \A m \in {w, b, s, g, r} : OneChunk(m) \in OneChunks
      BY <2>1 DEF OneChunks
    <3>2. OneChunk(w) \in OneChunks /\ OneChunk(b) \in OneChunks /\ OneChunk(s) \in OneChunks
          /\ OneChunk(g) \in OneChunks /\ OneChunk(r) \in OneChunks
      BY <3>1
    <3> QED
      BY <2>4, <3>2, FiveJoined
  <2> HIDE DEF all
  <2>6. server' = [server EXCEPT !.part = NoMessage, !.app = "live", !.chunk = OwnChunk]
        /\ Written(more)
    <3>1. Written(Chunks(w, OwnChunk) \o Chunks(b, OwnChunk) \o Chunks(s, OwnChunk) \o Chunks(g, OwnChunk)
                  \o Chunks(r, OwnChunk))
      BY <1>1, <1>3, <1>6 DEF w, b, s, g, r, ServerWrites
    <3>2. /\ Chunks(w, OwnChunk) = <<OneChunk(w)>> /\ Chunks(b, OwnChunk) = <<OneChunk(b)>>
          /\ Chunks(s, OwnChunk) = <<OneChunk(s)>> /\ Chunks(g, OwnChunk) = <<OneChunk(g)>>
          /\ Chunks(r, OwnChunk) = <<OneChunk(r)>>
      BY <2>2, OwnChunks
    <3>3. Written(all)
      BY <3>1, <3>2 DEF all
    <3> QED
      BY <1>1, <1>3, <1>6, <2>4, <3>3
  <2>7. server'.pc = "loop" /\ server'.app = "live" /\ server'.todo = <<>>
    BY <1>4, <2>6 DEF RepliesBut, TypeInv, ServerType
  <2>8. down' = down \o more /\ down \in Seq(DownChunks) /\ more \in Seq(DownChunks)
    <3>1. "client" \notin gone /\ down \in Seq(DownChunks)
      BY <1>4 DEF RepliesBut, Connected, ClientPhase, DownInv
    <3> QED
      BY <2>5, <2>6, <3>1, OwnSequence DEF Written
  <2>9. /\ more[1].msg = w /\ more[2].msg = b /\ more[3].msg = s /\ more[4].msg = g /\ more[5].msg = r
        /\ DOMAIN more = 1 .. 5
    BY <2>5 DEF OneChunk
  <2>10. PICK M : M = {more[i].msg : i \in DOMAIN more}
    OBVIOUS
  <2>11. \A i \in DOMAIN more : i = 1 \/ i = 2 \/ i = 3 \/ i = 4 \/ i = 5
    BY <2>9
  <2>12. \A i, j \in DOMAIN more : more[i].msg = more[j].msg => i = j
    BY <2>2, <2>9, <2>11
  <2>13. Grows(M)
    BY <2>8, <2>10, <2>12, GrowsBy
  <2>14. r \in M /\ \A m \in M : m.type = "command" => m = r
    <3>1. 5 \in DOMAIN more
      BY <2>9
    <3>2. \A i \in DOMAIN more : more[i].msg.type = "command" => more[i].msg = r
      BY <2>2, <2>9, <2>11
    <3> QED
      BY <2>9, <2>10, <3>1, <3>2
  <2>15. \A m \in M : m.type # "frame"
    <3>1. \A i \in DOMAIN more : more[i].msg.type # "frame"
      BY <2>2, <2>9, <2>11
    <3> QED
      BY <2>10, <3>1
  <2>16. Reply(M)
    BY <1>3, <2>2, <2>3, <2>7, <2>14, <2>15 DEF Reply, NoAnswer
  <2> QED
    BY <1>1, <1>4, <2>7, <2>13, <2>16 DEF Replies, RepliesBut
<1> QED
  BY <1>5, <1>6

-----------------------------------------------------------------------------
(* The answers stay in order.                                                  *)

LEMMA AnswerTypes ==
  ASSUME TypeInv
  PROVE  /\ Owed \subseteq Nat \ {0} /\ Owed \subseteq DOMAIN asked
         /\ LastAnswered \in Nat /\ (answered = <<>> => LastAnswered = 0)
<1>1. answered \in Seq(Nat) /\ DOMAIN asked = 1 .. Len(asked) /\ Len(asked) \in Nat
  BY DEF TypeInv, PulledType, AskedType
<1>2. LastAnswered \in Nat
  <2>1. CASE answered # <<>>
    <3>1. Len(answered) \in 1 .. Len(answered)
      BY <1>1, <2>1
    <3> QED
      BY <1>1, <2>1, <3>1 DEF LastAnswered
  <2>2. CASE answered = <<>>
    BY <2>2 DEF LastAnswered
  <2> QED
    BY <2>1, <2>2
<1> QED
  BY <1>1, <1>2 DEF Owed, LastAnswered

LEMMA TurnTypes ==
  ASSUME TypeInv, UpInv
  PROVE  Turn \in Nat \ {0} /\ Turn <= Len(asked) + 1 /\ Len(asked) \in Nat
<1>1. DOMAIN asked = 1 .. Len(asked) /\ Len(asked) \in Nat
  BY DEF TypeInv, AskedType
<1>2. CASE up = <<>>
  BY <1>1, <1>2 DEF Turn
<1>3. CASE up # <<>>
  BY <1>1, <1>3, UpHead
<1> QED
  BY <1>2, <1>3

\* What the client has heard stays, as long as it hears no more.
LEMMA ToldStays ==
  ASSUME Told, answered' = answered, Owed \subseteq Owed',
         \A n \in Owed' : n <= LastAnswered => n \in Owed
  PROVE  Told'
<1>1. LastAnswered' = LastAnswered
  BY DEF LastAnswered
<1> QED
  BY <1>1 DEF Told

\* A step that writes the messages M: the commands among them answer what has
\* just been read, and what has just been read is answered, or will be.
Follows(M) ==
    /\ Grows(M) /\ DOMAIN down' \subseteq Nat /\ answered' = answered
    /\ Turn' \in {Turn, Turn + 1}
    /\ Owed' \subseteq Nat \ {0} /\ Owed \subseteq Owed'
    /\ \A n \in Owed' : n < Turn => n \in Owed
    /\ \A m \in M : m.type = "command" => TurnOf(m) = Turn' - 1 /\ TurnOf(m) \in Owed'
    /\ StatusesFit'
    /\ server.app = "none" => server'.app = "none" \/ Turn = 1
    /\ server.todo # <<>> => \/ server'.todo # <<>> /\ Turn' = Turn
                             \/ \E m \in M : m.type = "command" /\ TurnOf(m) = Turn - 1
    /\ Turn' # Turn /\ Turn \in Owed' /\ server'.app # "none" =>
         server'.todo # <<>> \/ \E m \in M : m.type = "command"

LEMMA FollowsInTurn ==
  ASSUME TypeInv, UpInv, InTurn, NEW M, Follows(M)
  PROVE  InTurn'
<1>1. /\ Turn \in Nat \ {0} /\ LastAnswered \in Nat /\ Owed \subseteq Nat \ {0}
      /\ LastAnswered' = LastAnswered /\ LastAnswered < Turn
      /\ Turn' \in {Turn, Turn + 1} /\ Owed' \subseteq Nat \ {0} /\ Owed \subseteq Owed'
  BY AnswerTypes, TurnTypes DEF Follows, InTurn, LastAnswered
<1>2. LastAnswered' < Turn'
  BY <1>1
<1>3. /\ \A k \in DOMAIN down : k \in DOMAIN down' /\ down'[k] = down[k]
      /\ \A k \in DOMAIN down' : k \notin DOMAIN down =>
           (\A j \in DOMAIN down : j < k) /\ down'[k].msg \in M
      /\ \A m \in M : \E k \in DOMAIN down' : down'[k].msg = m
  BY DEF Follows, Grows
<1>4. ASSUME NEW k \in DOMAIN down', IsAnswer(k)'
      PROVE  \/ k \in DOMAIN down /\ IsAnswer(k) /\ TxnAt(k)' = TxnAt(k)
             \/ k \notin DOMAIN down /\ TxnAt(k)' = Turn' - 1 /\ TxnAt(k)' \in Owed'
  <2>1. CASE k \in DOMAIN down
    BY <1>3, <1>4, <2>1 DEF IsAnswer, TxnAt
  <2>2. CASE k \notin DOMAIN down
    BY <1>3, <1>4, <2>2 DEF IsAnswer, TxnAt, Follows
  <2> QED
    BY <2>1, <2>2
<1>5. \A k \in DOMAIN down : IsAnswer(k) => AnswerFits(k)
  BY DEF InTurn, Coming
<1>6. ASSUME NEW k \in DOMAIN down', IsAnswer(k)' PROVE AnswerFits(k)'
  <2>1. CASE k \in DOMAIN down /\ IsAnswer(k) /\ TxnAt(k)' = TxnAt(k)
    <3>1. TxnAt(k) \in Owed /\ LastAnswered <= TxnAt(k) /\ TxnAt(k) < Turn
      BY <1>5, <2>1 DEF AnswerFits
    <3>2. PICK a \in Nat, b \in Nat, t \in Nat : a = TxnAt(k) /\ b = LastAnswered /\ t = Turn
      BY <1>1, <3>1
    <3>3. a < Turn'
      BY <1>1, <3>1, <3>2
    <3>4. TxnAt(k)' \in Owed' /\ LastAnswered' <= TxnAt(k)' /\ TxnAt(k)' < Turn'
      BY <1>1, <2>1, <3>1, <3>2, <3>3
    <3> QED
      BY <3>4 DEF AnswerFits
  <2>2. CASE TxnAt(k)' = Turn' - 1 /\ TxnAt(k)' \in Owed'
    <3>1. PICK b \in Nat, t \in Nat : b = LastAnswered /\ t = Turn'
      BY <1>1
    <3>2. b < t
      BY <1>1, <3>1
    <3>3. b <= t - 1 /\ t - 1 < t
      <4>1. \A x, y \in Nat : x < y => x <= y - 1 /\ y - 1 < y
        OBVIOUS
      <4> QED
        BY <3>2, <4>1
    <3>4. LastAnswered' = b /\ Turn' = t /\ TxnAt(k)' = t - 1
      BY <1>1, <2>2, <3>1
    <3> QED
      BY <2>2, <3>3, <3>4 DEF AnswerFits
  <2> QED
    BY <1>4, <1>6, <2>1, <2>2
<1>7. ASSUME NEW j \in DOMAIN down', NEW k \in DOMAIN down', j < k, IsAnswer(j)', IsAnswer(k)'
      PROVE  TxnAt(j)' <= TxnAt(k)'
  <2>1. CASE k \in DOMAIN down /\ IsAnswer(k) /\ TxnAt(k)' = TxnAt(k)
    <3>1. j \in DOMAIN down
      <4>1. j \notin DOMAIN down => k < j
        BY <1>3, <2>1
      <4>2. j \in Nat /\ k \in Nat
        BY <1>7 DEF Follows
      <4> QED
        BY <1>7, <4>1, <4>2
    <3>2. IsAnswer(j) /\ TxnAt(j)' = TxnAt(j)
      BY <1>4, <1>7, <3>1
    <3> QED
      BY <1>7, <2>1, <3>1, <3>2 DEF InTurn, Coming
  <2>2. CASE TxnAt(k)' = Turn' - 1
    <3>1. TxnAt(j)' < Turn' /\ TxnAt(j)' \in Nat
      BY <1>1, <1>6, <1>7 DEF AnswerFits
    <3> QED
      BY <1>1, <2>2, <3>1
  <2> QED
    BY <1>4, <1>7, <2>1, <2>2
<1>8. Coming'
  BY <1>6, <1>7 DEF Coming
<1>9. ASSUME NEW n \in Owed', n < Turn', server'.app # "none" PROVE Reached(n)'
  <2>1. ASSUME NEW m \in M, m.type = "command", TurnOf(m) = n PROVE Reached(n)'
    <3>1. PICK k \in DOMAIN down' : down'[k].msg = m
      BY <1>3, <2>1
    <3> QED
      BY <2>1, <3>1 DEF Reached, OnTheWay, IsAnswer, TxnAt
  <2>2. CASE n < Turn
    <3>1. n \in Owed /\ n \in Nat \ {0}
      BY <1>1, <1>9, <2>2 DEF Follows
    <3>2. server.app # "none"
      BY <1>1, <1>9, <2>2, <3>1 DEF Follows
    <3>3. Reached(n)
      BY <2>2, <3>1, <3>2 DEF InTurn, AllReached
    <3>4. CASE n <= LastAnswered
      BY <1>1, <3>4 DEF Reached
    <3>5. CASE OnTheWay(n)
      <4>1. PICK k \in DOMAIN down : IsAnswer(k) /\ TxnAt(k) = n
        BY <3>5 DEF OnTheWay
      <4>2. k \in DOMAIN down' /\ IsAnswer(k)' /\ TxnAt(k)' = n
        BY <1>3, <4>1 DEF IsAnswer, TxnAt
      <4> QED
        BY <4>2 DEF Reached, OnTheWay
    <3>6. CASE server.todo # <<>> /\ n = Turn - 1
      <4>1. CASE server'.todo # <<>> /\ Turn' = Turn
        BY <3>6, <4>1 DEF Reached
      <4>2. CASE \E m \in M : m.type = "command" /\ TurnOf(m) = Turn - 1
        BY <2>1, <3>6, <4>2
      <4> QED
        BY <3>6, <4>1, <4>2 DEF Follows
    <3> QED
      BY <3>3, <3>4, <3>5, <3>6 DEF Reached
  <2>3. CASE ~(n < Turn)
    <3>1. n = Turn /\ Turn' = Turn + 1 /\ Turn' # Turn
      BY <1>1, <1>9, <2>3
    <3>2. CASE server'.todo # <<>>
      <4>1. n = Turn' - 1
        BY <1>1, <3>1
      <4> QED
        BY <3>2, <4>1 DEF Reached
    <3>3. CASE \E m \in M : m.type = "command"
      <4>1. PICK m \in M : m.type = "command"
        BY <3>3
      <4>2. TurnOf(m) = n
        BY <1>1, <3>1, <4>1 DEF Follows
      <4> QED
        BY <2>1, <4>1, <4>2
    <3> QED
      BY <1>9, <3>1, <3>2, <3>3 DEF Follows
  <2> QED
    BY <2>2, <2>3
<1>10. AllReached'
  BY <1>9 DEF AllReached
<1>11. StatusesFit'
  BY DEF Follows
<1> QED
  BY <1>2, <1>8, <1>10, <1>11 DEF InTurn

\* A step in which the client takes a chunk, and hears the answer in it.
Hears ==
    /\ Shifts /\ server' = server /\ server.app # "none" /\ Turn' = Turn
    /\ Owed \subseteq Owed' /\ Owed' \subseteq Nat \ {0}
    /\ \A n \in Owed' : n < Turn => n \in Owed
    /\ IF ~IsAnswer(1) \/ (answered # <<>> /\ LastAnswered = TxnAt(1)) THEN answered' = answered
       ELSE answered' = Append(answered, TxnAt(1))

LEMMA HeardLast ==
  ASSUME TypeInv, UpInv, InTurn, Hears
  PROVE  /\ LastAnswered \in Nat /\ LastAnswered' \in Nat /\ Turn \in Nat
         /\ LastAnswered <= LastAnswered' /\ LastAnswered' < Turn
         /\ IF IsAnswer(1) THEN LastAnswered' = TxnAt(1) /\ AnswerFits(1)
            ELSE answered' = answered /\ LastAnswered' = LastAnswered
<1>1. /\ LastAnswered \in Nat /\ Turn \in Nat \ {0} /\ LastAnswered < Turn /\ Owed \subseteq Nat \ {0}
      /\ 1 \in DOMAIN down /\ answered \in Seq(Nat) /\ (answered = <<>> => LastAnswered = 0)
  BY AnswerTypes, TurnTypes DEF Hears, InTurn, Shifts, TypeInv, PulledType
<1>2. IsAnswer(1) => AnswerFits(1) /\ TxnAt(1) \in Nat \ {0}
  BY <1>1 DEF InTurn, Coming, AnswerFits
<1>3. CASE answered' = answered
  <2>1. LastAnswered' = LastAnswered
    BY <1>3 DEF LastAnswered
  <2>2. IsAnswer(1) => LastAnswered = TxnAt(1)
    <3> SUFFICES ASSUME IsAnswer(1), LastAnswered # TxnAt(1) PROVE FALSE
      OBVIOUS
    <3>1. answered' = Append(answered, TxnAt(1))
      BY DEF Hears
    <3>2. Len(Append(answered, TxnAt(1))) = Len(answered) + 1 /\ Len(answered) \in Nat
      BY <1>1, <1>2
    <3> QED
      BY <1>3, <3>1, <3>2
  <2> QED
    BY <1>1, <1>2, <1>3, <2>1, <2>2
<1>4. CASE answered' # answered
  <2>1. IsAnswer(1) /\ answered' = Append(answered, TxnAt(1))
    BY <1>4 DEF Hears
  <2>2. PICK n \in Nat \ {0} : n = TxnAt(1) /\ LastAnswered <= n /\ n < Turn
    BY <1>2, <2>1 DEF AnswerFits
  <2>3. answered' # <<>> /\ answered'[Len(answered')] = n
    <3>1. answered' = Append(answered, n)
      BY <2>1, <2>2
    <3>2. Len(answered') = Len(answered) + 1 /\ Len(answered) \in Nat /\ answered'[Len(answered) + 1] = n
      BY <1>1, <3>1
    <3>3. answered' # <<>>
      BY <1>1, <3>1
    <3> QED
      BY <3>2, <3>3
  <2>4. LastAnswered' = n
    BY <2>3 DEF LastAnswered
  <2> QED
    BY <1>1, <1>2, <2>1, <2>2, <2>4
<1> QED
  BY <1>3, <1>4

LEMMA HearsTold ==
  ASSUME TypeInv, UpInv, Told, InTurn, Hears
  PROVE  Told'
<1>1. /\ LastAnswered \in Nat /\ Turn \in Nat /\ LastAnswered < Turn /\ LastAnswered' < Turn
      /\ Owed \subseteq Nat \ {0} /\ Owed \subseteq Owed' /\ Owed' \subseteq Nat \ {0}
      /\ \A n \in Owed' : n < Turn => n \in Owed
  BY AnswerTypes, HeardLast DEF Hears, InTurn
<1>2. CASE answered' = answered
  <2>1. LastAnswered' = LastAnswered
    BY <1>2 DEF LastAnswered
  <2>2. \A n \in Owed' : n <= LastAnswered => n \in Owed
    BY <1>1
  <2> QED
    BY <1>1, <1>2, <2>2, ToldStays
<1>3. CASE answered' # answered
  <2>1. /\ IsAnswer(1) /\ answered' = Append(answered, TxnAt(1))
        /\ ~(answered # <<>> /\ LastAnswered = TxnAt(1)) /\ server.app # "none"
    BY <1>3 DEF Hears
  <2>2. PICK n \in Owed : /\ n = TxnAt(1) /\ LastAnswered <= n /\ n < Turn
                          /\ LastAnswered' = n
    BY <2>1, HeardLast DEF AnswerFits
  <2>3. PICK l \in Nat : l = Len(answered)
    BY DEF TypeInv, PulledType
  <2>4. /\ answered \in Seq(Nat) /\ DOMAIN answered = 1 .. l
        /\ DOMAIN answered' = 1 .. l + 1
        /\ (\A i \in 1 .. l : answered'[i] = answered[i]) /\ answered'[l + 1] = n
    <3>1. answered \in Seq(Nat) /\ n \in Nat /\ answered' = Append(answered, n)
      BY <1>1, <2>1, <2>2 DEF TypeInv, PulledType
    <3>2. Len(answered') = l + 1 /\ answered' \in Seq(Nat)
      BY <2>3, <3>1
    <3>3. DOMAIN answered' = 1 .. l + 1 /\ DOMAIN answered = 1 .. l
      BY <2>3, <3>1, <3>2
    <3>4. (\A i \in 1 .. l : answered'[i] = answered[i]) /\ answered'[l + 1] = n
      BY <2>3, <3>1
    <3> QED
      BY <3>1, <3>3, <3>4
  <2>5. \A i \in 1 .. l : answered[i] \in Owed /\ answered[i] \in Nat /\ answered[i] < n
    <3> SUFFICES ASSUME NEW i \in 1 .. l
                 PROVE  answered[i] \in Owed /\ answered[i] \in Nat /\ answered[i] < n
      OBVIOUS
    <3>1. answered[i] \in Owed /\ answered[i] <= LastAnswered /\ answered[i] \in Nat
      BY <1>1, <2>4 DEF Told
    <3>2. answered # <<>>
      BY <2>4
    <3>3. LastAnswered < n
      BY <1>1, <2>1, <2>2, <3>2
    <3> QED
      BY <1>1, <3>1, <3>3
  <2>6. ASSUME NEW i \in DOMAIN answered', NEW j \in DOMAIN answered', i < j
        PROVE  answered'[i] < answered'[j]
    <3>1. i \in 1 .. l /\ j \in 1 .. l + 1
      BY <2>4, <2>6
    <3>2. CASE j \in 1 .. l
      BY <2>4, <2>6, <3>1, <3>2 DEF Told
    <3>3. CASE j = l + 1
      BY <2>4, <2>5, <3>1, <3>3
    <3> QED
      BY <3>1, <3>2, <3>3
  <2>7. ASSUME NEW i \in DOMAIN answered' PROVE answered'[i] \in Owed' /\ answered'[i] <= LastAnswered'
    <3>1. CASE i \in 1 .. l
      BY <1>1, <2>2, <2>4, <2>5, <3>1
    <3>2. CASE i = l + 1
      BY <1>1, <2>2, <2>4, <3>2
    <3> QED
      BY <2>4, <3>1, <3>2
  <2>8. ASSUME NEW m \in Owed', m <= LastAnswered' PROVE \E i \in DOMAIN answered' : answered'[i] = m
    <3>1. m \in Owed /\ m \in Nat /\ n \in Nat /\ m <= n /\ m < Turn
      BY <1>1, <2>2, <2>8
    <3>2. CASE m = n
      BY <2>4, <3>2
    <3>3. CASE m <= LastAnswered
      <4>1. PICK i \in DOMAIN answered : answered[i] = m
        BY <3>1, <3>3 DEF Told
      <4> QED
        BY <2>4, <4>1
    <3>4. CASE m # n /\ ~(m <= LastAnswered)
      <4>1. Reached(m)
        BY <2>1, <3>1 DEF InTurn, AllReached
      <4>2. CASE OnTheWay(m)
        <5>1. PICK k \in DOMAIN down : IsAnswer(k) /\ TxnAt(k) = m
          BY <4>2 DEF OnTheWay
        <5>2. k # 1 /\ k \in Nat /\ k >= 1 /\ 1 \in DOMAIN down
          BY <2>2, <3>4, <5>1 DEF Hears, Shifts
        <5>3. n <= m
          BY <2>1, <2>2, <5>1, <5>2 DEF InTurn, Coming
        <5> QED
          BY <3>1, <3>4, <5>3
      <4>3. CASE server.todo # <<>> /\ m = Turn - 1
        BY <1>1, <2>2, <3>1, <3>4, <4>3
      <4> QED
        BY <3>4, <4>1, <4>2, <4>3 DEF Reached
    <3> QED
      BY <3>2, <3>3, <3>4
  <2> QED
    BY <2>6, <2>7, <2>8 DEF Told
<1> QED
  BY <1>2, <1>3

LEMMA HearsInTurn ==
  ASSUME TypeInv, UpInv, InTurn, Hears
  PROVE  InTurn'
<1>1. /\ LastAnswered \in Nat /\ LastAnswered' \in Nat /\ Turn \in Nat /\ Turn' = Turn
      /\ LastAnswered <= LastAnswered' /\ LastAnswered' < Turn
      /\ Owed \subseteq Nat \ {0} /\ Owed \subseteq Owed' /\ Owed' \subseteq Nat \ {0}
      /\ \A n \in Owed' : n < Turn => n \in Owed
      /\ server' = server /\ server.app # "none"
  BY AnswerTypes, HeardLast DEF Hears
<1>2. /\ 1 \in DOMAIN down
      /\ \A k \in DOMAIN down' : k \in Nat \ {0} /\ k + 1 \in DOMAIN down /\ down'[k] = down[k + 1]
      /\ \A k \in DOMAIN down : k \in Nat /\ k >= 1
                              /\ (k # 1 => k - 1 \in DOMAIN down' /\ down'[k - 1] = down[k])
  BY DEF Hears, Shifts
<1>3. \A k \in DOMAIN down' : IsAnswer(k)' <=> IsAnswer(k + 1)
  BY <1>2 DEF IsAnswer
<1>4. \A k \in DOMAIN down' : TxnAt(k)' = TxnAt(k + 1)
  BY <1>2 DEF TxnAt
<1>5. \A k \in DOMAIN down : IsAnswer(k) => AnswerFits(k)
  BY DEF InTurn, Coming
<1>6. ASSUME NEW k \in DOMAIN down', IsAnswer(k)' PROVE AnswerFits(k)'
  <2>1. k + 1 \in DOMAIN down /\ k + 1 \in Nat /\ 1 < k + 1
    BY <1>2
  <2>2. PICK j \in DOMAIN down : j = k + 1 /\ 1 < j
    BY <2>1
  <2>3. IsAnswer(j) /\ TxnAt(k)' = TxnAt(j)
    BY <1>3, <1>4, <1>6, <2>2
  <2>4. TxnAt(j) \in Owed /\ LastAnswered <= TxnAt(j) /\ TxnAt(j) < Turn
    BY <1>5, <2>3 DEF AnswerFits
  <2>5. LastAnswered' <= TxnAt(j)
    <3>1. CASE IsAnswer(1)
      <4>1. TxnAt(1) <= TxnAt(j)
        BY <1>2, <2>2, <2>3, <3>1 DEF InTurn, Coming
      <4> QED
        BY <3>1, <4>1, HeardLast
    <3>2. CASE ~IsAnswer(1)
      BY <2>4, <3>2, HeardLast
    <3> QED
      BY <3>1, <3>2
  <2> QED
    BY <1>1, <2>3, <2>4, <2>5 DEF AnswerFits
<1>7. ASSUME NEW j \in DOMAIN down', NEW k \in DOMAIN down', j < k, IsAnswer(j)', IsAnswer(k)'
      PROVE  TxnAt(j)' <= TxnAt(k)'
  <2>1. PICK a \in DOMAIN down, b \in DOMAIN down : a = j + 1 /\ b = k + 1
    BY <1>2
  <2>2. a < b
    BY <1>2, <1>7, <2>1
  <2>3. IsAnswer(a) /\ IsAnswer(b) /\ TxnAt(j)' = TxnAt(a) /\ TxnAt(k)' = TxnAt(b)
    BY <1>3, <1>4, <1>7, <2>1
  <2> QED
    BY <2>2, <2>3 DEF InTurn, Coming
<1>8. Coming'
  BY <1>6, <1>7 DEF Coming
<1>9. ASSUME NEW n \in Owed', n < Turn' PROVE Reached(n)'
  <2>1. n \in Owed /\ n \in Nat /\ n < Turn
    BY <1>1, <1>9
  <2>2. Reached(n)
    BY <1>1, <2>1 DEF InTurn, AllReached
  <2>3. CASE n <= LastAnswered
    <3>1. n <= LastAnswered'
      BY <1>1, <2>1, <2>3
    <3> QED
      BY <3>1 DEF Reached
  <2>4. CASE OnTheWay(n)
    <3>1. PICK k \in DOMAIN down : IsAnswer(k) /\ TxnAt(k) = n
      BY <2>4 DEF OnTheWay
    <3>2. CASE k = 1
      <4>1. LastAnswered' = n
        BY <3>1, <3>2, HeardLast
      <4> QED
        BY <2>1, <4>1 DEF Reached
    <3>3. CASE k # 1
      <4>1. PICK j \in DOMAIN down' : down'[j] = down[k]
        BY <1>2, <3>3
      <4>2. IsAnswer(j)' /\ TxnAt(j)' = n
        BY <3>1, <4>1 DEF IsAnswer, TxnAt
      <4> QED
        BY <4>2 DEF Reached, OnTheWay
    <3> QED
      BY <3>2, <3>3
  <2>5. CASE server.todo # <<>> /\ n = Turn - 1
    BY <1>1, <2>5 DEF Reached
  <2> QED
    BY <2>2, <2>3, <2>4, <2>5 DEF Reached
<1>10. AllReached'
  BY <1>9 DEF AllReached
<1>11. StatusesFit'
  BY <1>1 DEF InTurn, StatusesFit
<1>12. LastAnswered' < Turn'
  BY <1>1
<1> QED
  BY <1>8, <1>10, <1>11, <1>12 DEF InTurn

\* Until the server reads the first command there is nothing to answer.
LEMMA BeginAnswers ==
  ASSUME FrameInv', server'.pc = "loop", server'.app = "none", answered' = <<>>
  PROVE  AnswersInv'
<1>1. TypeInv' /\ Connected'
  BY DEF FrameInv
<1>2. down' = <<>> /\ server'.todo = <<>> /\ Turn' = 1
  BY <1>1 DEF Connected, ServerPhase
<1>3. Owed' \subseteq Nat \ {0} /\ LastAnswered' = 0 /\ DOMAIN answered' = {}
  <2>1. DOMAIN asked' = 1 .. Len(asked') /\ Len(asked') \in Nat
    BY <1>1 DEF TypeInv, AskedType
  <2>2. DOMAIN <<>> = {}
    OBVIOUS
  <2> QED
    BY <2>1, <2>2 DEF Owed, LastAnswered
<1>4. Told'
  BY <1>3 DEF Told
<1>5. InTurn'
  <2>1. DOMAIN down' = {} /\ DOMAIN server'.todo = {}
    BY <1>2
  <2>2. Coming' /\ StatusesFit'
    BY <1>2, <2>1 DEF Coming, StatusesFit
  <2>3. LastAnswered' < Turn'
    BY <1>2, <1>3
  <2> QED
    BY <2>2, <2>3 DEF InTurn, AllReached
<1> QED
  BY <1>4, <1>5 DEF AnswersInv

LEMMA EarlyAnswers ==
  ASSUME FrameInv, FrameInv', HandshakeInv,
         \/ ClientHello \/ ServerReadsC0 \/ ServerReadsC1 \/ ClientReadsS0 \/ ClientReadsS2
         \/ ServerReadsC2
  PROVE  AnswersInv'
<1>1. Handshaking /\ server.pc \in {"c0", "c1", "c2"}
  <2>1. ~Through
    BY DEF Through, ClientHello, ServerReadsC0, ServerReadsC1, ClientReadsS0, ClientReadsS2, ServerReadsC2
  <2> QED
    BY <2>1, StillHandshaking DEF HandshakeInv
<1>2. TypeInv /\ Early /\ answered' = <<>>
  BY <1>1 DEF FrameInv, Early, ClientHello, ServerReadsC0, ServerReadsC1, ClientReadsS0, ClientReadsS2,
     ServerReadsC2, clientVars
<1>3. CASE ServerReadsC2
  <2>1. server'.pc = "loop" /\ server'.app = "none"
    BY <1>2, <1>3 DEF TypeInv, ServerType, Early, ServerReadsC2
  <2> QED
    BY <1>2, <2>1, BeginAnswers
<1>4. CASE ServerReadsC0
  <2>1. AtC0
    BY <1>1, <1>4 DEF Handshaking, Greeting, AtHello, AtC0, AtC1, AtS0, AtS1, AtC2, ServerReadsC0
  <2>2. Head(up).version = 3
    BY <2>1 DEF AtC0
  <2>3. server'.pc = "c1"
    BY <1>2, <1>4, <2>2 DEF TypeInv, ServerType, ServerReadsC0
  <2> QED
    BY <1>2, <2>3 DEF AnswersInv
<1>5. CASE ServerReadsC1
  <2>1. server'.pc = "c2"
    <3>1. PICK mode, s1 : server' = [server EXCEPT !.pc = "c2", !.mode = mode, !.s1 = s1]
      BY <1>5 DEF ServerReadsC1
    <3> QED
      BY <1>2, <3>1 DEF TypeInv, ServerType
  <2> QED
    BY <1>2, <2>1 DEF AnswersInv
<1>6. CASE ClientHello \/ ClientReadsS0 \/ ClientReadsS2
  <2>1. server'.pc \in {"c0", "c1", "c2"}
    BY <1>1, <1>6 DEF ClientHello, ClientReadsS0, ClientReadsS2
  <2> QED
    BY <1>2, <2>1 DEF AnswersInv
<1> QED
  BY <1>3, <1>4, <1>5, <1>6

\* A client that has ended hears no more.
LEMMA GoneAnswers ==
  ASSUME Told, client'.pc = "ended", asked' = asked, answered' = answered, server'.pc \in {"loop", "ended"}
  PROVE  AnswersInv'
<1>1. Owed' = Owed
  BY DEF Owed
<1>2. Told'
  BY <1>1, ToldStays
<1> QED
  BY <1>2 DEF AnswersInv

LEMMA FollowsAnswers ==
  ASSUME TypeInv, UpInv, Told, InTurn, NEW M, Follows(M), server'.pc \in {"loop", "ended"}
  PROVE  AnswersInv'
<1>1. InTurn'
  BY FollowsInTurn
<1>2. \A n \in Owed' : n <= LastAnswered => n \in Owed
  <2>1. /\ LastAnswered \in Nat /\ Turn \in Nat /\ LastAnswered < Turn /\ Owed' \subseteq Nat \ {0}
        /\ \A n \in Owed' : n < Turn => n \in Owed
    BY AnswerTypes, TurnTypes DEF Follows, InTurn
  <2> QED
    BY <2>1
<1>3. Told'
  BY <1>2, ToldStays DEF Follows
<1> QED
  BY <1>1, <1>3 DEF AnswersInv

LEMMA DownPlaces ==
  ASSUME FrameInv', server'.pc \in {"loop", "ended"}, client'.pc # "ended"
  PROVE  DOMAIN down' \subseteq Nat
<1>1. down' \in Seq(DownChunks)'
  BY DEF FrameInv, Connected, DownInv
<1>2. DOMAIN down' = 1 .. Len(down') /\ Len(down') \in Nat
  BY <1>1
<1> QED
  BY <1>2

\* A step that reads no command and writes none.
LEMMA QuietAnswers ==
  ASSUME FrameInv, FrameInv', AnswersInv, server.pc \in {"loop", "ended"}, server'.pc \in {"loop", "ended"},
         asked' = asked, answered' = answered, server'.todo = server.todo, server'.app = server.app,
         Turn' = Turn, client'.pc \in {client.pc, "ended"},
         client'.pc # "ended" => \E M : Grows(M) /\ \A m \in M : m.type # "command"
  PROVE  AnswersInv'
<1>1. TypeInv /\ Connected /\ Told /\ (client.pc # "ended" => InTurn)
  BY DEF FrameInv, AnswersInv
<1>2. CASE client'.pc = "ended"
  BY <1>1, <1>2, GoneAnswers
<1>3. CASE client'.pc # "ended"
  <2>1. PICK M : Grows(M) /\ \A m \in M : m.type # "command"
    BY <1>3
  <2>2. InTurn /\ UpInv /\ Owed \subseteq Nat \ {0} /\ Owed' = Owed
    BY <1>1, <1>3, AnswerTypes DEF Connected, Owed
  <2>3. StatusesFit'
    BY <2>2 DEF InTurn, StatusesFit
  <2>4. DOMAIN down' \subseteq Nat
    BY <1>3, DownPlaces
  <2>5. Follows(M)
    BY <2>1, <2>2, <2>3, <2>4 DEF Follows
  <2> QED
    BY <1>1, <2>2, <2>5, FollowsAnswers
<1> QED
  BY <1>2, <1>3

\* The server reads a command, and writes its answer, or has its statuses to write.
LEMMA RepliesAnswers ==
  ASSUME FrameInv, FrameInv', AnswersInv, Replies, client.pc # "ended"
  PROVE  AnswersInv'
<1>1. /\ TypeInv /\ Connected /\ Turn \in DOMAIN asked /\ Turn' = Turn + 1
      /\ client' = client /\ asked' = asked /\ answered' = answered
      /\ server.todo = <<>> /\ server.pc = "loop" /\ server'.pc \in {"loop", "ended"}
      /\ (server.app = "none" => Turn = 1)
  BY DEF Replies
<1>2. PICK M : Grows(M) /\ Reply(M)
  BY DEF Replies
<1>3. Told /\ InTurn /\ UpInv
  BY <1>1 DEF AnswersInv, Connected
<1>4. Owed \subseteq Nat \ {0} /\ Owed' = Owed /\ Turn \in Nat /\ Turn' - 1 = Turn /\ Turn' # Turn
  BY <1>1, <1>3, AnswerTypes, TurnTypes DEF Owed
<1>5. asked[Turn] \notin NoAnswer <=> Turn \in Owed
  BY <1>1 DEF NoAnswer, Owed
<1>6. StatusesFit'
  BY <1>2, <1>4, <1>5 DEF Reply, StatusesFit
<1>7. DOMAIN down' \subseteq Nat
  BY <1>1, DownPlaces
<1>8. Follows(M)
  BY <1>1, <1>2, <1>4, <1>5, <1>6, <1>7 DEF Follows, Reply
<1> QED
  BY <1>1, <1>3, <1>8, FollowsAnswers

\* One of the four statuses of `play`.
LEMMA StatusAnswers ==
  ASSUME FrameInv, FrameInv', AnswersInv, ServerSendsStatus
  PROVE  AnswersInv'
<1>1. /\ server.pc = "loop" /\ server.todo # <<>> /\ Answer(Head(server.todo))
      /\ server' = [server EXCEPT !.todo = Tail(server.todo)]
      /\ client' = client /\ asked' = asked /\ up' = up /\ answered' = answered
  BY DEF ServerSendsStatus, clientVars
<1>2. TypeInv /\ Connected /\ Told /\ (client.pc # "ended" => InTurn)
  BY <1>1 DEF FrameInv, AnswersInv
<1>3. /\ server.todo \in Seq(StatusMessages)
      /\ server'.pc = "loop" /\ server'.todo = Tail(server.todo) /\ server'.app = server.app
      /\ server.app # "none" /\ server.chunk = OwnChunk
  BY <1>1, <1>2 DEF TypeInv, ServerType, Connected, ServerPhase
<1>4. CASE client.pc = "ended"
  BY <1>1, <1>2, <1>3, <1>4, GoneAnswers
<1>5. CASE client.pc # "ended"
  <2>1. InTurn /\ UpInv /\ Owed \subseteq Nat \ {0} /\ Owed' = Owed /\ Turn' = Turn
    BY <1>1, <1>2, <1>5, AnswerTypes DEF Connected, Owed, Turn
  <2>2. PICK m \in StatusMessages : m = Head(server.todo)
    BY <1>1, <1>3
  <2>3. m.type = "command" /\ TurnOf(m) = Turn - 1 /\ Turn - 1 \in Owed
    <3>1. m = server.todo[1] /\ 1 \in DOMAIN server.todo
      BY <1>1, <1>3, <2>2
    <3>2. m.type = "command"
      BY AnswerFacts DEF StatusMessages
    <3> QED
      BY <1>1, <2>1, <3>1, <3>2 DEF InTurn, StatusesFit
  <2>4. Grows({m})
    BY <1>1, <1>2, <1>3, <1>5, <2>2, AnswerWritten, Messages
  <2>5. StatusesFit'
    <3>1. \A j \in DOMAIN server'.todo : j + 1 \in DOMAIN server.todo /\ server'.todo[j] = server.todo[j + 1]
      BY <1>1, <1>3
    <3>2. \A j \in DOMAIN server'.todo : TurnOf(server'.todo[j]) = Turn - 1
      BY <2>1, <3>1 DEF InTurn, StatusesFit
    <3> QED
      BY <2>1, <2>3, <3>2 DEF StatusesFit
  <2>6. DOMAIN down' \subseteq Nat
    BY <1>1, <1>3, <1>5, DownPlaces
  <2>7. Follows({m})
    BY <1>1, <1>3, <2>1, <2>3, <2>4, <2>5, <2>6 DEF Follows
  <2> QED
    BY <1>2, <1>3, <2>1, <2>7, FollowsAnswers
<1> QED
  BY <1>4, <1>5

\* What the goroutine of RTMPJoin writes.
LEMMA PlayerGrows ==
  ASSUME FrameInv, HandshakeInv, PlayerSteps
  PROVE  /\ TypeInv /\ Connected
         /\ UNCHANGED <<clientVars, up, gone, server, roomVars>>
         /\ \/ down' = down /\ (PlayerSendsChunk => client.pc = "ended")
            \/ client.pc = "ended"
            \/ /\ PlayerSendsChunk /\ player.todo # <<>>
               /\ Head(player.todo) \in Cuts(Media) /\ Adds(Head(player.todo))
<1>1. player.pc # "off" \/ player.todo # <<>>
  BY DEF PlayerSteps, PlayerSnapshots, PlayerSubscribes, PlayerReads, PlayerSendsChunk, PlayerEnds
<1>2. TypeInv /\ Connected
  <2>1. ~Handshaking
    BY <1>1, StillHandshaking
  <2> QED
    BY <2>1 DEF FrameInv, HandshakeInv, Through
<1>3. UNCHANGED <<clientVars, up, gone, server, roomVars>>
  BY DEF PlayerSteps, PlayerSnapshots, PlayerSubscribes, PlayerReads, PlayerSendsChunk, PlayerEnds
<1>4. CASE PlayerSendsChunk /\ client.pc # "ended"
  <2>1. player.todo # <<>> /\ Written(<<Head(player.todo)>>)
    BY <1>4 DEF PlayerSendsChunk
  <2>2. PICK c : c = Head(player.todo)
    OBVIOUS
  <2>3. c \in Cuts(Media) /\ c \in DownChunks
    <3>1. player.todo \in Seq(Cuts(Media))
      BY <1>2 DEF TypeInv, PlayerType
    <3> QED
      BY <2>1, <2>2, <3>1, OwnWrites
  <2>4. "client" \notin gone /\ down \in Seq(DownChunks)
    BY <1>2, <1>4 DEF Connected, ClientPhase, DownInv
  <2>5. down' = down \o <<c>>
    BY <2>1, <2>2, <2>4 DEF Written
  <2>6. Adds(c)
    BY <2>3, <2>4, <2>5, AddsOne
  <2> QED
    BY <1>2, <1>3, <1>4, <2>1, <2>2, <2>3, <2>6
<1>5. CASE ~PlayerSendsChunk
  <2>1. down' = down
    BY <1>5 DEF PlayerSteps, PlayerSnapshots, PlayerSubscribes, PlayerReads, PlayerEnds
  <2> QED
    BY <1>2, <1>3, <1>5, <2>1
<1> QED
  BY <1>2, <1>3, <1>4, <1>5

LEMMA PlayerAnswers ==
  ASSUME FrameInv, FrameInv', HandshakeInv, AnswersInv, PlayerSteps
  PROVE  AnswersInv'
<1>1. /\ Connected /\ server.pc \in {"loop", "ended"} /\ server' = server /\ client' = client
      /\ asked' = asked /\ answered' = answered /\ up' = up
  BY PlayerGrows DEF Connected, ServerPhase, clientVars
<1>2. Turn' = Turn
  BY <1>1 DEF Turn
<1>3. CASE down' = down
  BY <1>1, <1>2, <1>3, GrowsNot, QuietAnswers
<1>4. CASE client.pc = "ended"
  BY <1>1, <1>2, <1>4, QuietAnswers
<1>5. ASSUME NEW c \in Cuts(Media), Adds(c) PROVE AnswersInv'
  <2>1. c.msg.type # "command"
    <3>1. c.msg \in Media
      <4>1. Media \subseteq Downward
        BY DEF Downward
      <4> QED
        BY <4>1, CutFacts
    <3> QED
      BY <3>1 DEF Media, TagMessage, MetaMessage
  <2>2. Grows({c.msg})
    BY <1>5 DEF Adds
  <2> QED
    BY <1>1, <1>2, <2>1, <2>2, QuietAnswers
<1> QED
  BY <1>3, <1>4, <1>5, PlayerGrows

LEMMA ServerAnswersRest ==
  ASSUME FrameInv, FrameInv', HandshakeInv, AnswersInv, ServerReadsPart \/ ServerFails
  PROVE  AnswersInv'
<1>1. CASE ServerReadsPart
  <2>1. Took /\ Turn' = Turn /\ server' = [server EXCEPT !.part = ServerPart] /\ down' = down
    BY <1>1, ServerTake DEF ServerReadsPart, Took
  <2>2. /\ server.pc = "loop" /\ server'.pc = "loop" /\ server'.todo = server.todo /\ server'.app = server.app
        /\ client' = client /\ asked' = asked /\ answered' = answered
    BY <2>1 DEF Took, TypeInv, ServerType, clientVars
  <2> QED
    BY <2>1, <2>2, GrowsNot, QuietAnswers
<1>2. CASE ServerFails
  <2>1. server.pc \in {"loop", "ended"}
    <3>1. ~Handshaking
      BY <1>2, StillHandshaking DEF ServerFails
    <3> QED
      BY <3>1 DEF HandshakeInv, Through
  <2>2. TypeInv /\ Connected
    BY <2>1 DEF FrameInv
  <2>3. /\ server'.pc = "ended" /\ server'.todo = server.todo /\ server'.app = server.app
        /\ client' = client /\ asked' = asked /\ answered' = answered /\ down' = down /\ Turn' = Turn
    BY <1>2, <2>2 DEF ServerFails, TypeInv, ServerType, clientVars, Turn
  <2> QED
    BY <2>1, <2>3, GrowsNot, QuietAnswers
<1> QED
  BY <1>1, <1>2

\* A command that is read, whether or not there is still someone to answer.
LEMMA CommandsAnswers ==
  ASSUME FrameInv, FrameInv', HandshakeInv, AnswersInv,
         ServerConnects \/ ServerAnswers \/ ServerPlays
  PROVE  AnswersInv'
<1>1. CASE client.pc # "ended"
  BY <1>1, ConnectsReplies, AnswersReplies, PlaysReplies, RepliesAnswers
<1>2. CASE client.pc = "ended"
  <2>1. PICK names : ServerDoes(names)
    BY DEF ServerConnects, ServerAnswers, ServerPlays
  <2>2. Took
    BY <2>1, ServerTake DEF ServerDoes
  <2>3. server.pc = "loop" /\ client' = client /\ asked' = asked /\ answered' = answered
    BY <2>2 DEF Took, clientVars
  <2>4. server'.pc \in {"loop", "ended"}
    <3>1. \/ server' = [server EXCEPT !.pc = "ended"]
          \/ server' = [server EXCEPT !.part = NoMessage]
          \/ \E todo : server' = [server EXCEPT !.part = NoMessage, !.todo = todo]
          \/ \E app, chunk : server' = [server EXCEPT !.part = NoMessage, !.app = app, !.chunk = chunk]
      BY DEF ServerConnects, ServerAnswers, ServerPlays
    <3> QED
      BY <2>2, <2>3, <3>1 DEF Took, TypeInv, ServerType
  <2>5. Told
    BY <2>3 DEF AnswersInv
  <2> QED
    BY <1>2, <2>3, <2>4, <2>5, GoneAnswers
<1> QED
  BY <1>1, <1>2

LEMMA AsideAnswers ==
  ASSUME FrameInv, FrameInv', HandshakeInv, AnswersInv,
         \/ DeadlinePasses \/ ClientFails \/ PlayerLeaves \/ Collects
         \/ Publishes \/ PublishesMeta \/ PublishesFrame \/ PublisherLeaves \/ UNCHANGED vars
  PROVE  AnswersInv'
<1>1. /\ server' = server /\ asked' = asked /\ answered' = answered /\ up' = up
      /\ client' = client \/ client' = [client EXCEPT !.late = TRUE] \/ client' = [client EXCEPT !.pc = "ended"]
      /\ down' = down \/ PlayerLeaves
  BY DEF DeadlinePasses, ClientFails, PlayerLeaves, Collects, Collect, Publishes, PublishesMeta,
     PublishesFrame, PublisherLeaves, vars, clientVars
<1>2. DOMAIN client = ClientFields
  BY DEF HandshakeInv
<1>3. client'.pc \in {client.pc, "ended"} /\ Turn' = Turn
  BY <1>1, <1>2 DEF ClientFields, Turn
<1>4. down' = down \/ client'.pc = "ended"
  BY <1>1, <1>2 DEF PlayerLeaves, ClientFields
<1>5. CASE server.pc \in {"loop", "ended"}
  BY <1>1, <1>3, <1>4, <1>5, GrowsNot, QuietAnswers
<1>6. CASE server.pc \notin {"loop", "ended"}
  BY <1>1, <1>6 DEF AnswersInv
<1> QED
  BY <1>5, <1>6

\* A further command is owed an answer, after all that have been read.
LEMMA OwedGrows ==
  ASSUME TypeInv, UpInv, NEW name, NEW N, Sends(name, N)
  PROVE  /\ Turn' = Turn /\ Owed \subseteq Owed' /\ Owed' \subseteq Nat \ {0}
         /\ \A n \in Owed' : n < Turn => n \in Owed
<1>1. Turn' = Turn
  BY SendUp
<1>2. Turn \in Nat \ {0} /\ Turn <= Len(asked) + 1 /\ Len(asked) \in Nat
  BY TurnTypes
<1>3. PICK l \in Nat : l = Len(asked)
  BY <1>2
<1>4. /\ DOMAIN asked = 1 .. l /\ DOMAIN asked' = 1 .. l + 1
      /\ \A n \in 1 .. l : asked'[n] = asked[n]
  BY <1>3 DEF TypeInv, AskedType, Sends
<1>5. Owed' = {n \in DOMAIN asked' : asked'[n] \notin {"call", "close"}}
  BY DEF Owed
<1>6. \A n \in 1 .. l : n \in Owed <=> n \in Owed'
  BY <1>4, <1>5 DEF Owed
<1>7. Owed \subseteq 1 .. l /\ Owed' \subseteq 1 .. l + 1
  BY <1>4, <1>5 DEF Owed
<1>8. Owed \subseteq Owed' /\ Owed' \subseteq Nat \ {0}
  BY <1>6, <1>7
<1>9. \A n \in Owed' : n < Turn => n \in Owed
  BY <1>2, <1>3, <1>6, <1>7
<1> QED
  BY <1>1, <1>8, <1>9

\* The client takes a chunk: media, or an answer.
LEMMA TakesHears ==
  ASSUME Takes, AnswersInv, NEW name, NEW N,
         \/ asked' = asked /\ up' = up
         \/ Sends(name, N),
         IF Got.type # "command" \/ (answered # <<>> /\ LastAnswered = AnswerRead.txn)
         THEN answered' = answered ELSE answered' = Append(answered, AnswerRead.txn)
  PROVE  AnswersInv'
<1>1. /\ TypeInv /\ Connected /\ UpInv /\ down # <<>> /\ down' = Tail(down) /\ server' = server
      /\ client.pc # "ended" /\ server.app = "live" /\ Got \in Downward
      /\ down[1].msg = Got
  BY DEF Takes, TakesDown, Connected
<1>2. server.pc \in {"loop", "ended"} /\ Told /\ InTurn
  BY <1>1 DEF Connected, ServerPhase, AnswersInv
<1>3. Shifts
  <2>1. down \in Seq(DownChunks)
    BY <1>1 DEF Connected, DownInv
  <2> QED
    BY <1>1, <2>1, ShiftsBy
<1>4. IsAnswer(1) <=> Got.type = "command"
  BY <1>1 DEF IsAnswer
<1>5. Got.type = "command" => AnswerRead.txn = TxnAt(1)
  <2>1. Got.type = "command" => Got \in Answers
    BY <1>1, MediaFacts
  <2>2. TxnAt(1) = TurnOf(Got)
    BY <1>1 DEF TxnAt
  <2> QED
    BY <2>1, <2>2, AnswerSurvives DEF AnswerRead
<1>6. /\ Turn' = Turn /\ Owed \subseteq Owed' /\ Owed' \subseteq Nat \ {0}
      /\ \A n \in Owed' : n < Turn => n \in Owed
  <2>1. Owed \subseteq Nat \ {0}
    BY <1>1, AnswerTypes
  <2>2. CASE asked' = asked /\ up' = up
    BY <2>1, <2>2 DEF Turn, Owed
  <2>3. CASE Sends(name, N)
    BY <1>1, <2>3, OwedGrows
  <2> QED
    BY <2>2, <2>3
<1>7. IF ~IsAnswer(1) \/ (answered # <<>> /\ LastAnswered = TxnAt(1)) THEN answered' = answered
      ELSE answered' = Append(answered, TxnAt(1))
  BY <1>4, <1>5
<1>8. Hears
  BY <1>1, <1>3, <1>6, <1>7 DEF Hears
<1>9. Told' /\ InTurn'
  BY <1>1, <1>2, <1>8, HearsTold, HearsInTurn
<1> QED
  BY <1>1, <1>2, <1>9 DEF AnswersInv

LEMMA ClientAnswers ==
  ASSUME FrameInv, HandshakeInv, AnswersInv,
         ClientReadsControl \/ ClientReadsCommand \/ ClientReadsMedia
  PROVE  AnswersInv'
<1>1. DOMAIN client = ClientFields
  BY DEF HandshakeInv
<1>2. CASE ClientReadsControl
  <2>1. /\ ClientTakes /\ Whole(ClientPart)
        /\ UNCHANGED <<asked, answered, up>> /\ Got.type # "command"
        /\ client' = [client EXCEPT !.part = NoMessage, !.pc = AfterMessage,
                      !.chunk = IF Got.type = "setChunkSize" THEN OwnChunk ELSE client.chunk]
    BY <1>2 DEF ClientReadsControl, ClientReads
  <2>2. /\ client'.chunk = IF Got.type = "setChunkSize" THEN OwnChunk ELSE client.chunk
        /\ client'.part = IF Whole(ClientPart) THEN NoMessage ELSE ClientPart
    BY <1>1, <2>1 DEF ClientFields
  <2>3. Takes
    BY <2>1, <2>2, ClientTake
  <2> QED
    BY <2>1, <2>3, TakesHears
<1>3. CASE ClientReadsMedia
  <2>1. /\ ClientTakes /\ UNCHANGED <<asked, answered, up>> /\ Got.type \in {"meta", "frame"}
        /\ client' = IF Whole(ClientPart)
                     THEN [client EXCEPT !.part = NoMessage, !.pc = AfterMessage]
                     ELSE [client EXCEPT !.part = ClientPart]
    BY <1>3 DEF ClientReadsMedia
  <2>2. /\ client'.chunk = IF Got.type = "setChunkSize" THEN OwnChunk ELSE client.chunk
        /\ client'.part = IF Whole(ClientPart) THEN NoMessage ELSE ClientPart
    BY <1>1, <2>1 DEF ClientFields
  <2>3. Takes
    BY <2>1, <2>2, ClientTake
  <2> QED
    BY <2>1, <2>3, TakesHears
<1>4. CASE ClientReadsCommand
  <2>1. /\ ClientTakes /\ Got.type = "command" /\ Whole(ClientPart)
        /\ answered' = IF answered # <<>> /\ Last(answered) = AnswerRead.txn THEN answered
                       ELSE Append(answered, AnswerRead.txn)
        /\ asked' = asked \o NextAsked
        /\ up' = IF NextAsked = <<>> THEN up ELSE up \o Request(NextAsked[1], Len(asked) + 1)
        /\ client' = [client EXCEPT !.part = NoMessage, !.results = Counted,
                  !.pc = CASE NextAsked = <<"createStream">> -> "createStream"
                           [] NextAsked = <<"play">> -> "loop"
                           [] OTHER -> AfterMessage,
                  !.expect = Counted, !.late = IF NextAsked = <<>> THEN client.late ELSE FALSE]
    BY <1>4 DEF ClientReadsCommand, ClientReads, AnswerRead, Counted, NextAsked
  <2>2. client'.chunk = client.chunk /\ client'.app = client.app /\ client'.part = NoMessage
    BY <1>1, <2>1 DEF ClientFields
  <2>3. Takes
    BY <2>1, <2>2, ClientTake
  <2>4. IF Got.type # "command" \/ (answered # <<>> /\ LastAnswered = AnswerRead.txn)
        THEN answered' = answered ELSE answered' = Append(answered, AnswerRead.txn)
    BY <2>1 DEF LastAnswered, Last
  <2>5. asked \in Seq(Requests)
    BY <2>3 DEF Takes, TypeInv, AskedType
  <2>6. CASE NextAsked = <<>>
    <3>1. asked' = asked /\ up' = up
      BY <2>1, <2>5, <2>6
    <3> QED
      BY <2>3, <2>4, <3>1, TakesHears
  <2>7. CASE NextAsked # <<>>
    <3>1. PICK name \in {"createStream", "play"} : NextAsked = <<name>>
      BY <2>7 DEF NextAsked
    <3>2. PICK N : N = Len(asked) + 1
      OBVIOUS
    <3>3. name \in Requests
      BY DEF Requests
    <3>4. asked' = Append(asked, name)
      <4>1. asked' = asked \o <<name>>
        BY <2>1, <3>1
      <4> QED
        BY <2>5, <3>3, <4>1, AppendIsConcat
    <3>5. up' = up \o Request(name, N)
      <4>1. NextAsked[1] = name
        BY <3>1
      <4> QED
        BY <2>1, <2>7, <3>2, <4>1
    <3>6. Sends(name, N)
      BY <2>2, <3>2, <3>3, <3>4, <3>5 DEF Sends
    <3> QED
      BY <2>3, <2>4, <3>6, TakesHears
  <2> QED
    BY <2>6, <2>7
<1> QED
  BY <1>2, <1>3, <1>4

\* A further command of a player is answered after those that it has sent.
LEMMA AsksAnswers ==
  ASSUME FrameInv, FrameInv', HandshakeInv, AnswersInv, PlayerCommands
  PROVE  AnswersInv'
<1>1. PICK name \in OtherCommands :
        asked' = Append(asked, name) /\ up' = up \o Request(name, Len(asked) + 1)
  BY DEF PlayerCommands
<1>2. /\ client.pc = "loop" /\ client' = client /\ server' = server
      /\ answered' = answered /\ down' = down
  BY DEF PlayerCommands
<1>3. server.pc \in {"loop", "ended"}
  <2>1. ~Handshaking
    BY <1>2, StillHandshaking
  <2> QED
    BY <2>1 DEF HandshakeInv, Through
<1>4. TypeInv /\ UpInv /\ Told /\ InTurn
  BY <1>2, <1>3 DEF FrameInv, Connected, AnswersInv
<1>5. PICK N : N = Len(asked) + 1
  OBVIOUS
<1>6. Sends(name, N)
  BY <1>1, <1>2, <1>5 DEF Sends, Requests
<1>7. /\ Turn' = Turn /\ Owed \subseteq Owed' /\ Owed' \subseteq Nat \ {0}
      /\ \A n \in Owed' : n < Turn => n \in Owed
  BY <1>4, <1>6, OwedGrows
<1>8. StatusesFit'
  BY <1>2, <1>4, <1>7 DEF InTurn, StatusesFit
<1>9. DOMAIN down' \subseteq Nat
  BY <1>2, <1>3, DownPlaces
<1>10. Follows({})
  BY <1>2, <1>7, <1>8, <1>9, GrowsNot DEF Follows
<1> QED
  BY <1>2, <1>3, <1>4, <1>10, FollowsAnswers

LEMMA AnswersNext ==
  ASSUME FrameInv, FrameInv', HandshakeInv, AnswersInv, [Next]_vars PROVE AnswersInv'
<1>1. CASE ClientSteps
  BY <1>1, EarlyAnswers, ClientAnswers DEF ClientSteps
<1>2. CASE ServerSteps
  BY <1>2, EarlyAnswers, ServerAnswersRest, CommandsAnswers, StatusAnswers DEF ServerSteps
<1>3. CASE PlayerSteps
  BY <1>3, PlayerAnswers
<1>4. CASE PlayerCommands
  BY <1>4, AsksAnswers
<1>5. CASE \/ Leaving \/ DeadlinePasses
           \/ Publishes \/ PublishesMeta \/ PublishesFrame \/ PublisherLeaves \/ UNCHANGED vars
  BY <1>5, AsideAnswers DEF Leaving
<1> QED
  BY <1>1, <1>2, <1>3, <1>4, <1>5 DEF Next

(* As long as no answer is written between two chunks of a frame, the answers  *)
(* reach the client in the order of its commands, and no command that has an   *)
(* answer is passed over: the connection's goroutine reads no command before it *)
(* has written what it owes for the last, and what RTMPJoin's goroutine writes *)
(* in between, frames of any size, is no answer (command_message.go:169-423).  *)
THEOREM AnswersCorrect == Spec => []AnswersInOrder
<1> DEFINE Inv == torn \/ (FrameInv /\ AnswersInv)
<1>1. Init => Inv
  <2>1. Init => AnswersInv
    BY DEF Init, AnswersInv
  <2> QED
    BY <2>1, FrameInit
<1>2. Inv /\ HandshakeInv /\ [Next]_vars => Inv'
  BY FrameNext, AnswersNext, TornStays
<1>3. Inv => AnswersInOrder
  <2> SUFFICES ASSUME FrameInv, AnswersInv PROVE AnswersInOrder
    BY DEF AnswersInOrder
  <2>1. CASE server.pc \in {"loop", "ended"}
    <3>1. TypeInv /\ Told
      BY <2>1 DEF FrameInv, AnswersInv
    <3>2. answered # <<>> => Last(answered) = LastAnswered
      BY DEF Last, LastAnswered
    <3>3. Range(answered) = {answered[i] : i \in DOMAIN answered}
      BY DEF Range
    <3>4. answered # <<>> => Range(answered) = {n \in Owed : n <= Last(answered)}
      BY <3>1, <3>2, <3>3 DEF Told
    <3> QED
      BY <3>1, <3>4 DEF AnswersInOrder, Told
  <2>2. CASE server.pc \notin {"loop", "ended"}
    <3>1. answered = <<>> /\ DOMAIN <<>> = {}
      BY <2>2 DEF AnswersInv
    <3> QED
      BY <3>1 DEF AnswersInOrder
  <2> QED
    BY <2>1, <2>2
<1> QED
  BY <1>1, <1>2, <1>3, HandshakeAlways, PTL DEF Spec

-----------------------------------------------------------------------------
(* The frames stay in place.                                                   *)

\* The broadcast only grows.
LogKept ==
    /\ Len(log) \in Nat /\ Len(log') \in Nat /\ Len(log) <= Len(log')
    /\ DOMAIN log = 1 .. Len(log) /\ DOMAIN log' = 1 .. Len(log')
    /\ \A n \in DOMAIN log : log'[n] = log[n]

LEMMA LogSame ==
  ASSUME TypeInv, Numbered, log' = log
  PROVE  LogKept /\ Numbered'
<1>1. DOMAIN log = 1 .. Len(log) /\ Len(log) \in Nat
  BY DEF TypeInv, RoomType
<1> QED
  BY <1>1 DEF LogKept, Numbered

LEMMA LogGrows ==
  ASSUME TypeInv, Numbered, PublishesMeta \/ PublishesFrame
  PROVE  LogKept /\ Numbered'
<1>1. PICK l \in Nat : l = Len(log) /\ DOMAIN log = 1 .. l /\ log \in Seq(Tags)
  BY DEF TypeInv, RoomType
<1>2. PICK tag \in Tags : log' = Append(log, tag) /\ (tag.type # "meta" => tag.n = l + 1)
  <2>1. CASE PublishesMeta
    <3>1. [type |-> "meta"] \in Tags
      BY DEF Tags
    <3> QED
      BY <2>1, <3>1 DEF PublishesMeta
  <2>2. CASE PublishesFrame
    <3>1. PICK type \in {"key", "inter"} : log' = Append(log, [type |-> type, n |-> Len(log) + 1])
      BY <2>2 DEF PublishesFrame
    <3>2. [type |-> type, n |-> l + 1] \in Tags
      BY DEF Tags, Frames
    <3> QED
      BY <1>1, <3>1, <3>2
  <2> QED
    BY <2>1, <2>2
<1>3. /\ Len(log') = l + 1 /\ DOMAIN log' = 1 .. l + 1
      /\ (\A n \in 1 .. l : log'[n] = log[n]) /\ log'[l + 1] = tag
  BY <1>1, <1>2
<1>4. LogKept
  BY <1>1, <1>3 DEF LogKept
<1>5. \A n \in 1 .. l + 1 : log'[n].type # "meta" => log'[n].n = n
  BY <1>1, <1>2, <1>3 DEF Numbered
<1> QED
  BY <1>3, <1>4, <1>5 DEF Numbered

\* What has been pulled stays a stretch of it.
LEMMA StretchKept ==
  ASSUME Stretch, LogKept, pulled'.tags = pulled.tags
  PROVE  Stretch'
<1> DEFINE tags == pulled.tags
<1>1. \A i \in DOMAIN tags : tags[i].type # "mixed" /\ tags[i].n \in DOMAIN log' /\ log'[tags[i].n] = tags[i]
  BY DEF Stretch, LogKept
<1>2. ASSUME NEW i \in 2 .. Len(tags)
      PROVE  /\ tags[i - 1].n < tags[i].n
             /\ \A n \in tags[i - 1].n + 1 .. tags[i].n - 1 : log'[n].type = "meta"
  <2>1. /\ tags[i - 1].n < tags[i].n
        /\ \A n \in tags[i - 1].n + 1 .. tags[i].n - 1 : log[n].type = "meta"
    BY <1>2 DEF Stretch
  <2>2. CASE tags[i].n \in DOMAIN log /\ tags[i - 1].n \in DOMAIN log
    <3>1. PICK a \in DOMAIN log, b \in DOMAIN log : a = tags[i - 1].n /\ b = tags[i].n
      BY <2>2
    <3>2. \A n \in a + 1 .. b - 1 : n \in DOMAIN log
      BY DEF LogKept
    <3> QED
      BY <2>1, <3>1, <3>2 DEF LogKept
  <2>3. CASE ~(tags[i].n \in DOMAIN log /\ tags[i - 1].n \in DOMAIN log)
    <3>1. i \in DOMAIN tags /\ i - 1 \in DOMAIN tags
      BY <1>2
    <3> QED
      BY <2>3, <3>1 DEF Stretch
  <2> QED
    BY <2>2, <2>3
<1> QED
  BY <1>1, <1>2 DEF Stretch

LEMMA StillMoving ==
  ASSUME NEW from \in Nat \ {0}, player.at \in Nat, player.at <= Len(log), LogKept,
         player'.at = player.at, NoneMissing(from),
         \A n \in Nat : n >= from /\ Moving(n) => Moving(n)'
  PROVE  NoneMissing(from)'
<1> SUFFICES ASSUME NEW n \in from .. player.at, log'[n].type # "meta" PROVE Moving(n)'
  BY DEF NoneMissing
<1>1. n \in Nat /\ n >= from /\ n \in DOMAIN log
  BY DEF LogKept
<1>2. log[n].type # "meta"
  BY <1>1 DEF LogKept
<1>3. Moving(n)
  BY <1>2 DEF NoneMissing
<1> QED
  BY <1>1, <1>3

\* A frame and its number.
LEMMA FrameTypes ==
  ASSUME TypeInv
  PROVE  /\ player.at \in Nat /\ Len(log) \in Nat /\ DOMAIN log = 1 .. Len(log)
         /\ LastPulled \in Nat
         /\ \A c : InLog(c) => NumberOf(c) \in Nat \ {0}
<1>1. player.at \in Nat /\ Len(log) \in Nat /\ DOMAIN log = 1 .. Len(log)
  BY DEF TypeInv, PlayerType, RoomType
<1>2. \A c : InLog(c) => NumberOf(c) \in Nat \ {0}
  BY <1>1 DEF InLog
<1>3. LastPulled \in Nat
  <2>1. pulled.tags \in Seq(Frames)
    BY DEF TypeInv, PulledType
  <2>2. CASE pulled.tags = <<>>
    BY <2>2 DEF LastPulled
  <2>3. CASE pulled.tags # <<>>
    <3>1. Len(pulled.tags) \in DOMAIN pulled.tags /\ pulled.tags[Len(pulled.tags)] \in Frames
      BY <2>1, <2>3
    <3> QED
      BY <2>3, <3>1 DEF LastPulled, Frames
  <2> QED
    BY <2>2, <2>3
<1> QED
  BY <1>1, <1>2, <1>3

\* A step that neither puts a frame on the connection nor takes one off it.
Idles ==
    /\ \A k \in DOMAIN down : k \in DOMAIN down' /\ down'[k] = down[k]
    /\ \A k \in DOMAIN down' : IsFrame(down'[k]) => k \in DOMAIN down
    /\ \A i \in DOMAIN player.todo : IsFrame(player.todo[i]) =>
         \E j \in DOMAIN player'.todo : player'.todo[j] = player.todo[i]
    /\ \A i \in DOMAIN player'.todo : IsFrame(player'.todo[i]) =>
         \E j \in DOMAIN player.todo : player.todo[j] = player'.todo[i]
    /\ LogKept /\ pulled'.tags = pulled.tags /\ player'.at = player.at
    /\ player'.pc \in {"off", "snapshot", "headers"} => player.pc \in {"off", "snapshot", "headers"}

LEMMA GrowsIdles ==
  ASSUME NEW M, Grows(M), \A m \in M : m.type # "frame",
         player'.todo = player.todo, LogKept, pulled'.tags = pulled.tags, player'.at = player.at,
         player'.pc \in {"off", "snapshot", "headers"} => player.pc \in {"off", "snapshot", "headers"}
  PROVE  Idles
BY DEF Idles, Grows, IsFrame

LEMMA IdlesRelays ==
  ASSUME TypeInv, player.at <= Len(log), Relaying, Idles
  PROVE  Relaying'
<1>1. /\ player.at \in Nat /\ LastPulled \in Nat /\ LastPulled' = LastPulled
      /\ player'.at = player.at /\ pulled'.tags = pulled.tags /\ LogKept
      /\ \A c : InLog(c) => NumberOf(c) \in Nat \ {0}
  BY FrameTypes DEF Idles, LastPulled
<1>2. /\ \A k \in DOMAIN down : k \in DOMAIN down' /\ down'[k] = down[k]
      /\ \A i \in DOMAIN player.todo : IsFrame(player.todo[i]) =>
           \E j \in DOMAIN player'.todo : player'.todo[j] = player.todo[i]
  BY DEF Idles
<1>3. /\ \A k \in DOMAIN down' : IsFrame(down'[k]) => k \in DOMAIN down /\ down'[k] = down[k]
      /\ \A i \in DOMAIN player'.todo : IsFrame(player'.todo[i]) =>
           \E j \in DOMAIN player.todo : player.todo[j] = player'.todo[i]
  BY DEF Idles
<1>4. \A c : InLog(c) => InLog(c)'
  BY <1>1 DEF InLog, LogKept
<1>5. \A c : FrameFits(c) => FrameFits(c)'
  BY <1>1, <1>4 DEF FrameFits
<1>6. \A n : Moving(n) => Moving(n)'
  <2> SUFFICES ASSUME NEW n, Moving(n) PROVE Moving(n)'
    OBVIOUS
  <2>1. CASE \E k \in DOMAIN down : IsFrame(down[k]) /\ NumberOf(down[k]) = n
    BY <1>2, <2>1 DEF Moving
  <2>2. CASE \E k \in DOMAIN player.todo : IsFrame(player.todo[k]) /\ NumberOf(player.todo[k]) = n
    <3>1. PICK k \in DOMAIN player.todo : IsFrame(player.todo[k]) /\ NumberOf(player.todo[k]) = n
      BY <2>2
    <3>2. PICK c : c = player.todo[k]
      OBVIOUS
    <3>3. PICK j \in DOMAIN player'.todo : player'.todo[j] = c
      BY <1>2, <3>1, <3>2
    <3> QED
      BY <3>1, <3>2, <3>3 DEF Moving
  <2> QED
    BY <2>1, <2>2 DEF Moving
<1>7. ASSUME NEW from \in Nat \ {0}, NoneMissing(from) PROVE NoneMissing(from)'
  BY <1>1, <1>6, <1>7, StillMoving
<1>8. NoFrames'
  BY <1>1, <1>3 DEF Relaying, NoFrames, Idles
<1>9. FramesComing'
  <2>1. ASSUME NEW k \in DOMAIN down', IsFrame(down'[k])
        PROVE  FrameFits(down[k])' /\ NoneMissing(NumberOf(down[k]))'
    <3>1. PICK c : c = down'[k] /\ c = down[k] /\ k \in DOMAIN down /\ IsFrame(c)
      BY <1>3, <2>1
    <3>2. FrameFits(c) /\ NoneMissing(NumberOf(c))
      BY <3>1 DEF Relaying, FramesComing
    <3>3. PICK from \in Nat \ {0} : from = NumberOf(c)
      BY <1>1, <3>2 DEF FrameFits
    <3>4. NoneMissing(from)'
      BY <1>7, <3>2, <3>3
    <3>5. FrameFits(c)'
      BY <1>5, <3>2
    <3> QED
      BY <3>1, <3>3, <3>4, <3>5
  <2>2. \A j, k \in DOMAIN down' : j < k /\ IsFrame(down'[j]) /\ IsFrame(down'[k])
          => NumberOf(down'[j]) < NumberOf(down'[k])
    BY <1>3 DEF Relaying, FramesComing
  <2> QED
    BY <2>1, <2>2 DEF FramesComing
<1>10. FrameWaiting'
  <2>1. ASSUME NEW i \in DOMAIN player'.todo, IsFrame(player'.todo[i])
        PROVE  /\ FrameFits(player.todo[i])' /\ NumberOf(player'.todo[i]) = player.at
               /\ \A k \in DOMAIN down' : IsFrame(down'[k]) => NumberOf(down'[k]) < player.at
    <3>1. PICK c : c = player'.todo[i] /\ IsFrame(c)
      BY <2>1
    <3>2. PICK j \in DOMAIN player.todo : player.todo[j] = c
      BY <1>3, <2>1, <3>1
    <3>3. /\ FrameFits(c) /\ NumberOf(c) = player.at
          /\ \A k \in DOMAIN down : IsFrame(down[k]) => NumberOf(down[k]) < player.at
      BY <3>1, <3>2 DEF Relaying, FrameWaiting
    <3>4. FrameFits(c)'
      BY <1>5, <3>3
    <3> QED
      BY <1>3, <3>1, <3>3, <3>4
  <2> QED
    BY <1>1, <2>1 DEF FrameWaiting
<1>11. BehindPlayer'
  <2>1. ASSUME pulled.tags # <<>> PROVE LastPulled <= player.at /\ NoneMissing(LastPulled + 1)'
    <3>1. LastPulled <= player.at /\ NoneMissing(LastPulled + 1)
      BY <2>1 DEF Relaying, BehindPlayer
    <3>2. PICK from \in Nat \ {0} : from = LastPulled + 1
      BY <1>1
    <3>3. NoneMissing(from)'
      BY <1>7, <3>1, <3>2
    <3>4. from = (LastPulled + 1)'
      BY <1>1, <3>2
    <3> QED
      BY <3>1, <3>3, <3>4
  <2> QED
    BY <1>1, <2>1 DEF BehindPlayer
<1> QED
  BY <1>8, <1>9, <1>10, <1>11 DEF Relaying

\* As long as there is no frame on the connection and none was pulled.
LEMMA NothingRelays ==
  ASSUME \A k \in DOMAIN down' : ~IsFrame(down'[k]),
         \A k \in DOMAIN player'.todo : ~IsFrame(player'.todo[k]),
         pulled'.tags = <<>>
  PROVE  Relaying'
<1>1. NoFrames'
  BY DEF NoFrames
<1>2. FramesComing' /\ FrameWaiting'
  BY DEF FramesComing, FrameWaiting
<1>3. BehindPlayer'
  BY DEF BehindPlayer
<1> QED
  BY <1>1, <1>2, <1>3 DEF Relaying

\* The goroutine reads the next tag of the broadcast, when it has sent the last.
Queues ==
    /\ player.todo = <<>> /\ player'.at = player.at + 1
    /\ player'.pc = "read" /\ player.at + 1 \in DOMAIN log
    /\ \A i \in DOMAIN player'.todo : IsFrame(player'.todo[i]) =>
         log[player.at + 1].type # "meta" /\ player'.todo[i].msg.tag = log[player.at + 1]
    /\ log[player.at + 1].type # "meta" => \E i \in DOMAIN player'.todo : IsFrame(player'.todo[i])
    /\ UNCHANGED <<down, pulled, log>>

LEMMA QueuesRelays ==
  ASSUME TypeInv, Numbered, player.at <= Len(log), Relaying, Queues
  PROVE  Relaying'
<1>1. PICK at \in Nat : at = player.at
  BY FrameTypes
<1>2. /\ LastPulled \in Nat /\ LastPulled' = LastPulled /\ player'.at = at + 1 /\ at + 1 \in DOMAIN log
      /\ player.todo = <<>> /\ player'.pc = "read"
      /\ down' = down /\ pulled' = pulled /\ log' = log
      /\ \A d : InLog(d) => NumberOf(d) \in Nat \ {0}
  BY <1>1, FrameTypes DEF Queues, LastPulled
<1>3. \A d : InLog(d)' <=> InLog(d)
  BY <1>2 DEF InLog
<1>4. PICK todo : todo = player'.todo /\ DOMAIN player.todo = {}
  BY <1>2
<1>5. \A i \in DOMAIN todo : IsFrame(todo[i]) => InLog(todo[i]) /\ NumberOf(todo[i]) = at + 1
  BY <1>1, <1>2, <1>4 DEF Numbered, Queues, InLog, NumberOf
<1>6. \A d : FrameFits(d) => NumberOf(d) \in Nat \ {0} /\ NumberOf(d) <= at
                             /\ LastPulled < NumberOf(d) /\ FrameFits(d)'
  <2> SUFFICES ASSUME NEW d, FrameFits(d)
               PROVE  NumberOf(d) \in Nat \ {0} /\ NumberOf(d) <= at
                      /\ LastPulled < NumberOf(d) /\ FrameFits(d)'
    OBVIOUS
  <2>1. InLog(d) /\ LastPulled < NumberOf(d) /\ NumberOf(d) <= at
    BY <1>1 DEF FrameFits
  <2>2. PICK n \in Nat \ {0} : n = NumberOf(d) /\ n <= at
    BY <1>2, <2>1
  <2>3. n <= at + 1
    BY <2>2
  <2>4. FrameFits(d)'
    BY <1>2, <1>3, <2>1, <2>2, <2>3 DEF FrameFits
  <2> QED
    BY <2>1, <2>2, <2>4
<1>7. ASSUME NEW from \in Nat \ {0}, NoneMissing(from) PROVE NoneMissing(from)'
  <2> SUFFICES ASSUME NEW n \in from .. at + 1, log[n].type # "meta" PROVE Moving(n)'
    BY <1>2 DEF NoneMissing
  <2>1. CASE n \in from .. at
    <3>1. Moving(n)
      BY <1>1, <1>7, <2>1 DEF NoneMissing
    <3> QED
      BY <1>2, <1>4, <3>1 DEF Moving
  <2>2. CASE n = at + 1
    <3>1. PICK i \in DOMAIN todo : IsFrame(todo[i])
      BY <1>1, <1>4, <2>2 DEF Queues
    <3>2. NumberOf(todo[i]) = n
      BY <1>5, <2>2, <3>1
    <3> QED
      BY <1>4, <3>1, <3>2 DEF Moving
  <2> QED
    BY <2>1, <2>2
<1>8. NoFrames'
  BY <1>2 DEF NoFrames
<1>9. \A k \in DOMAIN down : IsFrame(down[k]) => FrameFits(down[k]) /\ NoneMissing(NumberOf(down[k]))
  BY DEF Relaying, FramesComing
<1>10. FramesComing'
  <2>1. ASSUME NEW k \in DOMAIN down', IsFrame(down'[k])
        PROVE  FrameFits(down[k])' /\ NoneMissing(NumberOf(down[k]))'
    <3>1. PICK d : d = down'[k] /\ d = down[k] /\ k \in DOMAIN down /\ IsFrame(d)
      BY <1>2, <2>1
    <3>2. FrameFits(d) /\ NoneMissing(NumberOf(d))
      BY <1>9, <3>1
    <3>3. PICK from \in Nat \ {0} : from = NumberOf(d)
      BY <1>6, <3>2
    <3>4. NoneMissing(from)'
      BY <1>7, <3>2, <3>3
    <3>5. FrameFits(d)'
      BY <1>6, <3>2
    <3> QED
      BY <3>1, <3>3, <3>4, <3>5
  <2>2. \A j, k \in DOMAIN down' : j < k /\ IsFrame(down'[j]) /\ IsFrame(down'[k])
          => NumberOf(down'[j]) < NumberOf(down'[k])
    BY <1>2 DEF Relaying, FramesComing
  <2> QED
    BY <2>1, <2>2 DEF FramesComing
<1>11. pulled.tags # <<>> => LastPulled <= at /\ NoneMissing(LastPulled + 1)
  BY <1>1 DEF Relaying, BehindPlayer
<1>12. FrameWaiting'
  <2>1. ASSUME NEW i \in DOMAIN todo, IsFrame(todo[i])
        PROVE  FrameFits(player.todo[i])' /\ NumberOf(todo[i]) = at + 1
    <3>1. LastPulled < at + 1
      <4>1. pulled.tags = <<>> => LastPulled = 0
        BY DEF LastPulled
      <4>2. LastPulled <= at
        BY <1>11, <4>1
      <4> QED
        BY <1>2, <4>2
    <3>2. PICK c : c = todo[i] /\ InLog(c) /\ NumberOf(c) = at + 1
      BY <1>5, <2>1
    <3>3. FrameFits(c)'
      BY <1>2, <1>3, <3>1, <3>2 DEF FrameFits
    <3> QED
      BY <1>4, <3>2, <3>3
  <2>2. \A k \in DOMAIN down : IsFrame(down[k]) => NumberOf(down[k]) < at + 1
    BY <1>6, <1>9
  <2> QED
    BY <1>2, <1>4, <2>1, <2>2 DEF FrameWaiting
<1>13. BehindPlayer'
  <2>1. ASSUME pulled.tags # <<>> PROVE LastPulled <= at + 1 /\ NoneMissing(LastPulled + 1)'
    <3>1. LastPulled <= at /\ NoneMissing(LastPulled + 1)
      BY <1>11, <2>1
    <3>2. PICK from \in Nat \ {0} : from = LastPulled + 1
      BY <1>2
    <3>3. NoneMissing(from)'
      BY <1>7, <3>1, <3>2
    <3>4. from = (LastPulled + 1)'
      BY <1>2, <3>2
    <3>5. LastPulled <= at + 1
      BY <1>2, <3>1
    <3> QED
      BY <3>3, <3>4, <3>5
  <2> QED
    BY <1>2, <2>1 DEF BehindPlayer
<1> QED
  BY <1>8, <1>10, <1>12, <1>13 DEF Relaying

\* The goroutine writes the last chunk of a frame.
Passes(c) ==
    /\ IsFrame(c) /\ DOMAIN player.todo = {1} /\ player.todo[1] = c /\ player'.todo = <<>>
    /\ player'.at = player.at /\ player'.pc = player.pc
    /\ Adds(c) /\ DOMAIN down' \subseteq Nat
    /\ UNCHANGED <<pulled, log>>

LEMMA PassesRelays ==
  ASSUME TypeInv, player.at <= Len(log), Relaying, LogKept, NEW c, Passes(c)
  PROVE  Relaying'
<1>1. PICK at \in Nat : at = player.at
  BY FrameTypes
<1>2. /\ LastPulled \in Nat /\ LastPulled' = LastPulled /\ player'.at = at /\ player'.pc = player.pc
      /\ pulled' = pulled /\ log' = log /\ DOMAIN down' \subseteq Nat
      /\ \A d : InLog(d) => NumberOf(d) \in Nat \ {0}
  BY <1>1, FrameTypes DEF Passes, LastPulled
<1>3. /\ DOMAIN player.todo = {1} /\ player.todo[1] = c
      /\ player'.todo = <<>> /\ DOMAIN player'.todo = {}
  BY DEF Passes
<1>4. IsFrame(c)
  BY DEF Passes
<1>5. /\ \A k \in DOMAIN down : k \in DOMAIN down' /\ down'[k] = down[k]
      /\ \A k \in DOMAIN down' : k \notin DOMAIN down => (\A j \in DOMAIN down : j < k) /\ down'[k] = c
      /\ \E k \in DOMAIN down' : k \notin DOMAIN down
      /\ \A j, k \in DOMAIN down' : j \notin DOMAIN down /\ k \notin DOMAIN down => j = k
  BY DEF Passes, Adds, Grows
<1>7. /\ FrameFits(c) /\ NumberOf(c) = at
      /\ \A k \in DOMAIN down : IsFrame(down[k]) => NumberOf(down[k]) < at
  BY <1>1, <1>3, <1>4 DEF Relaying, FrameWaiting
<1>8. \A d : FrameFits(d) => FrameFits(d)'
  BY <1>1, <1>2 DEF FrameFits, InLog
<1>9. \A n : Moving(n) => Moving(n)'
  <2> SUFFICES ASSUME NEW n, Moving(n) PROVE Moving(n)'
    OBVIOUS
  <2>1. CASE \E k \in DOMAIN down : IsFrame(down[k]) /\ NumberOf(down[k]) = n
    BY <1>5, <2>1 DEF Moving
  <2>2. CASE \E k \in DOMAIN player.todo : IsFrame(player.todo[k]) /\ NumberOf(player.todo[k]) = n
    <3>1. NumberOf(c) = n
      BY <1>3, <2>2
    <3>2. PICK k \in DOMAIN down' : down'[k] = c
      BY <1>5
    <3> QED
      BY <1>4, <3>1, <3>2 DEF Moving
  <2> QED
    BY <2>1, <2>2 DEF Moving
<1>10. ASSUME NEW from \in Nat \ {0}, NoneMissing(from) PROVE NoneMissing(from)'
  BY <1>1, <1>2, <1>9, <1>10, StillMoving
<1>11. NoFrames'
  <2>1. player.pc \notin {"off", "snapshot", "headers"}
    BY <1>3, <1>4 DEF Relaying, NoFrames
  <2> QED
    BY <1>2, <2>1 DEF NoFrames
<1>12. \A k \in DOMAIN down : IsFrame(down[k]) => FrameFits(down[k]) /\ NoneMissing(NumberOf(down[k]))
  BY DEF Relaying, FramesComing
<1>13. ASSUME NEW k \in DOMAIN down', IsFrame(down'[k])
       PROVE  FrameFits(down[k])' /\ NoneMissing(NumberOf(down[k]))'
  <2>1. PICK d : d = down'[k]
    OBVIOUS
  <2>2. FrameFits(d) /\ NoneMissing(NumberOf(d))
    <3>1. CASE k \in DOMAIN down
      BY <1>5, <1>12, <1>13, <2>1, <3>1
    <3>2. CASE k \notin DOMAIN down
      <4>1. d = c /\ NumberOf(d) = at /\ FrameFits(d)
        BY <1>5, <1>7, <1>13, <2>1, <3>2
      <4>2. Moving(at)
        BY <1>3, <1>4, <1>7 DEF Moving
      <4>3. \A n \in at .. at : n = at
        OBVIOUS
      <4>4. NoneMissing(at)
        BY <1>1, <4>2, <4>3 DEF NoneMissing
      <4> QED
        BY <4>1, <4>4
    <3> QED
      BY <3>1, <3>2
  <2>3. PICK from \in Nat \ {0} : from = NumberOf(d)
    BY <1>2, <2>2 DEF FrameFits
  <2>4. NoneMissing(from)'
    BY <1>10, <2>2, <2>3
  <2>5. FrameFits(d)'
    BY <1>8, <2>2
  <2> QED
    BY <2>1, <2>3, <2>4, <2>5
<1>14. ASSUME NEW j \in DOMAIN down', NEW k \in DOMAIN down', j < k, IsFrame(down'[j]), IsFrame(down'[k])
       PROVE  NumberOf(down'[j]) < NumberOf(down'[k])
  <2>1. j \in Nat /\ k \in Nat
    BY <1>2
  <2>2. CASE k \in DOMAIN down
    <3>1. j \in DOMAIN down
      BY <1>5, <1>14, <2>1, <2>2
    <3> QED
      BY <1>5, <1>14, <2>2, <3>1 DEF Relaying, FramesComing
  <2>3. CASE k \notin DOMAIN down
    <3>1. NumberOf(down'[k]) = at
      BY <1>5, <1>7, <2>3
    <3>2. j \in DOMAIN down
      <4>1. j \notin DOMAIN down => j = k
        BY <1>5, <2>3
      <4> QED
        BY <1>14, <2>1, <4>1
    <3> QED
      BY <1>5, <1>7, <1>14, <3>1, <3>2
  <2> QED
    BY <2>2, <2>3
<1>15. FramesComing'
  BY <1>13, <1>14 DEF FramesComing
<1>16. FrameWaiting'
  BY <1>3 DEF FrameWaiting
<1>17. BehindPlayer'
  <2>1. ASSUME pulled.tags # <<>> PROVE LastPulled <= at /\ NoneMissing(LastPulled + 1)'
    <3>1. LastPulled <= at /\ NoneMissing(LastPulled + 1)
      BY <1>1, <2>1 DEF Relaying, BehindPlayer
    <3>2. PICK from \in Nat \ {0} : from = LastPulled + 1
      BY <1>2
    <3>3. NoneMissing(from)'
      BY <1>10, <3>1, <3>2
    <3>4. from = (LastPulled + 1)'
      BY <1>2, <3>2
    <3> QED
      BY <3>1, <3>3, <3>4
  <2> QED
    BY <1>2, <2>1 DEF BehindPlayer
<1> QED
  BY <1>11, <1>15, <1>16, <1>17 DEF Relaying

\* The client takes a chunk: a frame goes to its room.
Pulls ==
    /\ Shifts /\ player' = player /\ log' = log
    /\ IF IsFrame(down[1]) THEN pulled'.tags = Append(pulled.tags, down[1].msg.tag)
       ELSE pulled'.tags = pulled.tags

LEMMA PulledLast ==
  ASSUME TypeInv, Relaying, Pulls, IsFrame(down[1]) => down[1].msg.tag \in Frames
  PROVE  /\ LastPulled \in Nat /\ LastPulled' \in Nat
         /\ IF IsFrame(down[1])
            THEN pulled'.tags # <<>> /\ LastPulled' = NumberOf(down[1]) /\ FrameFits(down[1])
            ELSE LastPulled' = LastPulled
<1>1. LastPulled \in Nat /\ 1 \in DOMAIN down /\ pulled.tags \in Seq(Frames)
  BY FrameTypes DEF Pulls, Shifts, TypeInv, PulledType
<1>2. CASE IsFrame(down[1])
  <2>1. PICK tag \in Frames : tag = down[1].msg.tag
    BY <1>2
  <2>2. PICK tags \in Seq(Frames) : tags = pulled.tags
    BY <1>1
  <2>3. pulled'.tags = Append(tags, tag)
    BY <1>2, <2>1, <2>2 DEF Pulls
  <2>4. PICK new : new = Append(tags, tag)
    OBVIOUS
  <2>5. new # <<>> /\ new[Len(new)] = tag
    BY <2>4
  <2>6. LastPulled' = tag.n /\ pulled'.tags # <<>>
    BY <2>3, <2>4, <2>5 DEF LastPulled
  <2>7. FrameFits(down[1])
    BY <1>1, <1>2 DEF Relaying, FramesComing
  <2>8. LastPulled' = NumberOf(down[1]) /\ tag.n \in Nat
    BY <2>1, <2>6 DEF NumberOf, Frames
  <2> QED
    BY <1>1, <1>2, <2>6, <2>7, <2>8
<1>3. CASE ~IsFrame(down[1])
  BY <1>1, <1>3 DEF Pulls, LastPulled
<1> QED
  BY <1>2, <1>3

\* It is the next frame of the broadcast.
LEMMA PullsStretch ==
  ASSUME TypeInv, player.at <= Len(log), Stretch, Relaying, Pulls,
         IsFrame(down[1]) => down[1].msg.tag \in Frames
  PROVE  Stretch'
<1>1. CASE ~IsFrame(down[1])
  BY <1>1 DEF Stretch, Pulls
<1>2. CASE IsFrame(down[1])
  <2>1. PICK tag \in Frames : tag = down[1].msg.tag
    BY <1>2
  <2>2. PICK l \in Nat : l = Len(pulled.tags)
    BY DEF TypeInv, PulledType
  <2>3. /\ Len(pulled'.tags) = l + 1 /\ DOMAIN pulled'.tags = 1 .. l + 1
        /\ (\A i \in 1 .. l : pulled'.tags[i] = pulled.tags[i]) /\ pulled'.tags[l + 1] = tag
        /\ DOMAIN pulled.tags = 1 .. l
    <3>1. PICK tags \in Seq(Frames) : tags = pulled.tags
      BY DEF TypeInv, PulledType
    <3>2. PICK new : new = Append(tags, tag)
      OBVIOUS
    <3>3. pulled'.tags = new
      BY <1>2, <2>1, <3>1, <3>2 DEF Pulls
    <3>4. /\ Len(new) = l + 1 /\ DOMAIN new = 1 .. l + 1
          /\ (\A i \in 1 .. l : new[i] = tags[i]) /\ new[l + 1] = tag /\ DOMAIN tags = 1 .. l
      BY <2>2, <3>1, <3>2
    <3> QED
      BY <3>1, <3>3, <3>4
  <2>4. /\ tag.n \in Nat \ {0} /\ tag.type # "mixed" /\ tag.n \in DOMAIN log /\ log[tag.n] = tag
        /\ LastPulled < tag.n /\ tag.n <= player.at
    BY <1>2, <2>1, PulledLast DEF FrameFits, InLog, NumberOf, Frames
  <2>5. ASSUME NEW i \in DOMAIN pulled'.tags
        PROVE  LET t == pulled'.tags[i] IN t.type # "mixed" /\ t.n \in DOMAIN log' /\ log'[t.n] = t
    <3>1. CASE i \in 1 .. l
      BY <2>3, <3>1 DEF Stretch, Pulls
    <3>2. CASE i = l + 1
      BY <2>3, <2>4, <3>2 DEF Pulls
    <3> QED
      BY <2>3, <3>1, <3>2
  <2>6. ASSUME NEW i \in 2 .. Len(pulled'.tags)
        PROVE  LET from == pulled'.tags[i - 1].n
                   to == pulled'.tags[i].n
               IN  from < to /\ \A n \in from + 1 .. to - 1 : log'[n].type = "meta"
    <3>1. CASE i \in 2 .. l
      <4>1. i \in 1 .. l /\ i - 1 \in 1 .. l
        BY <3>1
      <4>2. pulled'.tags[i] = pulled.tags[i] /\ pulled'.tags[i - 1] = pulled.tags[i - 1]
        BY <2>3, <4>1
      <4> QED
        BY <2>2, <3>1, <4>2 DEF Stretch, Pulls
    <3>2. CASE i = l + 1
      <4>1. l \in 1 .. l /\ i - 1 = l /\ pulled.tags # <<>>
        BY <2>2, <2>3, <2>6, <3>2
      <4>2. LastPulled = pulled.tags[l].n
        BY <2>2, <4>1 DEF LastPulled
      <4>3. PICK a \in Nat : a = LastPulled
        BY PulledLast
      <4>4. PICK b \in Nat : b = tag.n
        BY <2>4
      <4>5. pulled'.tags[i - 1].n = a /\ pulled'.tags[i].n = b /\ log' = log
        BY <2>3, <3>2, <4>1, <4>2, <4>3, <4>4 DEF Pulls
      <4>6. ASSUME NEW n \in a + 1 .. b - 1, log[n].type # "meta" PROVE FALSE
        <5>1. n \in a + 1 .. player.at /\ n \in Nat /\ n < b
          BY <2>4, <4>3, <4>4, FrameTypes
        <5>2. Moving(n)
          BY <4>1, <4>3, <4>6, <5>1 DEF Relaying, BehindPlayer, NoneMissing
        <5>3. 1 \in DOMAIN down /\ NumberOf(down[1]) = b
          BY <2>1, <4>4 DEF Pulls, Shifts, NumberOf
        <5>4. CASE \E k \in DOMAIN down : IsFrame(down[k]) /\ NumberOf(down[k]) = n
          <6>1. PICK k \in DOMAIN down : IsFrame(down[k]) /\ NumberOf(down[k]) = n
            BY <5>4
          <6>2. k # 1 /\ k \in Nat /\ k >= 1
            BY <5>1, <5>3, <6>1 DEF Pulls, Shifts
          <6>3. 1 < k
            BY <6>2
          <6>4. b < n
            BY <1>2, <5>3, <6>1, <6>3 DEF Relaying, FramesComing
          <6> QED
            BY <5>1, <6>4
        <5>5. CASE \E k \in DOMAIN player.todo : IsFrame(player.todo[k]) /\ NumberOf(player.todo[k]) = n
          <6>1. n = player.at /\ b < player.at
            BY <1>2, <5>3, <5>5 DEF Relaying, FrameWaiting
          <6> QED
            BY <5>1, <6>1
        <5> QED
          BY <5>2, <5>4, <5>5 DEF Moving
      <4>7. a < b
        BY <2>4, <4>3, <4>4
      <4> QED
        BY <4>5, <4>6, <4>7
    <3> QED
      BY <2>3, <2>6, <3>1, <3>2
  <2> QED
    BY <2>5, <2>6 DEF Stretch
<1> QED
  BY <1>1, <1>2

LEMMA PullsRelays ==
  ASSUME TypeInv, player.at <= Len(log), Relaying, Pulls,
         IsFrame(down[1]) => down[1].msg.tag \in Frames
  PROVE  Relaying'
<1>1. PICK at \in Nat : at = player.at /\ at <= Len(log)
  BY FrameTypes
<1>2. /\ LastPulled \in Nat /\ LastPulled' \in Nat /\ player' = player /\ log' = log /\ LogKept
      /\ \A d : InLog(d) => NumberOf(d) \in Nat \ {0}
  <2>1. LogKept
    BY FrameTypes DEF LogKept, Pulls
  <2> QED
    BY <2>1, FrameTypes, PulledLast DEF Pulls
<1>3. /\ 1 \in DOMAIN down
      /\ \A k \in DOMAIN down' : k \in Nat \ {0} /\ k + 1 \in DOMAIN down /\ down'[k] = down[k + 1]
      /\ \A k \in DOMAIN down : k \in Nat /\ k >= 1
                              /\ (k # 1 => k - 1 \in DOMAIN down' /\ down'[k - 1] = down[k])
  BY DEF Pulls, Shifts
<1>4. /\ \A k \in DOMAIN down : IsFrame(down[k]) => FrameFits(down[k]) /\ NoneMissing(NumberOf(down[k]))
      /\ \A j, k \in DOMAIN down : j < k /\ IsFrame(down[j]) /\ IsFrame(down[k])
           => NumberOf(down[j]) < NumberOf(down[k])
  BY DEF Relaying, FramesComing
\* What is left is beyond what was pulled.
<1>5. ASSUME NEW k \in DOMAIN down, k # 1, IsFrame(down[k])
      PROVE  /\ LastPulled' < NumberOf(down[k])
             /\ IsFrame(down[1]) => NumberOf(down[1]) < NumberOf(down[k])
  <2>1. 1 < k
    BY <1>3, <1>5
  <2>2. IsFrame(down[1]) => NumberOf(down[1]) < NumberOf(down[k])
    BY <1>3, <1>4, <1>5, <2>1
  <2>3. LastPulled < NumberOf(down[k])
    BY <1>4, <1>5 DEF FrameFits
  <2> QED
    BY <2>2, <2>3, PulledLast
<1>6. \A d : InLog(d)' <=> InLog(d)
  BY <1>2 DEF InLog
\* A number that is still to come moves on.
<1>7. ASSUME NEW n \in Nat, Moving(n), ~IsFrame(down[1]) \/ NumberOf(down[1]) # n PROVE Moving(n)'
  <2>1. CASE \E k \in DOMAIN player.todo : IsFrame(player.todo[k]) /\ NumberOf(player.todo[k]) = n
    BY <1>2, <2>1 DEF Moving
  <2>2. CASE \E k \in DOMAIN down : IsFrame(down[k]) /\ NumberOf(down[k]) = n
    <3>1. PICK k \in DOMAIN down : IsFrame(down[k]) /\ NumberOf(down[k]) = n
      BY <2>2
    <3>2. k # 1
      BY <1>7, <3>1
    <3>3. PICK j \in DOMAIN down' : down'[j] = down[k]
      BY <1>3, <3>2
    <3> QED
      BY <3>1, <3>3 DEF Moving
  <2> QED
    BY <1>7, <2>1, <2>2 DEF Moving
<1>8. ASSUME NEW from \in Nat \ {0}, NoneMissing(from),
             IsFrame(down[1]) => NumberOf(down[1]) \in Nat /\ NumberOf(down[1]) < from
      PROVE  NoneMissing(from)'
  <2>1. \A n \in Nat : n >= from /\ Moving(n) => Moving(n)'
    <3> SUFFICES ASSUME NEW n \in Nat, n >= from, Moving(n) PROVE Moving(n)'
      OBVIOUS
    <3>1. ~IsFrame(down[1]) \/ NumberOf(down[1]) # n
      BY <1>8
    <3> QED
      BY <1>7, <3>1
  <2> QED
    BY <1>1, <1>2, <1>8, <2>1, StillMoving
<1>9. IsFrame(down[1]) => NumberOf(down[1]) \in Nat /\ NumberOf(down[1]) <= at
  BY <1>1, <1>2, <1>3, <1>4 DEF FrameFits
<1>11. NoFrames'
  <2> SUFFICES ASSUME player.pc \in {"off", "snapshot", "headers"}
               PROVE  /\ pulled'.tags = <<>>
                      /\ \A k \in DOMAIN down' : ~IsFrame(down'[k])
                      /\ \A k \in DOMAIN player.todo : ~IsFrame(player.todo[k])
    BY <1>2 DEF NoFrames
  <2>1. /\ pulled.tags = <<>>
        /\ \A k \in DOMAIN down : ~IsFrame(down[k])
        /\ \A k \in DOMAIN player.todo : ~IsFrame(player.todo[k])
    BY DEF Relaying, NoFrames
  <2> QED
    BY <1>3, <2>1 DEF Pulls
<1>12. ASSUME NEW k \in DOMAIN down', IsFrame(down'[k])
       PROVE  FrameFits(down[k])' /\ NoneMissing(NumberOf(down[k]))'
  <2>1. PICK j \in DOMAIN down : j = k + 1 /\ j # 1 /\ down'[k] = down[j]
    <3>1. k \in Nat \ {0} /\ k + 1 \in DOMAIN down /\ down'[k] = down[k + 1]
      BY <1>3
    <3>2. k + 1 # 1
      BY <3>1
    <3> QED
      BY <3>1, <3>2
  <2>2. PICK d : d = down'[k] /\ d = down[j] /\ IsFrame(d)
    BY <1>12, <2>1
  <2>3. FrameFits(d) /\ NoneMissing(NumberOf(d))
    BY <1>4, <2>2
  <2>4. /\ LastPulled' < NumberOf(d)
        /\ IsFrame(down[1]) => NumberOf(down[1]) < NumberOf(d)
    BY <1>5, <2>1, <2>2
  <2>5. PICK from \in Nat \ {0} : from = NumberOf(d)
    BY <1>2, <2>3 DEF FrameFits
  <2>6. NoneMissing(from)'
    BY <1>8, <1>9, <2>3, <2>4, <2>5
  <2>7. FrameFits(d)'
    BY <1>2, <1>6, <2>3, <2>4 DEF FrameFits
  <2> QED
    BY <2>2, <2>5, <2>6, <2>7
<1>13. ASSUME NEW j \in DOMAIN down', NEW k \in DOMAIN down', j < k, IsFrame(down'[j]), IsFrame(down'[k])
       PROVE  NumberOf(down'[j]) < NumberOf(down'[k])
  <2>1. PICK a \in DOMAIN down, b \in DOMAIN down : a = j + 1 /\ b = k + 1
    BY <1>3
  <2>2. a < b
    BY <1>3, <1>13, <2>1
  <2>3. down'[j] = down[a] /\ down'[k] = down[b]
    BY <1>3, <2>1
  <2> QED
    BY <1>4, <1>13, <2>2, <2>3
<1>14. FramesComing'
  BY <1>12, <1>13 DEF FramesComing
<1>15. FrameWaiting'
  <2>1. ASSUME NEW i \in DOMAIN player.todo, IsFrame(player.todo[i])
        PROVE  /\ FrameFits(player.todo[i])' /\ NumberOf(player.todo[i]) = player.at
               /\ \A k \in DOMAIN down' : IsFrame(down'[k]) => NumberOf(down'[k]) < player.at
    <3>1. PICK d : d = player.todo[i]
      OBVIOUS
    <3>2. /\ FrameFits(d) /\ NumberOf(d) = player.at
          /\ \A k \in DOMAIN down : IsFrame(down[k]) => NumberOf(down[k]) < player.at
      BY <2>1, <3>1 DEF Relaying, FrameWaiting
    <3>3. \A k \in DOMAIN down' : IsFrame(down'[k]) => NumberOf(down'[k]) < player.at
      BY <1>3, <3>2
    <3>4. LastPulled' < NumberOf(d)
      BY <1>3, <3>2, PulledLast DEF FrameFits
    <3>5. FrameFits(d)'
      BY <1>2, <1>6, <3>2, <3>4 DEF FrameFits
    <3>6. d = player'.todo[i]
      BY <1>2, <3>1
    <3> QED
      BY <3>1, <3>2, <3>3, <3>5, <3>6
  <2> QED
    BY <1>2, <2>1 DEF FrameWaiting
<1>16. BehindPlayer'
  <2>1. CASE IsFrame(down[1])
    <3>1. PICK g \in Nat : g = NumberOf(down[1]) /\ g <= at /\ LastPulled' = g
      BY <1>9, <2>1, PulledLast
    <3>2. NoneMissing(g)
      BY <1>3, <1>4, <2>1, <3>1
    <3>3. NoneMissing(g + 1)
      <4>1. \A n \in g + 1 .. player.at : n \in g .. player.at
        BY <1>1
      <4> QED
        BY <3>2, <4>1 DEF NoneMissing
    <3>4. PICK from \in Nat \ {0} : from = g + 1 /\ g < from
      OBVIOUS
    <3>5. NoneMissing(from)'
      BY <1>8, <3>1, <3>3, <3>4
    <3>6. from = (LastPulled + 1)'
      BY <3>1, <3>4
    <3>7. LastPulled' <= player'.at
      BY <1>1, <1>2, <3>1
    <3> QED
      BY <3>5, <3>6, <3>7 DEF BehindPlayer
  <2>2. CASE ~IsFrame(down[1])
    <3>1. pulled'.tags = pulled.tags /\ LastPulled' = LastPulled
      BY <2>2, PulledLast DEF Pulls
    <3>2. ASSUME pulled.tags # <<>> PROVE LastPulled <= player.at /\ NoneMissing(LastPulled + 1)'
      <4>1. LastPulled <= player.at /\ NoneMissing(LastPulled + 1)
        BY <3>2 DEF Relaying, BehindPlayer
      <4>2. PICK from \in Nat \ {0} : from = LastPulled + 1
        BY <1>2
      <4>3. NoneMissing(from)'
        BY <1>8, <2>2, <4>1, <4>2
      <4>4. from = (LastPulled + 1)'
        BY <3>1, <4>2
      <4> QED
        BY <4>1, <4>3, <4>4
    <3> QED
      BY <1>2, <3>1, <3>2 DEF BehindPlayer
  <2> QED
    BY <2>1, <2>2
<1> QED
  BY <1>11, <1>14, <1>15, <1>16 DEF Relaying

\* Steps that touch no frame, except that the broadcast may grow.
LEMMA IdleFrames ==
  ASSUME FrameInv, FramesInv, LogKept, Numbered', pulled'.tags = pulled.tags, player'.at = player.at,
         client'.kind = client.kind,
         client'.pc # "ended" =>
           /\ client.pc # "ended"
           /\ IF server'.pc \in {"loop", "ended"}
              THEN server.pc \in {"loop", "ended"} /\ Idles
              ELSE server.pc \notin {"loop", "ended"}
  PROVE  FramesInv'
<1>1. TypeInv /\ player.at \in Nat /\ player.at <= Len(log)
  BY FrameTypes DEF FrameInv, FramesInv
<1>2. player'.at <= Len(log')
  BY <1>1 DEF LogKept
<1>3. Stretch'
  BY StretchKept DEF FramesInv
<1>4. ASSUME client.kind = "pull", client'.pc # "ended"
      PROVE  IF server'.pc \in {"loop", "ended"} THEN Relaying' ELSE pulled'.tags = <<>>
  <2>1. CASE server'.pc \in {"loop", "ended"}
    <3>1. Idles
      BY <1>4, <2>1
    <3>2. Relaying
      BY <1>4, <2>1 DEF FramesInv
    <3>3. Relaying'
      BY <1>1, <3>1, <3>2, IdlesRelays DEF FramesInv
    <3> QED
      BY <2>1, <3>3
  <2>2. CASE server'.pc \notin {"loop", "ended"}
    BY <1>4, <2>2 DEF FramesInv
  <2> QED
    BY <2>1, <2>2
<1> QED
  BY <1>2, <1>3, <1>4 DEF FramesInv

LEMMA CommandFrames ==
  ASSUME FrameInv, FramesInv, ServerConnects \/ ServerAnswers \/ ServerPlays
  PROVE  FramesInv'
<1>1. PICK names : ServerDoes(names)
  BY DEF ServerConnects, ServerAnswers, ServerPlays
<1>2. Took
  BY <1>1, ServerTake DEF ServerDoes
<1>3. TypeInv /\ server.pc = "loop" /\ client' = client /\ pulled' = pulled /\ log' = log
  BY <1>2 DEF Took, clientVars, roomVars
<1>4. LogKept /\ Numbered'
  BY <1>3, LogSame DEF FramesInv
<1>5. player'.at = player.at
  <2>1. player' = player \/ player' = [player EXCEPT !.pc = "snapshot"]
    BY DEF ServerConnects, ServerAnswers, ServerPlays
  <2> QED
    BY <1>3, <2>1 DEF TypeInv, PlayerType
<1>6. CASE client.pc = "ended"
  BY <1>3, <1>4, <1>5, <1>6, IdleFrames
<1>7. CASE client.pc # "ended"
  <2>1. Replies
    BY <1>7, ConnectsReplies, AnswersReplies, PlaysReplies
  <2>2. PICK M : Grows(M) /\ Reply(M)
    BY <2>1 DEF Replies
  <2>3. server'.pc \in {"loop", "ended"} /\ player'.todo = player.todo
        /\ (player'.pc = player.pc \/ player.pc = "off")
    BY <2>1 DEF Replies
  <2>4. \A m \in M : m.type # "frame"
    BY <2>2 DEF Reply
  <2>5. Idles
    BY <1>3, <1>4, <1>5, <2>2, <2>3, <2>4, GrowsIdles
  <2> QED
    BY <1>3, <1>4, <1>5, <1>7, <2>3, <2>5, IdleFrames
<1> QED
  BY <1>6, <1>7

LEMMA ServerRestFrames ==
  ASSUME FrameInv, HandshakeInv, FramesInv,
         ServerReadsPart \/ ServerFails \/ ServerSendsStatus
  PROVE  FramesInv'
<1>1. server.pc \in {"loop", "ended"}
  <2>1. CASE ServerFails
    <3>1. ~Handshaking
      BY <2>1, StillHandshaking DEF ServerFails
    <3> QED
      BY <3>1 DEF HandshakeInv, Through
  <2> QED
    BY <2>1 DEF ServerReadsPart, ServerTakes, Idle, ServerSendsStatus
<1>2. TypeInv /\ Connected
  BY <1>1 DEF FrameInv
<1>3. /\ client' = client /\ pulled' = pulled /\ log' = log /\ player' = player
      /\ \/ down' = down
         \/ server.pc = "loop" /\ server.todo # <<>> /\ Answer(Head(server.todo))
  BY DEF ServerReadsPart, ServerTakes, ServerFails, ServerSendsStatus, clientVars, roomVars
<1>4. LogKept /\ Numbered'
  BY <1>2, <1>3, LogSame DEF FramesInv
<1>5. server'.pc \in {"loop", "ended"}
  <2>1. \/ server' = [server EXCEPT !.part = ServerPart] \/ server' = [server EXCEPT !.pc = "ended"]
        \/ server' = [server EXCEPT !.todo = Tail(server.todo)]
    BY DEF ServerReadsPart, ServerFails, ServerSendsStatus
  <2> QED
    BY <1>1, <1>2, <2>1 DEF TypeInv, ServerType
<1>6. ASSUME client.pc # "ended" PROVE Idles
  <2>1. ASSUME NEW M, Grows(M), \A m \in M : m.type # "frame" PROVE Idles
    BY <1>3, <1>4, <2>1, GrowsIdles
  <2>2. CASE down' = down
    BY <2>1, <2>2, GrowsNot
  <2>3. CASE server.pc = "loop" /\ server.todo # <<>> /\ Answer(Head(server.todo))
    <3>1. server.chunk = OwnChunk /\ server.todo \in Seq(StatusMessages)
      BY <1>2, <2>3 DEF Connected, ServerPhase, TypeInv, ServerType
    <3>2. PICK m \in StatusMessages : m = Head(server.todo)
      BY <2>3, <3>1
    <3>3. Grows({m})
      BY <1>2, <1>6, <2>3, <3>1, <3>2, AnswerWritten, Messages
    <3>4. m.type = "command"
      BY AnswerFacts DEF StatusMessages
    <3> QED
      BY <2>1, <3>3, <3>4
  <2> QED
    BY <1>3, <2>2, <2>3
<1> QED
  BY <1>1, <1>3, <1>4, <1>5, <1>6, IdleFrames

LEMMA AsideFrames ==
  ASSUME FrameInv, HandshakeInv, FramesInv,
         \/ DeadlinePasses \/ ClientFails \/ PlayerLeaves \/ Collects \/ PlayerCommands
         \/ Publishes \/ PublishesMeta \/ PublishesFrame \/ PublisherLeaves \/ UNCHANGED vars
  PROVE  FramesInv'
<1>1. /\ server' = server /\ pulled' = pulled /\ player' = player
      /\ client' = client \/ client' = [client EXCEPT !.late = TRUE] \/ client' = [client EXCEPT !.pc = "ended"]
      /\ down' = down \/ PlayerLeaves
      /\ log' = log \/ PublishesMeta \/ PublishesFrame
  BY DEF DeadlinePasses, ClientFails, PlayerLeaves, Collects, Collect, Publishes, PublishesMeta,
     PublishesFrame, PublisherLeaves, PlayerCommands, vars, clientVars, roomVars
<1>2. DOMAIN client = ClientFields
  BY DEF HandshakeInv
<1>3. client'.pc \in {client.pc, "ended"} /\ client'.kind = client.kind
  BY <1>1, <1>2 DEF ClientFields
<1>4. down' = down \/ client'.pc = "ended"
  BY <1>1, <1>2 DEF PlayerLeaves, ClientFields
<1>5. LogKept /\ Numbered'
  BY <1>1, LogSame, LogGrows DEF FramesInv, FrameInv
<1>6. down' = down => Idles
  BY <1>1, <1>5, GrowsNot, GrowsIdles
<1> QED
  BY <1>1, <1>3, <1>4, <1>5, <1>6, IdleFrames

LEMMA EarlyFrames ==
  ASSUME FrameInv, FrameInv', HandshakeInv, FramesInv,
         \/ ClientHello \/ ServerReadsC0 \/ ServerReadsC1 \/ ClientReadsS0 \/ ClientReadsS2
         \/ ServerReadsC2
  PROVE  FramesInv'
<1>1. Handshaking /\ server.pc \in {"c0", "c1", "c2"}
  <2>1. ~Through
    BY DEF Through, ClientHello, ServerReadsC0, ServerReadsC1, ClientReadsS0, ClientReadsS2, ServerReadsC2
  <2> QED
    BY <2>1, StillHandshaking DEF HandshakeInv
<1>2. TypeInv /\ pulled' = pulled /\ pulled.tags = <<>> /\ player' = player /\ log' = log /\ gone' = gone
  BY <1>1 DEF FrameInv, Early, ClientHello, ServerReadsC0, ServerReadsC1, ClientReadsS0, ClientReadsS2,
     ServerReadsC2, clientVars, roomVars
<1>3. LogKept /\ Numbered'
  BY <1>2, LogSame DEF FramesInv
<1>4. Stretch' /\ player'.at <= Len(log')
  BY <1>2, <1>3, StretchKept DEF FramesInv
<1>5. server'.pc \in {"loop", "ended"} => Relaying'
  <2> SUFFICES ASSUME server'.pc \in {"loop", "ended"} PROVE Relaying'
    OBVIOUS
  <2>1. server'.app = "none"
    <3>1. server.app = "none" /\ DOMAIN server = ServerFields
      BY <1>1 DEF FrameInv, Early, HandshakeInv
    <3>2. CASE ClientHello \/ ClientReadsS0 \/ ClientReadsS2
      BY <3>1, <3>2 DEF ClientHello, ClientReadsS0, ClientReadsS2
    <3>3. CASE ServerReadsC0
      <4>1. PICK pc : server' = [server EXCEPT !.pc = pc]
        BY <3>3 DEF ServerReadsC0
      <4> QED
        BY <3>1, <4>1 DEF ServerFields
    <3>4. CASE ServerReadsC1
      <4>1. PICK mode, s1 : server' = [server EXCEPT !.pc = "c2", !.mode = mode, !.s1 = s1]
        BY <3>4 DEF ServerReadsC1
      <4> QED
        BY <3>1, <4>1 DEF ServerFields
    <3>5. CASE ServerReadsC2
      <4>1. PICK w : server' = [server EXCEPT !.pc = "loop", !.warned = w, !.mode = "over", !.s1 = Nil]
        BY <3>5 DEF ServerReadsC2
      <4> QED
        BY <3>1, <4>1 DEF ServerFields
    <3> QED
      BY <3>2, <3>3, <3>4, <3>5
  <2>2. down' = <<>>
    BY <2>1 DEF FrameInv, Connected, ServerPhase
  <2>3. player'.todo = <<>>
    BY <1>1, <1>2 DEF Handshaking
  <2>4. DOMAIN down' = {} /\ DOMAIN player'.todo = {}
    BY <2>2, <2>3
  <2> QED
    BY <1>2, <2>4, NothingRelays
<1> QED
  BY <1>2, <1>3, <1>4, <1>5 DEF FramesInv

\* A tag of the broadcast, in its chunks.
LEMMA TagFacts ==
  ASSUME NEW tag \in Tags
  PROVE  /\ TagMessage(tag) \in Media
         /\ TagMessage(tag).type = "frame" <=> tag.type # "meta"
         /\ tag.type # "meta" => TagMessage(tag).tag = tag
<1>1. TagMessage(tag) \in Media
  BY DEF Media
<1>2. CASE tag.type = "meta"
  BY <1>1, <1>2 DEF TagMessage, MetaMessage
<1>3. CASE tag.type # "meta"
  BY <1>1, <1>3 DEF TagMessage
<1> QED
  BY <1>2, <1>3

LEMMA FrameOfAll ==
  ASSUME NEW m \in Media, NEW todo, todo = Chunks(m, OwnChunk)
  PROVE  /\ \A i \in DOMAIN todo : IsFrame(todo[i]) => m.type = "frame" /\ todo[i].msg = m
         /\ m.type = "frame" => \E i \in DOMAIN todo : IsFrame(todo[i])
<1>1. m.len \in Nat \ {0}
  BY DownwardFacts DEF Downward
<1>2. DOMAIN todo = 1 .. Cut(m) /\ Cut(m) \in Nat \ {0} /\ \A i \in 1 .. Cut(m) : todo[i] = Part(m, i)
  BY <1>1, PartFacts
<1>3. \A i \in DOMAIN todo : todo[i].msg = m /\ todo[i].place = i
  BY <1>1, <1>2, PartFacts
<1>4. Cut(m) \in DOMAIN todo
  BY <1>2
<1> QED
  BY <1>3, <1>4 DEF IsFrame

\* Once the last chunk of a frame is next, nothing waits behind it.
LEMMA LastAlone ==
  ASSUME NEW todo \in Seq(Cuts(Media)), todo # <<>>, IsFrame(Head(todo)),
         NEW m \in Media, NEW i \in 1 .. Cut(m), Rest(todo, m, i)
  PROVE  DOMAIN todo = {1} /\ todo[1] = Head(todo) /\ Tail(todo) = <<>>
<1>1. m.len \in Nat \ {0}
  BY DownwardFacts DEF Downward
<1>2. PICK n \in Nat \ {0} : n = Cut(m)
  BY <1>1, PartFacts
<1>3. Head(todo) = Part(m, i) /\ Part(m, i).place = i /\ Part(m, i).msg = m
  <2>1. PICK S : S = Cuts(Media)
    OBVIOUS
  <2> QED
    BY <1>1, <2>1, RestFacts, PartFacts
<1>4. i = n
  BY <1>2, <1>3 DEF IsFrame
<1>5. Tail(todo) = <<>>
  BY <1>2, <1>4, RestFacts
<1>6. Len(todo) = 1
  <2>1. Len(todo) = n - i + 1
    BY <1>2 DEF Rest
  <2> QED
    BY <1>2, <1>4, <2>1
<1>7. DOMAIN todo = {1} /\ todo[1] = Head(todo)
  BY <1>6
<1> QED
  BY <1>5, <1>7

LEMMA TailKeeps ==
  ASSUME NEW S, NEW todo \in Seq(S), todo # <<>>
  PROVE  /\ todo[1] = Head(todo)
         /\ \A j \in DOMAIN todo : j # 1 => j - 1 \in DOMAIN Tail(todo) /\ Tail(todo)[j - 1] = todo[j]
         /\ \A k \in DOMAIN Tail(todo) : k + 1 \in DOMAIN todo /\ todo[k + 1] = Tail(todo)[k]
<1>1. PICK n \in Nat \ {0} : n = Len(todo) /\ DOMAIN todo = 1 .. n
  OBVIOUS
<1>2. PICK tail \in Seq(S) : tail = Tail(todo) /\ Len(tail) = n - 1
  <2>1. Tail(todo) \in Seq(S) /\ Len(Tail(todo)) = Len(todo) - 1
    BY HeadTailProperties
  <2> QED
    BY <1>1, <2>1
<1>3. DOMAIN tail = 1 .. n - 1
  BY <1>1, <1>2
<1>4. \A k \in 1 .. n - 1 : tail[k] = todo[k + 1]
  BY <1>1, <1>2
<1>5. \A j \in 1 .. n : j # 1 => j - 1 \in 1 .. n - 1 /\ j - 1 + 1 = j
  BY <1>1
<1>6. \A k \in 1 .. n - 1 : k + 1 \in 1 .. n
  BY <1>1
<1>7. \A j \in 1 .. n : j # 1 => tail[j - 1] = todo[j]
  BY <1>4, <1>5
<1> QED
  BY <1>1, <1>2, <1>3, <1>4, <1>5, <1>6, <1>7

LEMMA PlayerFramesStep ==
  ASSUME FrameInv, FrameInv', HandshakeInv, FramesInv, PlayerSteps
  PROVE  FramesInv'
<1>1. /\ TypeInv /\ Connected /\ server.pc \in {"loop", "ended"}
      /\ client' = client /\ pulled' = pulled /\ log' = log /\ server' = server /\ gone' = gone
      /\ \/ down' = down /\ (PlayerSendsChunk => client.pc = "ended")
         \/ client.pc = "ended"
         \/ /\ PlayerSendsChunk /\ player.todo # <<>>
            /\ Head(player.todo) \in Cuts(Media) /\ Adds(Head(player.todo))
  BY PlayerGrows DEF clientVars, roomVars, Connected, ServerPhase
<1>2. LogKept /\ Numbered'
  BY <1>1, LogSame DEF FramesInv
<1>3. Stretch'
  BY <1>1, <1>2, StretchKept DEF FramesInv
<1>4. PICK S : /\ player \in [pc : {"off", "snapshot", "headers", "read", "ended"}, todo : Seq(S), at : Nat]
               /\ S = Cuts(Media)
  BY <1>1 DEF TypeInv, PlayerType
<1>5. log \in Seq(Tags) /\ Len(log) \in Nat /\ DOMAIN log = 1 .. Len(log) /\ player.at <= Len(log)
      /\ Numbered
  BY <1>1 DEF TypeInv, RoomType, FramesInv
<1>6. ASSUME player'.at <= Len(log), client.kind = "pull" /\ client.pc # "ended" /\ Relaying => Relaying'
      PROVE  FramesInv'
  BY <1>1, <1>2, <1>3, <1>6 DEF FramesInv
<1>7. client.pc # "ended" => server.chunk = OwnChunk \/ player.pc = "off"
  BY <1>1 DEF Connected, ServerPhase, TypeInv, ServerType
<1>8. CASE PlayerSnapshots
  <2>1. /\ player.pc = "snapshot" /\ down' = down
        /\ player' = [player EXCEPT !.pc = "headers",
             !.todo = IF meta = Nil THEN <<>> ELSE Chunks(MetaMessage, server.chunk)]
    BY <1>8 DEF PlayerSnapshots
  <2>2. player'.at = player.at
    BY <1>4, <2>1
  <2>3. ASSUME client.pc # "ended", Relaying PROVE Relaying'
    <3>1. pulled.tags = <<>> /\ \A k \in DOMAIN down : ~IsFrame(down[k])
      BY <2>1, <2>3 DEF Relaying, NoFrames
    <3>2. MetaMessage \in Media /\ MetaMessage.type # "frame"
      BY Messages DEF MetaMessage
    <3>3. PICK todo : todo = Chunks(MetaMessage, OwnChunk)
      OBVIOUS
    <3>4. player'.todo = <<>> \/ player'.todo = todo
      BY <1>4, <1>7, <2>1, <2>3, <3>3
    <3>5. \A k \in DOMAIN player'.todo : ~IsFrame(player'.todo[k])
      <4>1. CASE player'.todo = <<>>
        BY <4>1
      <4>2. CASE player'.todo = todo
        <5>1. \A k \in DOMAIN todo : ~IsFrame(todo[k])
          BY <3>2, <3>3, FrameOfAll
        <5> QED
          BY <4>2, <5>1
      <4> QED
        BY <3>4, <4>1, <4>2
    <3> QED
      BY <1>1, <2>1, <3>1, <3>5, NothingRelays
  <2> QED
    BY <1>5, <1>6, <2>2, <2>3
<1>9. CASE PlayerSubscribes
  <2>1. PICK at \in Nat : at = GopStart /\ at <= Len(log)
    BY <1>1, <1>5, StartInLog
  <2>2. /\ player.pc = "headers" /\ player.todo = <<>> /\ down' = down
        /\ player' = [player EXCEPT !.pc = "read", !.at = at]
    BY <1>9, <2>1 DEF PlayerSubscribes
  <2>3. player'.at = at /\ player'.todo = <<>>
    BY <1>4, <2>2
  <2>4. ASSUME Relaying PROVE Relaying'
    <3>1. pulled.tags = <<>> /\ \A k \in DOMAIN down : ~IsFrame(down[k])
      BY <2>2, <2>4 DEF Relaying, NoFrames
    <3>2. \A k \in DOMAIN player'.todo : ~IsFrame(player'.todo[k])
      BY <2>3
    <3> QED
      BY <1>1, <2>2, <3>1, <3>2, NothingRelays
  <2> QED
    BY <1>6, <2>1, <2>3, <2>4
<1>10. CASE PlayerReads
  <2>1. PICK at \in Nat : at = player.at /\ at + 1 \in DOMAIN log
    BY <1>4, <1>5, <1>10 DEF PlayerReads
  <2>2. PICK tag \in Tags : tag = log[at + 1]
    BY <1>5, <2>1
  <2>3. /\ player.pc = "read" /\ player.todo = <<>> /\ down' = down
        /\ player' = [player EXCEPT !.at = at + 1, !.todo = Chunks(TagMessage(tag), server.chunk)]
    BY <1>10, <2>1, <2>2 DEF PlayerReads
  <2>4. /\ player'.at = at + 1 /\ player'.pc = "read"
        /\ player'.todo = Chunks(TagMessage(tag), server.chunk)
    BY <1>4, <2>3
  <2>5. player'.at <= Len(log)
    BY <1>5, <2>1, <2>4
  <2>6. ASSUME client.pc # "ended", Relaying PROVE Relaying'
    <3>1. PICK m \in Media : m = TagMessage(tag)
      BY TagFacts
    <3>2. PICK todo : todo = Chunks(m, OwnChunk)
      OBVIOUS
    <3>3. player'.todo = todo
      BY <1>7, <2>3, <2>4, <2>6, <3>1, <3>2
    <3>4. /\ \A i \in DOMAIN todo : IsFrame(todo[i]) => tag.type # "meta" /\ todo[i].msg.tag = tag
          /\ tag.type # "meta" => \E i \in DOMAIN todo : IsFrame(todo[i])
      BY <3>1, <3>2, FrameOfAll, TagFacts
    <3>5. Queues
      BY <1>1, <2>1, <2>2, <2>3, <2>4, <3>3, <3>4 DEF Queues
    <3> QED
      BY <1>1, <1>5, <2>6, <3>5, QueuesRelays
  <2> QED
    BY <1>6, <2>5, <2>6
<1>11. CASE PlayerSendsChunk
  <2>1. player.todo # <<>> /\ player' = [player EXCEPT !.todo = Tail(player.todo)]
        /\ Written(<<Head(player.todo)>>)
    BY <1>11 DEF PlayerSendsChunk
  <2>2. player'.at = player.at /\ player'.pc = player.pc /\ player'.todo = Tail(player.todo)
    BY <1>4, <2>1
  <2>3. ASSUME client.pc # "ended", Relaying PROVE Relaying'
    <3>1. PICK c \in Cuts(Media) : c = Head(player.todo) /\ Adds(c)
      BY <1>1, <1>11, <2>3
    <3>2. PICK todo \in Seq(Cuts(Media)) : todo = player.todo /\ todo # <<>> /\ c = Head(todo)
      BY <1>4, <2>1, <3>1
    <3>3. CASE IsFrame(c)
      <4>1. PICK m \in Media : \E i \in 1 .. Cut(m) : Rest(todo, m, i)
        BY <1>1, <3>2 DEF Connected, TodoInv
      <4>2. DOMAIN todo = {1} /\ todo[1] = c /\ Tail(todo) = <<>>
        BY <3>2, <3>3, <4>1, LastAlone
      <4>3. DOMAIN down' \subseteq Nat
        BY <1>1, <2>3, DownPlaces
      <4>4. Passes(c)
        BY <1>1, <2>2, <3>1, <3>2, <3>3, <4>2, <4>3 DEF Passes
      <4> QED
        BY <1>1, <1>2, <1>5, <2>3, <4>4, PassesRelays
    <3>4. CASE ~IsFrame(c)
      <4>1. /\ \A k \in DOMAIN down : k \in DOMAIN down' /\ down'[k] = down[k]
            /\ \A k \in DOMAIN down' : IsFrame(down'[k]) => k \in DOMAIN down
        BY <3>1, <3>4 DEF Adds, Grows
      <4>2. PICK tail : tail = Tail(todo)
        OBVIOUS
      <4>3. /\ todo[1] = c
            /\ \A j \in DOMAIN todo : j # 1 => \E k \in DOMAIN tail : tail[k] = todo[j]
            /\ \A k \in DOMAIN tail : \E j \in DOMAIN todo : todo[j] = tail[k]
        BY <3>2, <4>2, TailKeeps
      <4>4. player.todo = todo /\ player'.todo = tail
        BY <2>2, <3>2, <4>2
      <4>5. Idles
        BY <1>1, <1>2, <2>2, <3>4, <4>1, <4>3, <4>4 DEF Idles
      <4> QED
        BY <1>1, <1>5, <2>3, <4>5, IdlesRelays
    <3> QED
      BY <3>3, <3>4
  <2> QED
    BY <1>5, <1>6, <2>2, <2>3
<1>12. CASE PlayerEnds
  <2>1. player' = [player EXCEPT !.pc = "ended", !.todo = <<>>] /\ down' = down
        /\ (player.todo = <<>> \/ "client" \in gone)
    BY <1>12 DEF PlayerEnds
  <2>2. player'.at = player.at /\ player'.pc = "ended" /\ player'.todo = <<>>
    BY <1>4, <2>1
  <2>3. ASSUME client.pc # "ended", Relaying PROVE Relaying'
    <3>1. player'.todo = player.todo
      BY <1>1, <2>1, <2>2, <2>3 DEF Connected, ClientPhase
    <3>2. Idles
      BY <1>1, <1>2, <2>1, <2>2, <3>1, GrowsNot, GrowsIdles
    <3> QED
      BY <1>1, <1>5, <2>3, <3>2, IdlesRelays
  <2> QED
    BY <1>5, <1>6, <2>2, <2>3
<1> QED
  BY <1>8, <1>9, <1>10, <1>11, <1>12 DEF PlayerSteps

\* The client takes a chunk; a whole frame goes to the room of a pull client.
LEMMA TakesPulls ==
  ASSUME Takes, FramesInv, FrameInv', client'.kind = client.kind,
         IF client.kind = "pull" /\ Got.type = "frame" /\ Whole(ClientPart)
         THEN pulled'.tags = Append(pulled.tags, Got.tag) ELSE pulled'.tags = pulled.tags
  PROVE  FramesInv'
<1>1. /\ TypeInv /\ Connected /\ down # <<>> /\ down' = Tail(down)
      /\ client.pc # "ended" /\ Got \in Downward /\ down[1].msg = Got
      /\ (Whole(ClientPart) <=> down[1].place = Cut(Got))
      /\ UNCHANGED <<server, player, log>> /\ server.pc \in {"loop", "ended"}
  BY DEF Takes, TakesDown, Connected, ServerPhase
<1>2. LogKept /\ Numbered' /\ player'.at <= Len(log') /\ player.at <= Len(log) /\ Stretch
  BY <1>1, LogSame DEF FramesInv
<1>3. CASE client.kind # "pull"
  <2>1. Stretch'
    BY <1>2, <1>3, StretchKept
  <2> QED
    BY <1>2, <1>3, <2>1 DEF FramesInv
<1>4. CASE client.kind = "pull"
  <2>1. Relaying
    BY <1>1, <1>4 DEF FramesInv
  <2>2. Shifts
    <3>1. down \in Seq(DownChunks)
      BY <1>1 DEF Connected, DownInv
    <3> QED
      BY <1>1, <3>1, ShiftsBy
  <2>3. IsFrame(down[1]) <=> Got.type = "frame" /\ Whole(ClientPart)
    BY <1>1 DEF IsFrame
  <2>4. IsFrame(down[1]) => down[1].msg.tag \in Frames
    BY <1>1, <2>3, MediaFacts DEF IsFrame
  <2>5. Pulls
    BY <1>1, <1>4, <2>2, <2>3 DEF Pulls
  <2>6. Stretch'
    BY <1>1, <1>2, <2>1, <2>4, <2>5, PullsStretch
  <2>7. Relaying'
    BY <1>1, <1>2, <2>1, <2>4, <2>5, PullsRelays
  <2> QED
    BY <1>1, <1>2, <2>6, <2>7 DEF FramesInv
<1> QED
  BY <1>3, <1>4

LEMMA ClientFramesStep ==
  ASSUME FrameInv, FrameInv', HandshakeInv, FramesInv,
         ClientReadsControl \/ ClientReadsCommand \/ ClientReadsMedia
  PROVE  FramesInv'
<1>1. DOMAIN client = ClientFields
  BY DEF HandshakeInv
<1>2. CASE ClientReadsControl
  <2>1. /\ ClientTakes /\ Whole(ClientPart) /\ pulled' = pulled /\ Got.type # "frame"
        /\ client' = [client EXCEPT !.part = NoMessage, !.pc = AfterMessage,
                      !.chunk = IF Got.type = "setChunkSize" THEN OwnChunk ELSE client.chunk]
    BY <1>2 DEF ClientReadsControl, ClientReads
  <2>2. /\ client'.chunk = IF Got.type = "setChunkSize" THEN OwnChunk ELSE client.chunk
        /\ client'.kind = client.kind
        /\ client'.part = IF Whole(ClientPart) THEN NoMessage ELSE ClientPart
    BY <1>1, <2>1 DEF ClientFields
  <2>3. Takes
    BY <2>1, <2>2, ClientTake
  <2> QED
    BY <2>1, <2>2, <2>3, TakesPulls
<1>3. CASE ClientReadsMedia
  <2>1. /\ ClientTakes /\ Got.type \in {"meta", "frame"}
        /\ client' = IF Whole(ClientPart)
                     THEN [client EXCEPT !.part = NoMessage, !.pc = AfterMessage]
                     ELSE [client EXCEPT !.part = ClientPart]
        /\ pulled' = IF client.kind # "pull" \/ ~Whole(ClientPart) THEN pulled
                     ELSE IF Got.type = "meta" THEN [pulled EXCEPT !.meta = RelayedMeta]
                     ELSE [pulled EXCEPT !.tags = Append(@, IF ClientPart.mixed THEN [type |-> "mixed"]
                                                            ELSE Got.tag)]
    BY <1>3 DEF ClientReadsMedia
  <2>2. /\ client'.chunk = IF Got.type = "setChunkSize" THEN OwnChunk ELSE client.chunk
        /\ client'.kind = client.kind
        /\ client'.part = IF Whole(ClientPart) THEN NoMessage ELSE ClientPart
    BY <1>1, <2>1 DEF ClientFields
  <2>3. Takes
    BY <2>1, <2>2, ClientTake
  <2>4. ~ClientPart.mixed
    BY <2>3 DEF Takes
  <2>5. IF client.kind = "pull" /\ Got.type = "frame" /\ Whole(ClientPart)
        THEN pulled'.tags = Append(pulled.tags, Got.tag) ELSE pulled'.tags = pulled.tags
    <3>1. DOMAIN pulled = {"meta", "tags"}
      BY <2>3 DEF Takes, TypeInv, PulledType
    <3>2. PICK tags : tags = Append(pulled.tags, Got.tag)
      OBVIOUS
    <3>3. CASE client.kind # "pull" \/ ~Whole(ClientPart)
      BY <2>1, <3>3
    <3>4. CASE client.kind = "pull" /\ Whole(ClientPart) /\ Got.type = "meta"
      <4>1. pulled' = [pulled EXCEPT !.meta = RelayedMeta]
        BY <2>1, <2>4, <3>4
      <4> QED
        BY <3>1, <3>4, <4>1
    <3>5. CASE client.kind = "pull" /\ Whole(ClientPart) /\ Got.type = "frame"
      <4>1. pulled' = [pulled EXCEPT !.tags = tags]
        BY <2>1, <2>4, <3>2, <3>5
      <4>2. pulled'.tags = tags
        BY <3>1, <4>1
      <4> QED
        BY <3>2, <3>5, <4>2
    <3> QED
      BY <2>1, <3>3, <3>4, <3>5
  <2> QED
    BY <2>2, <2>3, <2>5, TakesPulls
<1>4. CASE ClientReadsCommand
  <2>1. /\ ClientTakes /\ Whole(ClientPart) /\ Got.type = "command" /\ pulled' = pulled
        /\ client' = [client EXCEPT !.part = NoMessage, !.results = Counted,
                  !.pc = CASE NextAsked = <<"createStream">> -> "createStream"
                           [] NextAsked = <<"play">> -> "loop"
                           [] OTHER -> AfterMessage,
                  !.expect = Counted, !.late = IF NextAsked = <<>> THEN client.late ELSE FALSE]
    BY <1>4 DEF ClientReadsCommand, ClientReads, AnswerRead, Counted, NextAsked
  <2>2. client'.chunk = client.chunk /\ client'.kind = client.kind /\ client'.part = NoMessage
    BY <1>1, <2>1 DEF ClientFields
  <2>3. Takes
    BY <2>1, <2>2, ClientTake
  <2> QED
    BY <2>1, <2>2, <2>3, TakesPulls
<1> QED
  BY <1>2, <1>3, <1>4

LEMMA FramesInit == Init => FramesInv
<1> SUFFICES ASSUME Init PROVE FramesInv
  OBVIOUS
<1>1. pulled = [meta |-> Nil, tags |-> <<>>] /\ log = <<>> /\ player.at = 0 /\ server.pc = "c0"
  BY DEF Init
<1>2. DOMAIN log = {} /\ Len(log) = 0 /\ pulled.tags = <<>> /\ DOMAIN pulled.tags = {} /\ Len(pulled.tags) = 0
  BY <1>1
<1>3. Stretch
  BY <1>2 DEF Stretch
<1> QED
  BY <1>1, <1>2, <1>3 DEF FramesInv, Numbered

LEMMA FramesNext ==
  ASSUME FrameInv, FrameInv', HandshakeInv, FramesInv, [Next]_vars PROVE FramesInv'
<1>1. CASE ClientSteps
  BY <1>1, EarlyFrames, ClientFramesStep DEF ClientSteps
<1>2. CASE ServerSteps
  BY <1>2, EarlyFrames, ServerRestFrames, CommandFrames DEF ServerSteps
<1>3. CASE PlayerSteps
  BY <1>3, PlayerFramesStep
<1>4. CASE \/ Leaving \/ DeadlinePasses \/ PlayerCommands
           \/ Publishes \/ PublishesMeta \/ PublishesFrame \/ PublisherLeaves \/ UNCHANGED vars
  BY <1>4, AsideFrames DEF Leaving
<1> QED
  BY <1>1, <1>2, <1>3, <1>4 DEF Next

(* As long as no answer is written between two chunks of a frame, what a pull *)
(* client's room is given is a stretch of the upstream's frames, of any size:  *)
(* each is put together from its own chunks, none comes twice or out of place, *)
(* and none is missing in between (room.go:113-145, client.go:86-122).         *)
THEOREM PulledCorrect == Spec => []PulledIsAStretch
<1> DEFINE Inv == torn \/ (FrameInv /\ FramesInv)
<1>1. Init => Inv
  BY FrameInit, FramesInit
<1>2. Inv /\ HandshakeInv /\ [Next]_vars => Inv'
  BY FrameNext, FramesNext, TornStays
<1>3. Inv => PulledIsAStretch
  BY DEF FramesInv, PulledIsAStretch
<1> QED
  BY <1>1, <1>2, <1>3, HandshakeAlways, PTL DEF Spec
=============================================================================
