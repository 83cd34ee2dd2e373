--------------------------- MODULE WsFlvConnProofs ---------------------------
(***************************************************************************)
(* A WebSocket viewer that neither pings nor leaves gets whole frames, for  *)
(* any number of tags: of the three goroutines that write to its connection *)
(* two are silent until the first has ended.                                *)
(***************************************************************************)
EXTENDS WsFlvConn, TLAPS

Quiet == pings = 0 /\ ~closing

\* Frames of a wire in which the last piece may be a header.
Whole(w) == \A i \in 1 .. Len(w) - 1 :
                w[i].part = "header" => w[i + 1] = [by |-> w[i].by, part |-> "payload"]
LastIsHeader(w) == Len(w) > 0 /\ w[Len(w)].part = "header"

(* Who may have ended, and why: the handler closes for a goroutine that is     *)
(* done or a client that is closing, nobody else does, and servePings ends     *)
(* only for the latter.                                                        *)
HandlerHasReason == pc["http"] # "wait" => done \/ closing
HandlerCloses == ~open => pc["http"] = "ended"
PingsHaveReason == stop => closing \/ ~open
JoinIsDone == done => pc["join"] = "ended"
PongAnswers == pc["ping"] = "payload" => pings > 0

(* Each piece is of a tag, a pong or the close frame; a payload to come is     *)
(* reserved.                                                                   *)
Reserved(g) == IF pc[g] = "payload" THEN 1 ELSE 0
Closed == IF pc["http"] \in {"close", "ended"} THEN 1 ELSE 0
WireBound == Len(wire) <= 2 * tags - Reserved("join") + 2 * pings - Reserved("ping") + Closed

(* What is on the wire of a quiet viewer.                                      *)
QuietWire ==
    Quiet => /\ Whole(wire)
             /\ pc["join"] = "payload" =>
                   Len(wire) > 0 /\ wire[Len(wire)] = [by |-> "join", part |-> "header"]
             /\ pc["join"] # "payload" => ~LastIsHeader(wire)

Types ==
    /\ pc \in [Goroutines -> {"wait", "payload", "header", "close", "ended"}]
    /\ pc["http"] # "payload"
    /\ wire \in Seq(Piece)
    /\ open \in BOOLEAN /\ closing \in BOOLEAN /\ dead \in BOOLEAN
    /\ stop \in BOOLEAN /\ done \in BOOLEAN
    /\ pings \in 0 .. MaxPings /\ tags \in 0 .. MaxTags

Reasons == HandlerHasReason /\ HandlerCloses /\ PingsHaveReason /\ JoinIsDone /\ PongAnswers
ConnInv == Types /\ Reasons /\ WireBound /\ QuietWire

\* A piece may follow what does not end in a header, or is its own payload.
LEMMA AppendWhole ==
  ASSUME NEW w \in Seq(Piece), NEW p \in Piece, Whole(w),
         ~LastIsHeader(w) \/ p = [by |-> w[Len(w)].by, part |-> "payload"]
  PROVE  Whole(Append(w, p))
<1> SUFFICES ASSUME NEW i \in 1 .. Len(Append(w, p)) - 1, Append(w, p)[i].part = "header"
             PROVE  Append(w, p)[i + 1] = [by |-> Append(w, p)[i].by, part |-> "payload"]
  BY DEF Whole
<1>1. Len(Append(w, p)) = Len(w) + 1 /\ Len(w) \in Nat /\ i \in 1 .. Len(w)
  OBVIOUS
<1>2. Append(w, p)[i] = w[i] /\ Append(w, p)[Len(w) + 1] = p
  BY <1>1
<1>3. CASE i < Len(w)
  <2>1. i \in 1 .. Len(w) - 1 /\ Append(w, p)[i + 1] = w[i + 1]
    BY <1>1, <1>3
  <2> QED
    BY <1>2, <2>1 DEF Whole
<1>4. CASE i = Len(w)
  <2>1. LastIsHeader(w)
    BY <1>1, <1>2, <1>4 DEF LastIsHeader
  <2> QED
    BY <1>2, <1>4, <2>1
<1> QED
  BY <1>1, <1>3, <1>4

\* What Put leaves on the wire.
LEMMA Putting ==
  ASSUME wire \in Seq(Piece), NEW g \in Goroutines,
         NEW part \in {"header", "payload", "empty"}, Put(g, part)
  PROVE  /\ wire' \in Seq(Piece)
         /\ Len(wire') = Len(wire) + 1 /\ Len(wire) \in Nat
         /\ wire'[Len(wire')] = [by |-> g, part |-> part]
         /\ Whole(wire) /\ ~LastIsHeader(wire) => Whole(wire')
         /\ Whole(wire) /\ Len(wire) > 0 /\ wire[Len(wire)].by = g /\ part = "payload"
              => Whole(wire')
<1>1. [by |-> g, part |-> part] \in Piece
  BY DEF Piece
<1>2. wire' = Append(wire, [by |-> g, part |-> part])
  BY DEF Put
<1> QED
  BY <1>1, <1>2, AppendWhole

LEMMA ConnInit == Init => ConnInv
<1> SUFFICES ASSUME Init PROVE ConnInv
  OBVIOUS
<1> USE WsAssumption DEF WsAssumption, Init, Goroutines
<1>1. Types
  <2>1. pings \in 0 .. MaxPings /\ tags \in 0 .. MaxTags
    OBVIOUS
  <2>2. wire \in Seq(Piece)
    OBVIOUS
  <2>3. pc \in [Goroutines -> {"wait", "payload", "header", "close", "ended"}] /\ pc["http"] # "payload"
    OBVIOUS
  <2> QED
    BY <2>1, <2>2, <2>3 DEF Types
<1>2. Reasons
  BY DEF Reasons, HandlerHasReason, HandlerCloses, PingsHaveReason, JoinIsDone, PongAnswers
<1>3. WireBound
  BY DEF WireBound, Reserved, Closed
<1>4. QuietWire
  BY DEF QuietWire, Whole, LastIsHeader
<1> QED
  BY <1>1, <1>2, <1>3, <1>4 DEF ConnInv

LEMMA TypesNext == ConnInv /\ [Next]_vars => Types'
<1> SUFFICES ASSUME ConnInv, [Next]_vars PROVE Types'
  OBVIOUS
<1> USE WsAssumption DEF WsAssumption, ConnInv, Types, Goroutines
<1>1. CASE JoinHeader
  BY <1>1, Putting DEF JoinHeader
<1>2. CASE JoinPayload
  BY <1>2, Putting DEF JoinPayload
<1>3. CASE JoinDead \/ JoinWriteError
  BY <1>3 DEF JoinDead, JoinWriteError, JoinEnds
<1>4. CASE PongHeader
  BY <1>4, Putting DEF PongHeader
<1>5. CASE PongPayload
  BY <1>5, Putting DEF PongPayload
<1>6. CASE PingsEnd
  BY <1>6 DEF PingsEnd
<1>7. CASE Select \/ CloseConn
  BY <1>7 DEF Select, CloseConn
<1>8. CASE CloseFrame
  BY <1>8, Putting DEF CloseFrame
<1>9. CASE ClientClose \/ RoomClosed
  BY <1>9 DEF ClientClose, RoomClosed
<1>10. CASE UNCHANGED vars
  BY <1>10 DEF vars
<1> QED
  BY <1>1, <1>2, <1>3, <1>4, <1>5, <1>6, <1>7, <1>8, <1>9, <1>10
     DEF Next, Join, ServePings, Handler

LEMMA ReasonsNext == ConnInv /\ [Next]_vars => Reasons'
<1> SUFFICES ASSUME ConnInv, [Next]_vars PROVE Reasons'
  OBVIOUS
<1> USE DEF ConnInv, Types, Goroutines, Reasons, HandlerHasReason, HandlerCloses,
            PingsHaveReason, JoinIsDone, PongAnswers
<1>1. CASE JoinHeader
  BY <1>1 DEF JoinHeader
<1>2. CASE JoinPayload
  BY <1>2 DEF JoinPayload
<1>3. CASE JoinDead \/ JoinWriteError
  BY <1>3 DEF JoinDead, JoinWriteError, JoinEnds
<1>4. CASE PongHeader
  BY <1>4 DEF PongHeader
<1>5. CASE PongPayload
  BY <1>5 DEF PongPayload
<1>6. CASE PingsEnd
  BY <1>6 DEF PingsEnd
<1>7. CASE Select
  \* Not for a closed connection alone: that takes a handler that has ended.
  BY <1>7 DEF Select
<1>8. CASE CloseFrame \/ CloseConn
  BY <1>8 DEF CloseFrame, CloseConn
<1>9. CASE ClientClose \/ RoomClosed
  BY <1>9 DEF ClientClose, RoomClosed
<1>10. CASE UNCHANGED vars
  BY <1>10 DEF vars
<1> QED
  BY <1>1, <1>2, <1>3, <1>4, <1>5, <1>6, <1>7, <1>8, <1>9, <1>10
     DEF Next, Join, ServePings, Handler

LEMMA BoundNext == ConnInv /\ [Next]_vars => WireBound'
<1> SUFFICES ASSUME ConnInv, [Next]_vars PROVE WireBound'
  OBVIOUS
<1> USE WsAssumption DEF WsAssumption, ConnInv, Types, Goroutines, WireBound, Reserved, Closed
<1>1. CASE JoinHeader
  BY <1>1, Putting DEF JoinHeader
<1>2. CASE JoinPayload
  BY <1>2, Putting DEF JoinPayload
<1>3. CASE JoinDead \/ JoinWriteError
  <2>1. UNCHANGED <<wire, tags, pings>> /\ pc' = [pc EXCEPT !["join"] = "ended"]
    BY <1>3 DEF JoinDead, JoinWriteError, JoinEnds
  <2>2. Reserved("join")' = 0 /\ Reserved("ping")' = Reserved("ping") /\ Closed' = Closed
    BY <2>1
  <2>3. Reserved("join") \in 0 .. 1 /\ Reserved("ping") \in 0 .. 1 /\ Closed \in 0 .. 1
    OBVIOUS
  <2>4. Len(wire) \in Nat /\ tags \in Nat /\ pings \in Nat
    OBVIOUS
  <2> HIDE DEF Reserved, Closed
  <2> QED
    BY <2>1, <2>2, <2>3, <2>4
<1>4. CASE PongHeader
  <2>1. Len(wire') = Len(wire) + 1 /\ Len(wire) \in Nat
    BY <1>4, Putting DEF PongHeader
  <2>2. pings' = pings + 1 /\ tags' = tags
        /\ (pc' = pc \/ pc' = [pc EXCEPT !["ping"] = "payload"]) /\ pc["ping"] = "wait"
    BY <1>4 DEF PongHeader
  <2> QED
    BY <2>1, <2>2
<1>5. CASE PongPayload
  BY <1>5, Putting DEF PongPayload
<1>6. CASE PingsEnd
  BY <1>6 DEF PingsEnd
<1>7. CASE Select \/ CloseConn
  BY <1>7 DEF Select, CloseConn
<1>8. CASE CloseFrame
  <2>1. Len(wire') = Len(wire) + 1 /\ Len(wire) \in Nat
    BY <1>8, Putting DEF CloseFrame
  <2>2. /\ UNCHANGED <<pings, tags>>
        /\ pc["http"] = "header" /\ pc' = [pc EXCEPT !["http"] = "close"]
    BY <1>8 DEF CloseFrame
  <2>3. UNCHANGED <<Reserved("join"), Reserved("ping")>> /\ Closed = 0 /\ Closed' = 1
    BY <2>2
  <2>4. Reserved("join") \in 0 .. 1 /\ Reserved("ping") \in 0 .. 1
    OBVIOUS
  <2>5. tags \in Nat /\ pings \in Nat
    OBVIOUS
  <2> HIDE DEF Reserved, Closed
  <2> QED
    BY <2>1, <2>2, <2>3, <2>4, <2>5
<1>9. CASE ClientClose \/ RoomClosed
  BY <1>9 DEF ClientClose, RoomClosed
<1>10. CASE UNCHANGED vars
  BY <1>10 DEF vars
<1> QED
  BY <1>1, <1>2, <1>3, <1>4, <1>5, <1>6, <1>7, <1>8, <1>9, <1>10
     DEF Next, Join, ServePings, Handler

LEMMA QuietNext == ConnInv /\ [Next]_vars => QuietWire'
<1> SUFFICES ASSUME ConnInv, [Next]_vars, Quiet' PROVE QuietWire'
  BY DEF QuietWire
<1> USE WsAssumption DEF WsAssumption, ConnInv, Types, Goroutines
\* A client that has pinged or left is never quiet again.
<1>1. Quiet
  BY DEF Quiet, Next, Join, ServePings, Handler, JoinHeader, JoinPayload, JoinDead,
         JoinWriteError, JoinEnds, PongHeader, PongPayload, PingsEnd, Select, CloseFrame,
         CloseConn, ClientClose, RoomClosed, vars
<1>2. /\ Whole(wire)
      /\ pc["join"] = "payload" => /\ Len(wire) > 0
                                   /\ wire[Len(wire)] = [by |-> "join", part |-> "header"]
      /\ pc["join"] # "payload" => ~LastIsHeader(wire)
  BY <1>1 DEF QuietWire
<1>3. CASE JoinHeader
  <2>1. Put("join", "header") /\ pc'["join"] = "payload" /\ ~LastIsHeader(wire)
    BY <1>2, <1>3 DEF JoinHeader
  <2> QED
    BY <1>2, <2>1, Putting DEF QuietWire
<1>4. CASE JoinPayload
  <2>1. Put("join", "payload") /\ pc'["join"] = "wait" /\ pc["join"] = "payload"
    BY <1>4 DEF JoinPayload
  <2>2. Len(wire) > 0 /\ wire[Len(wire)].by = "join"
    BY <1>2, <2>1
  <2> QED
    BY <1>2, <2>1, <2>2, Putting DEF QuietWire, LastIsHeader
\* A write cannot fail: whoever closes the connection waited for join to end.
<1>5. CASE JoinDead \/ JoinWriteError
  <2>1. open
    BY <1>1, <1>5 DEF Quiet, Reasons, HandlerHasReason, HandlerCloses, JoinIsDone,
                      JoinDead, JoinWriteError
  <2>2. pc["join"] = "wait" /\ UNCHANGED wire /\ pc'["join"] = "ended"
    BY <1>1, <1>5, <2>1 DEF Quiet, JoinDead, JoinWriteError, JoinEnds
  <2> QED
    BY <1>2, <2>2 DEF QuietWire
<1>6. CASE PongHeader
  BY <1>6 DEF PongHeader, Quiet
<1>7. CASE PongPayload
  BY <1>1, <1>7 DEF PongPayload, Quiet, Reasons, PongAnswers
\* The close frame: the handler's reason is that join is done.
<1>8. CASE CloseFrame
  <2>1. Put("http", "empty") /\ pc'["join"] = "ended" /\ pc["join"] = "ended"
    BY <1>1, <1>8 DEF CloseFrame, Quiet, Reasons, HandlerHasReason, JoinIsDone
  <2> QED
    BY <1>2, <2>1, Putting DEF QuietWire, LastIsHeader
<1>9. CASE PingsEnd \/ Select \/ CloseConn \/ ClientClose \/ RoomClosed \/ UNCHANGED vars
  <2>1. UNCHANGED wire /\ pc'["join"] = pc["join"]
    BY <1>9 DEF PingsEnd, Select, CloseConn, ClientClose, RoomClosed, vars
  <2> QED
    BY <1>2, <2>1 DEF QuietWire
<1> QED
  BY <1>3, <1>4, <1>5, <1>6, <1>7, <1>8, <1>9 DEF Next, Join, ServePings, Handler

(* The reasons, the bound and the frames hold in every state.                  *)
THEOREM ConnInvariant == Spec => []ConnInv
<1>1. ConnInv /\ [Next]_vars => ConnInv'
  BY TypesNext, ReasonsNext, BoundNext, QuietNext DEF ConnInv
<1> QED
  BY ConnInit, <1>1, PTL DEF Spec

(* No goroutine writes more pieces than its tags, pongs and close frame have,  *)
(* for any bounds (websocket.go:90-175).                                       *)
THEOREM TypeCorrect == Spec => []TypeOK
<1>1. ConnInv => TypeOK
  <2> SUFFICES ASSUME Types, WireBound PROVE TypeOK
    BY DEF ConnInv
  <2>1. Len(wire) <= 2 * tags + 2 * pings + 1
    <3>1. Len(wire) \in Nat /\ tags \in Nat /\ pings \in Nat
      BY WsAssumption DEF WsAssumption, Types
    <3>2. Reserved("join") \in 0 .. 1 /\ Reserved("ping") \in 0 .. 1 /\ Closed \in 0 .. 1
      BY DEF Reserved, Closed
    <3> QED
      BY <3>1, <3>2 DEF WireBound
  <2> QED
    BY <2>1 DEF Types, TypeOK
<1> QED
  BY ConnInvariant, <1>1, PTL

(* The frames of a viewer that neither pings nor leaves are whole, for any     *)
(* number of tags (websocket.go:90, server.go:270-300).                        *)
THEOREM QuietFramesStayWhole == Spec => []QuietFramesWhole
<1>1. ConnInv => QuietFramesWhole
  BY DEF ConnInv, QuietWire, Quiet, QuietFramesWhole, FramesWhole, Whole
<1> QED
  BY ConnInvariant, <1>1, PTL

=============================================================================
