------------------------ MODULE StreamRegistryProofs ------------------------
(* The safety of the stream registry for every number of connections, names, *)
(* viewers, rooms and transcoders: type correctness and ClosedRoomNotListed   *)
(* without any assumption on the environment; PublisherListed where           *)
(* publishers of one name take turns; ListedTranscoderIsLive where no HTTP    *)
(* request starts a transcoder, and with both StreamKeepsTranscoders;         *)
(* OrphanFree for RTMP and pulls, and from it NameReleased, publishers racing *)
(* or not.                                                                    *)
EXTENDS StreamRegistry, TLAPS

-----------------------------------------------------------------------------
(* The first inductive invariant.  App.Delete reads the name of the room it   *)
(* deletes, so a connection in cleanup has a room and every created room has  *)
(* a name; a connection about to Close its room has taken it off the map, and *)
(* a room that is off the map never returns to it: only new rooms are stored. *)

RoomsNamed == \A r \in 1 .. nRooms : nameOf[r] \in Names
CurExists == \A c \in Conns : cur[c] <= nRooms
CleanerOwns ==
    \A c \in Conns : pc[c] \in Cleaning => cur[c] # None /\ role[c] = "publisher"
RecorderOwns ==
    /\ \A c \in RtspConns : cur[c] # None => role[c] = "publisher"
    /\ \A c \in recording : cur[c] # None /\ pc[c] # "gone"
StoreNamed == \A c \in Conns : pc[c] = "store" => want[c] \in Names
ListedNamed ==
    \A n \in Names : rooms[n] # None => rooms[n] <= nRooms /\ nameOf[rooms[n]] = n
ClosedExists == \A r \in closed : r <= nRooms
CloserUnlisted ==
    \A c \in Conns : pc[c] = "close" => rooms[nameOf[cur[c]]] # cur[c]
RequestHasRoom == \A v \in Viewers : req[v].at # "new" => req[v].room # None

RoomInv ==
    /\ TypeOK
    /\ RoomsNamed
    /\ CurExists
    /\ CleanerOwns
    /\ RecorderOwns
    /\ StoreNamed
    /\ ListedNamed
    /\ ClosedExists
    /\ ClosedRoomNotListed
    /\ CloserUnlisted
    /\ RequestHasRoom

USE DEF None, RoomIds, TranscoderIds

LEMMA RoomInit == Init => RoomInv
<1> SUFFICES ASSUME Init PROVE RoomInv
  OBVIOUS
<1> USE RegistryAssumption DEF Init
<1>1. RoomTypes /\ ConnTypes
  BY DEF RoomTypes, ConnTypes, Pcs
<1>2. TranscoderTypes /\ ClientTypes
  BY DEF TranscoderTypes, ClientTypes, NoRequest, ReqSteps, Files, Kinds
<1>3. RoomsNamed /\ CurExists /\ CleanerOwns /\ RecorderOwns /\ StoreNamed
  BY DEF RoomsNamed, CurExists, CleanerOwns, RecorderOwns, StoreNamed, Cleaning, Conns
<1>4. ListedNamed /\ ClosedExists /\ ClosedRoomNotListed
  BY DEF ListedNamed, ClosedExists, ClosedRoomNotListed
<1>5. CloserUnlisted /\ RequestHasRoom
  BY DEF CloserUnlisted, RequestHasRoom, NoRequest
<1> QED
  BY <1>1, <1>2, <1>3, <1>4, <1>5 DEF RoomInv, TypeOK

\* A handler's lookup finds its name free.
LEMMA RoomFind ==
  ASSUME RoomInv, NEW c \in Conns, NEW n \in Names, pc[c] = "idle", FindFree(c, n)
  PROVE  RoomInv'
<1> USE DEF RoomInv, TypeOK, FindFree
<1>1. RoomTypes' /\ TranscoderTypes' /\ ClientTypes'
  BY DEF RoomTypes, TranscoderTypes, ClientTypes, roomVars, transVars
<1>2. ConnTypes'
  BY DEF ConnTypes, Pcs
<1>3. /\ RoomsNamed' /\ CurExists' /\ ListedNamed' /\ ClosedExists'
      /\ ClosedRoomNotListed' /\ RequestHasRoom'
  BY DEF RoomsNamed, CurExists, ListedNamed, ClosedExists, ClosedRoomNotListed,
         RequestHasRoom, roomVars
<1>4. CleanerOwns' /\ RecorderOwns' /\ StoreNamed' /\ CloserUnlisted'
  BY DEF CleanerOwns, RecorderOwns, StoreNamed, CloserUnlisted, Cleaning,
         ConnTypes, roomVars
<1> QED
  BY <1>1, <1>2, <1>3, <1>4

\* A handler stores the room it created.
LEMMA RoomStore ==
  ASSUME RoomInv, NEW c \in Conns, NEW next \in {"idle", "startHls", "startDash"},
         StoreRoom(c, next)
  PROVE  RoomInv'
<1> USE RegistryAssumption DEF RoomInv, TypeOK, StoreRoom
<1>1. TranscoderTypes' /\ ClientTypes'
  BY DEF TranscoderTypes, ClientTypes, transVars
<1>2. RoomTypes'
  BY DEF RoomTypes, ConnTypes, StoreNamed
<1>3. ConnTypes'
  BY DEF RoomTypes, ConnTypes, Pcs
<1>4. \A m \in Names : rooms'[m] = IF m = want[c] THEN nRooms + 1 ELSE rooms[m]
  BY DEF RoomTypes
<1>5. \A r \in RoomIds : nameOf'[r] = IF r = nRooms + 1 THEN want[c] ELSE nameOf[r]
  BY DEF RoomTypes
<1>6. RoomsNamed' /\ CurExists' /\ ClosedExists'
  BY <1>5 DEF RoomsNamed, CurExists, ClosedExists, RoomTypes, ConnTypes, StoreNamed
<1>7. ListedNamed' /\ ClosedRoomNotListed'
  BY <1>4, <1>5 DEF ListedNamed, ClosedRoomNotListed, ClosedExists, RoomTypes,
         StoreNamed
<1>8. CleanerOwns' /\ RecorderOwns' /\ StoreNamed' /\ RequestHasRoom'
  BY DEF CleanerOwns, RecorderOwns, StoreNamed, Cleaning, ConnTypes, RoomTypes,
         RequestHasRoom
<1>9. CloserUnlisted'
  BY <1>4, <1>5 DEF CloserUnlisted, CurExists, CleanerOwns, Cleaning, RoomsNamed,
         RoomTypes, ConnTypes
<1> QED
  BY <1>1, <1>2, <1>3, <1>6, <1>7, <1>8, <1>9

\* The part of the invariant about rooms and connections survives a step that
\* touches neither.
LEMMA RoomFrame ==
  ASSUME RoomInv, UNCHANGED <<roomVars, connVars>>,
         TranscoderTypes', ClientTypes', RequestHasRoom'
  PROVE  RoomInv'
<1> USE DEF RoomInv, TypeOK, roomVars, connVars
<1>1. RoomTypes' /\ ConnTypes'
  BY DEF RoomTypes, ConnTypes
<1>2. RoomsNamed' /\ CurExists' /\ CleanerOwns' /\ RecorderOwns' /\ StoreNamed'
  BY DEF RoomsNamed, CurExists, CleanerOwns, RecorderOwns, StoreNamed
<1>3. ListedNamed' /\ ClosedExists' /\ ClosedRoomNotListed' /\ CloserUnlisted'
  BY DEF ListedNamed, ClosedExists, ClosedRoomNotListed, CloserUnlisted
<1> QED
  BY <1>1, <1>2, <1>3

\* A connection moves on without touching the map: its new control point, room
\* and role must keep what they are assumed to keep here.
LEMMA RoomMove ==
  ASSUME RoomInv, UNCHANGED roomVars, ConnTypes', TranscoderTypes', ClientTypes',
         CurExists', CleanerOwns', RecorderOwns', StoreNamed', CloserUnlisted',
         UNCHANGED req
  PROVE  RoomInv'
<1> USE DEF RoomInv, TypeOK, roomVars
<1>1. RoomTypes' /\ RoomsNamed' /\ ListedNamed' /\ ClosedExists'
  BY DEF RoomTypes, RoomsNamed, ListedNamed, ClosedExists
<1>2. ClosedRoomNotListed' /\ RequestHasRoom'
  BY DEF ClosedRoomNotListed, RequestHasRoom
<1> QED
  BY <1>1, <1>2

\* Each part of the type invariant survives a step that leaves its variables.
LEMMA TypesFrame ==
  /\ RoomTypes /\ UNCHANGED roomVars => RoomTypes'
  /\ ConnTypes /\ UNCHANGED connVars => ConnTypes'
  /\ TranscoderTypes /\ UNCHANGED transVars => TranscoderTypes'
  /\ ClientTypes /\ UNCHANGED <<readers, req>> => ClientTypes'
<1>1. RoomTypes /\ UNCHANGED roomVars => RoomTypes'
  BY DEF RoomTypes, roomVars
<1>2. ConnTypes /\ UNCHANGED connVars => ConnTypes'
  BY DEF ConnTypes, connVars
<1>3. TranscoderTypes /\ UNCHANGED transVars => TranscoderTypes'
  BY DEF TranscoderTypes, transVars
<1>4. ClientTypes /\ UNCHANGED <<readers, req>> => ClientTypes'
  BY DEF ClientTypes
<1> QED
  BY <1>1, <1>2, <1>3, <1>4

\* App.Delete takes a transcoder off a map and stops it.
LEMMA RoomDrop ==
  ASSUME RoomInv, NEW c \in Conns, NEW k \in Kinds,
         NEW at \in {"dropHls", "dropDash"}, NEW next \in {"dropDash", "dropRoom"},
         DropTranscoder(c, k, at, next)
  PROVE  RoomInv'
<1> USE DEF RoomInv, TypeOK, DropTranscoder, RoomTypes, ConnTypes
<1>1. nameOf[cur[c]] \in Names
  BY DEF CleanerOwns, Cleaning, CurExists, RoomsNamed
<1>2. TranscoderTypes'
  <2>1. [listed[k] EXCEPT ![nameOf[cur[c]]] = None] \in [Names -> 0 .. MaxTranscoders]
    BY <1>1, RegistryAssumption DEF TranscoderTypes
  <2>2. listed' \in [Kinds -> [Names -> 0 .. MaxTranscoders]]
    BY <2>1 DEF TranscoderTypes
  <2>3. listed[k][nameOf[cur[c]]] \in 0 .. MaxTranscoders
    BY <1>1 DEF TranscoderTypes
  <2>4. stopped' \in SUBSET TranscoderIds
    <3> SUFFICES ASSUME NEW t \in stopped' PROVE t \in TranscoderIds
      OBVIOUS
    <3>1. t \in stopped \/ (t = listed[k][nameOf[cur[c]]] /\ t # None)
      OBVIOUS
    <3> QED
      BY <2>3, <3>1, RegistryAssumption DEF TranscoderTypes
  <2> QED
    BY <2>2, <2>4 DEF TranscoderTypes
<1>3. ConnTypes' /\ ClientTypes'
  BY DEF ClientTypes, Pcs
<1>4. CurExists' /\ CleanerOwns' /\ RecorderOwns' /\ StoreNamed' /\ CloserUnlisted'
  BY DEF CurExists, CleanerOwns, RecorderOwns, StoreNamed, CloserUnlisted, Cleaning,
         roomVars
<1> QED
  BY <1>2, <1>3, <1>4, RoomMove DEF TranscoderTypes, ClientTypes, roomVars

\* A transcoder of a room is created and listed.
LEMMA RoomTranscode ==
  ASSUME RoomInv, NEW k \in Kinds, NEW n \in Names \cup {None}, NEW r \in 0 .. MaxRooms,
         StartTranscoder(k, n, r)
  PROVE  TranscoderTypes'
<1> USE RegistryAssumption DEF RoomInv, TypeOK, TranscoderTypes, StartTranscoder
<1>1. nTrans + 1 \in TranscoderIds /\ nTrans' \in 0 .. MaxTranscoders
  OBVIOUS
<1>2. [listed[k] EXCEPT ![n] = nTrans + 1] \in [Names -> 0 .. MaxTranscoders]
  BY <1>1
<1>3. listed' \in [Kinds -> [Names -> 0 .. MaxTranscoders]]
  BY <1>2
<1>4. tKind' \in [TranscoderIds -> Kinds] /\ tRoom' \in [TranscoderIds -> 0 .. MaxRooms]
  BY <1>1
<1> QED
  BY <1>1, <1>3, <1>4

LEMMA RoomStep == RoomInv /\ [Next]_vars => RoomInv'
<1> SUFFICES ASSUME RoomInv, [Next]_vars PROVE RoomInv'
  OBVIOUS
<1> USE DEF RoomInv, TypeOK
<1>1. ASSUME NEW c \in Conns, Publish(c) PROVE RoomInv'
  <2>1. CASE \E n \in Names : PublishCheck(c, n)
    BY <2>1, RoomFind DEF PublishCheck, MayCommand
  <2>2. CASE PublishStore(c)
    <3>1. AfterPublish \in {"idle", "startHls", "startDash"}
      BY DEF AfterPublish, AfterHls
    <3> QED
      BY <2>2, <3>1, RoomStore DEF PublishStore
  <2>3. CASE PublishStartHls(c)
    <3>1. TranscoderTypes'
      BY <2>3, RoomTranscode DEF PublishStartHls, ConnTypes, Kinds
    <3>2. ConnTypes' /\ ClientTypes'
      BY <2>3, TypesFrame DEF PublishStartHls, ConnTypes, Pcs, AfterHls
    <3>3. CurExists' /\ CleanerOwns' /\ StoreNamed'
      BY <2>3 DEF CurExists, CleanerOwns, StoreNamed, Cleaning, ConnTypes, roomVars, AfterHls, PublishStartHls
    <3>4. RecorderOwns'
      BY <2>3 DEF RecorderOwns, ConnTypes, AfterHls, PublishStartHls
    <3>5. CloserUnlisted'
      BY <2>3 DEF CloserUnlisted, ConnTypes, AfterHls, roomVars, PublishStartHls
    <3> QED
      BY <2>3, <3>1, <3>2, <3>3, <3>4, <3>5, RoomMove DEF PublishStartHls
  <2>4. CASE PublishStartDash(c)
    <3>1. TranscoderTypes'
      BY <2>4, RoomTranscode DEF PublishStartDash, ConnTypes, Kinds
    <3>2. ConnTypes' /\ ClientTypes'
      BY <2>4, TypesFrame DEF PublishStartDash, ConnTypes, Pcs, AfterHls
    <3>3. CurExists' /\ CleanerOwns' /\ StoreNamed'
      BY <2>4 DEF CurExists, CleanerOwns, StoreNamed, Cleaning, ConnTypes, roomVars, AfterHls, PublishStartDash
    <3>4. RecorderOwns'
      BY <2>4 DEF RecorderOwns, ConnTypes, AfterHls, PublishStartDash
    <3>5. CloserUnlisted'
      BY <2>4 DEF CloserUnlisted, ConnTypes, AfterHls, roomVars, PublishStartDash
    <3> QED
      BY <2>4, <3>1, <3>2, <3>3, <3>4, <3>5, RoomMove DEF PublishStartDash
  <2> QED
    BY <1>1, <2>1, <2>2, <2>3, <2>4 DEF Publish
<1>2. ASSUME NEW c \in Conns, NEW n \in Names, Play(c, n) PROVE RoomInv'
  <2>1. TranscoderTypes'
    BY <1>2, TypesFrame DEF Play
  <2>2. c \in Readers /\ rooms[n] \in 0 .. nRooms /\ rooms[n] \in 0 .. MaxRooms
    BY <1>2, RegistryAssumption DEF Play, Readers, RoomTypes, ListedNamed
  <2>3. readers' \in SUBSET (Readers \X RoomIds)
    BY <1>2, <2>2 DEF ClientTypes, Play
  <2>4. ConnTypes' /\ ClientTypes'
    BY <1>2, <2>2, <2>3 DEF ConnTypes, ClientTypes, Play
  <2>5. CurExists' /\ CleanerOwns' /\ StoreNamed'
    <3>1. CurExists'
      BY <1>2, <2>2 DEF CurExists, ConnTypes, RoomTypes, roomVars, Play
    <3>2. CleanerOwns' /\ StoreNamed'
      BY <1>2 DEF CleanerOwns, StoreNamed, Cleaning, ConnTypes, Play, MayCommand
    <3> QED
      BY <3>1, <3>2
  <2>6. RecorderOwns'
    <3>1. c \notin RtspConns /\ c \notin recording
      BY <1>2, RegistryAssumption DEF Play, ConnTypes
    <3> QED
      BY <1>2, <3>1 DEF RecorderOwns, ConnTypes, Play, Conns
  <2>7. CloserUnlisted'
    BY <1>2 DEF CloserUnlisted, ConnTypes, roomVars, Play, MayCommand
  <2> QED
    BY <1>2, <2>1, <2>4, <2>5, <2>6, <2>7, RoomMove DEF Play
<1>3. ASSUME NEW c \in Conns, Disconnect(c) PROVE RoomInv'
  <2>1. TranscoderTypes' /\ ClientTypes'
    BY <1>3, TypesFrame DEF Disconnect, Ended
  <2>2. ConnTypes'
    BY <1>3, RegistryAssumption DEF ConnTypes, Disconnect, Ended, Pcs
  <2>3. CurExists' /\ CleanerOwns' /\ StoreNamed'
    <3>1. CurExists'
      <4>1. \A d \in Conns : cur'[d] = cur[d] \/ cur'[d] = None
        BY <1>3 DEF Disconnect, ConnTypes
      <4>2. nRooms' = nRooms /\ nRooms \in Nat
        BY <1>3, RegistryAssumption DEF Disconnect, roomVars, RoomTypes
      <4>3. None <= nRooms
        BY <4>2 DEF None
      <4> QED
        BY <4>1, <4>2, <4>3 DEF CurExists
    <3>2. CleanerOwns' /\ StoreNamed'
      BY <1>3 DEF CleanerOwns, StoreNamed, Cleaning, ConnTypes, Disconnect, Ended
    <3> QED
      BY <3>1, <3>2
  <2>4. RecorderOwns'
    <3>1. c \notin RtspConns /\ c \notin recording
      BY <1>3, RegistryAssumption DEF Disconnect, ConnTypes
    <3> QED
      BY <1>3, <3>1 DEF RecorderOwns, ConnTypes, Disconnect, Conns
  <2>5. CloserUnlisted'
    BY <1>3 DEF CloserUnlisted, ConnTypes, roomVars, Disconnect, Ended
  <2> QED
    BY <1>3, <2>1, <2>2, <2>3, <2>4, <2>5, RoomMove DEF Disconnect, Ended
<1>4. ASSUME NEW c \in Conns, Cleanup(c) PROVE RoomInv'
  <2>1. CASE CleanupHls(c)
    BY <2>1, RoomDrop DEF CleanupHls, Kinds
  <2>2. CASE CleanupDash(c)
    BY <2>2, RoomDrop DEF CleanupDash, Kinds
  <2>3. CASE CleanupRoom(c)
    <3>1. TranscoderTypes' /\ ClientTypes'
      BY <2>3, TypesFrame DEF CleanupRoom
    <3>2. ConnTypes'
      BY <2>3 DEF CleanupRoom, ConnTypes, Pcs
    <3>3. nameOf[cur[c]] \in Names
      BY <2>3 DEF CleanupRoom, CleanerOwns, Cleaning, CurExists, RoomsNamed, ConnTypes, RoomTypes
    <3>4. RoomTypes'
      <4>1. rooms' = [rooms EXCEPT ![nameOf[cur[c]]] = None]
        BY <2>3 DEF CleanupRoom
      <4>2. rooms' \in [Names -> 0 .. MaxRooms]
        BY <3>3, <4>1, RegistryAssumption DEF RoomTypes
      <4> QED
        BY <2>3, <4>2 DEF CleanupRoom, RoomTypes
    <3>5. \A n \in Names : rooms'[n] = IF n = nameOf[cur[c]] THEN None ELSE rooms[n]
      BY <2>3 DEF CleanupRoom, RoomTypes
    <3>6. RoomsNamed' /\ CurExists' /\ ClosedExists' /\ RequestHasRoom'
      BY <2>3 DEF CleanupRoom, RoomsNamed, CurExists, ClosedExists, RequestHasRoom
    <3>7. CleanerOwns' /\ RecorderOwns' /\ StoreNamed'
      BY <2>3 DEF CleanupRoom, CleanerOwns, RecorderOwns, StoreNamed, Cleaning, ConnTypes
    <3>8. ListedNamed' /\ ClosedRoomNotListed'
      BY <2>3, <3>5 DEF CleanupRoom, ListedNamed, ClosedRoomNotListed
    <3>9. CloserUnlisted'
      BY <2>3, <3>5 DEF CleanupRoom, CloserUnlisted, CleanerOwns, Cleaning, CurExists,
             RoomsNamed, ConnTypes, RoomTypes
    <3> QED
      BY <3>1, <3>2, <3>4, <3>6, <3>7, <3>8, <3>9
  <2>4. CASE CleanupClose(c)
    <3>1. TranscoderTypes' /\ ClientTypes'
      BY <2>4, TypesFrame DEF CleanupClose
    <3>2. cur[c] \in 1 .. nRooms /\ cur[c] \in RoomIds /\ nameOf[cur[c]] \in Names
      BY <2>4 DEF CleanupClose, CleanerOwns, Cleaning, CurExists, RoomsNamed, ConnTypes, RoomTypes
    <3>3. RoomTypes'
      BY <2>4, <3>2 DEF CleanupClose, RoomTypes
    <3>4. ConnTypes'
      BY <2>4, RegistryAssumption DEF CleanupClose, ConnTypes, Pcs, Ended
    <3>5. RoomsNamed' /\ CurExists' /\ ClosedExists' /\ RequestHasRoom'
      BY <2>4, <3>2 DEF CleanupClose, RoomsNamed, CurExists, ClosedExists, RequestHasRoom,
             ConnTypes, RoomTypes
    <3>6. CleanerOwns' /\ RecorderOwns' /\ StoreNamed'
      BY <2>4, RegistryAssumption DEF CleanupClose, CleanerOwns, RecorderOwns, StoreNamed,
             Cleaning, Ended, ConnTypes
    <3>7. ListedNamed' /\ ClosedRoomNotListed'
      BY <2>4, <3>2 DEF CleanupClose, ListedNamed, ClosedRoomNotListed, CloserUnlisted
    <3>8. CloserUnlisted'
      BY <2>4 DEF CleanupClose, CloserUnlisted, Ended, ConnTypes
    <3> QED
      BY <3>1, <3>3, <3>4, <3>5, <3>6, <3>7, <3>8
  <2> QED
    BY <1>4, <2>1, <2>2, <2>3, <2>4 DEF Cleanup
<1>5. ASSUME NEW c \in Conns, Accept(c) PROVE RoomInv'
  <2>1. TranscoderTypes' /\ ClientTypes'
    BY <1>5, TypesFrame DEF Accept
  <2>2. ConnTypes'
    BY <1>5, RegistryAssumption DEF ConnTypes, Accept, Pcs
  <2>3. CurExists' /\ CleanerOwns' /\ StoreNamed'
    <3>1. CurExists'
      <4>1. \A d \in Conns : cur'[d] = cur[d] \/ cur'[d] = None
        BY <1>5 DEF Accept, ConnTypes
      <4>2. nRooms' = nRooms /\ nRooms \in Nat
        BY <1>5, RegistryAssumption DEF Accept, roomVars, RoomTypes
      <4>3. None <= nRooms
        BY <4>2 DEF None
      <4> QED
        BY <4>1, <4>2, <4>3 DEF CurExists
    <3>2. CleanerOwns' /\ StoreNamed'
      BY <1>5 DEF CleanerOwns, StoreNamed, Cleaning, ConnTypes, Accept
    <3> QED
      BY <3>1, <3>2
  <2>4. RecorderOwns'
    BY <1>5 DEF RecorderOwns, ConnTypes, Accept, Conns
  <2>5. CloserUnlisted'
    BY <1>5 DEF CloserUnlisted, ConnTypes, roomVars, Accept
  <2> QED
    BY <1>5, <2>1, <2>2, <2>3, <2>4, <2>5, RoomMove DEF Accept
<1>6. ASSUME NEW c \in Conns, Pull(c) PROVE RoomInv'
  <2>1. CASE PullCheck(c)
    <3>1. StreamOf[c] \in Names
      BY <2>1, RegistryAssumption DEF PullCheck
    <3> QED
      BY <2>1, <3>1, RoomFind DEF PullCheck
  <2> QED
    BY <1>6, <2>1, RoomStore DEF Pull, PullStore
<1>7. ASSUME NEW c \in Conns, Announce(c) PROVE RoomInv'
  <2>1. CASE \E n \in Names : AnnounceCheck(c, n)
    BY <2>1, RoomFind DEF AnnounceCheck, MayCommand
  <2>2. CASE AnnounceBadSDP(c)
    <3>1. TranscoderTypes' /\ ClientTypes'
      BY <2>2, TypesFrame DEF AnnounceBadSDP
    <3>2. ConnTypes'
      BY <2>2, RegistryAssumption DEF ConnTypes, AnnounceBadSDP, Pcs
    <3>3. CurExists' /\ CleanerOwns' /\ StoreNamed'
      BY <2>2 DEF CurExists, CleanerOwns, StoreNamed, Cleaning, ConnTypes, RoomTypes, roomVars, AnnounceBadSDP
    <3>4. RecorderOwns'
      BY <2>2, RegistryAssumption DEF RecorderOwns, ConnTypes, AnnounceBadSDP
    <3>5. CloserUnlisted'
      BY <2>2 DEF CloserUnlisted, ConnTypes, roomVars, AnnounceBadSDP
    <3> QED
      BY <2>2, <3>1, <3>2, <3>3, <3>4, <3>5, RoomMove DEF AnnounceBadSDP
  <2> QED
    BY <1>7, <2>1, <2>2, RoomStore DEF Announce, AnnounceStore
<1>8. ASSUME NEW c \in Conns, Record(c) PROVE RoomInv'
  <2>1. TranscoderTypes' /\ ClientTypes'
    BY <1>8, TypesFrame DEF Record
  <2>2. ConnTypes'
    BY <1>8, RegistryAssumption DEF ConnTypes, Record, Pcs
  <2>3. CurExists' /\ CleanerOwns' /\ StoreNamed'
    BY <1>8 DEF CurExists, CleanerOwns, StoreNamed, Cleaning, ConnTypes, RoomTypes, roomVars, Record
  <2>4. RecorderOwns'
    BY <1>8 DEF RecorderOwns, ConnTypes, Record, Conns
  <2>5. CloserUnlisted'
    BY <1>8 DEF CloserUnlisted, ConnTypes, roomVars, Record
  <2> QED
    BY <1>8, <2>1, <2>2, <2>3, <2>4, <2>5, RoomMove DEF Record
<1>9. ASSUME NEW c \in Conns, RtspEnd(c) PROVE RoomInv'
  <2>1. TranscoderTypes' /\ ClientTypes'
    BY <1>9, TypesFrame DEF RtspEnd
  <2>2. ConnTypes'
    BY <1>9, RegistryAssumption DEF ConnTypes, RtspEnd, Pcs
  <2>3. CurExists' /\ CleanerOwns' /\ StoreNamed'
    BY <1>9 DEF CurExists, CleanerOwns, RecorderOwns, StoreNamed, Cleaning, ConnTypes, RoomTypes, roomVars, RtspEnd
  <2>4. RecorderOwns'
    BY <1>9, RegistryAssumption DEF RecorderOwns, ConnTypes, RtspEnd
  <2>5. CloserUnlisted'
    BY <1>9 DEF CloserUnlisted, ConnTypes, roomVars, RtspEnd
  <2> QED
    BY <1>9, <2>1, <2>2, <2>3, <2>4, <2>5, RoomMove DEF RtspEnd
<1>10. ASSUME NEW c \in Conns, Srt(c) PROVE RoomInv'
  <2>1. CASE SrtCheck(c)
    <3>1. StreamOf[c] \in Names
      BY <2>1, RegistryAssumption DEF SrtCheck
    <3> QED
      BY <2>1, <3>1, RoomFind DEF SrtCheck
  <2>2. CASE SrtShutdown(c)
    <3>1. TranscoderTypes' /\ ClientTypes'
      BY <2>2, TypesFrame DEF SrtShutdown
    <3>2. ConnTypes'
      BY <2>2, RegistryAssumption DEF ConnTypes, SrtShutdown, Pcs
    <3>3. CurExists' /\ CleanerOwns' /\ StoreNamed'
      BY <2>2 DEF CurExists, CleanerOwns, StoreNamed, Cleaning, ConnTypes, RoomTypes, roomVars, SrtShutdown
    <3>4. RecorderOwns'
      BY <2>2, RegistryAssumption DEF RecorderOwns, ConnTypes, SrtShutdown
    <3>5. CloserUnlisted'
      BY <2>2 DEF CloserUnlisted, ConnTypes, roomVars, SrtShutdown
    <3> QED
      BY <2>2, <3>1, <3>2, <3>3, <3>4, <3>5, RoomMove DEF SrtShutdown
  <2> QED
    BY <1>10, <2>1, <2>2, RoomStore DEF Srt, SrtStore
<1>11. ASSUME NEW v \in Viewers, Serve(v) PROVE RoomInv'
  <2>1. CASE \E n \in Names, f \in Files : Request(v, n, f)
    <3>1. PICK n \in Names, f \in Files : Request(v, n, f)
      BY <2>1
    <3>2. rooms[n] \in 0 .. MaxRooms
      BY DEF RoomTypes
    <3>3. TranscoderTypes'
      BY <3>1, TypesFrame DEF Request
    <3>4. ClientTypes'
      BY <3>1, <3>2 DEF Request, ClientTypes, ReqSteps
    <3>5. RequestHasRoom'
      BY <3>1 DEF Request, RequestHasRoom, ClientTypes
    <3> QED
      BY <3>1, <3>3, <3>4, <3>5, RoomFrame DEF Request
  <2>2. CASE FLVJoin(v)
    <3>1. TranscoderTypes'
      BY <2>2, TypesFrame DEF FLVJoin
    <3>2. req[v].room \in RoomIds /\ v \in Readers
      BY <2>2 DEF FLVJoin, RequestHasRoom, ClientTypes, Readers
    <3>3. readers' \in SUBSET (Readers \X RoomIds)
      BY <2>2, <3>2 DEF FLVJoin, ClientTypes
    <3>4. ClientTypes'
      BY <2>2, <3>3, RegistryAssumption DEF FLVJoin, ClientTypes, NoRequest, ReqSteps, Files
    <3>5. RequestHasRoom'
      BY <2>2 DEF FLVJoin, RequestHasRoom, ClientTypes, NoRequest
    <3> QED
      BY <2>2, <3>1, <3>4, <3>5, RoomFrame DEF FLVJoin
  <2>3. CASE LoadHLS(v)
    <3>1. TranscoderTypes'
      BY <2>3, TypesFrame DEF LoadHLS
    <3>2. \/ req' = [req EXCEPT ![v] = NoRequest]
          \/ \E next \in {"dash", "startHls"} : req' = [req EXCEPT ![v].at = next]
      BY <2>3 DEF LoadHLS, ClientTypes
    <3>3. readers' = readers /\ req[v].at # "new"
      BY <2>3 DEF LoadHLS
    <3>4. CASE req' = [req EXCEPT ![v] = NoRequest]
      <4>1. ClientTypes'
        BY <3>3, <3>4, RegistryAssumption DEF ClientTypes, NoRequest, ReqSteps, Files
      <4>2. RequestHasRoom'
        BY <3>4 DEF RequestHasRoom, ClientTypes, NoRequest
      <4> QED
        BY <2>3, <3>1, <4>1, <4>2, RoomFrame DEF LoadHLS
    <3>5. ASSUME NEW next \in {"dash", "startHls"}, req' = [req EXCEPT ![v].at = next]
          PROVE  RoomInv'
      <4>1. ClientTypes'
        BY <3>3, <3>5 DEF ClientTypes, ReqSteps
      <4>2. RequestHasRoom'
        BY <3>3, <3>5 DEF RequestHasRoom, ClientTypes
      <4> QED
        BY <2>3, <3>1, <4>1, <4>2, RoomFrame DEF LoadHLS
    <3> QED
      BY <3>2, <3>4, <3>5
  <2>4. CASE LoadDASH(v)
    <3>1. TranscoderTypes'
      BY <2>4, TypesFrame DEF LoadDASH
    <3>2. \/ req' = [req EXCEPT ![v] = NoRequest]
          \/ req' = [req EXCEPT ![v].at = "startDash"]
      BY <2>4 DEF LoadDASH, ClientTypes
    <3>3. ClientTypes'
      BY <2>4, <3>2, RegistryAssumption DEF LoadDASH, ClientTypes, NoRequest, ReqSteps, Files
    <3>4. RequestHasRoom'
      BY <2>4, <3>2 DEF LoadDASH, RequestHasRoom, ClientTypes, NoRequest
    <3> QED
      BY <2>4, <3>1, <3>3, <3>4, RoomFrame DEF LoadDASH
  <2>5. ASSUME LazyStartHls(v) \/ LazyStartDash(v) PROVE RoomInv'
    <3> USE <2>5 DEF LazyStartHls, LazyStartDash
    <3>1. req[v].name \in Names \cup {None} /\ req[v].room \in 0 .. MaxRooms
      BY DEF ClientTypes
    <3>2. TranscoderTypes'
      BY <3>1, RoomTranscode DEF Kinds
    <3>3. ClientTypes'
      BY RegistryAssumption DEF ClientTypes, NoRequest, ReqSteps, Files
    <3>4. RequestHasRoom'
      BY DEF RequestHasRoom, ClientTypes, NoRequest
    <3> QED
      BY <3>2, <3>3, <3>4, RoomFrame
  <2> QED
    BY <1>11, <2>1, <2>2, <2>3, <2>4, <2>5 DEF Serve
<1>12. ASSUME NEW t \in TranscoderIds, TranscoderExit(t) PROVE RoomInv'
  <2>1. TranscoderTypes' /\ ClientTypes'
    BY <1>12 DEF TranscoderExit, TranscoderTypes, ClientTypes
  <2>2. RequestHasRoom'
    BY <1>12 DEF TranscoderExit, RequestHasRoom
  <2> QED
    BY <1>12, <2>1, <2>2, RoomFrame DEF TranscoderExit
<1>13. ASSUME NEW x \in Readers, NEW r \in RoomIds,
              ReaderWoken(x, r) \/ ReaderWriteError(x, r)
       PROVE  RoomInv'
  <2> USE <1>13 DEF ReaderWoken, ReaderWriteError
  <2>1. TranscoderTypes'
    BY TypesFrame
  <2>2. ClientTypes' /\ RequestHasRoom'
    BY DEF ClientTypes, RequestHasRoom
  <2> QED
    BY <2>1, <2>2, RoomFrame
<1>14. CASE UNCHANGED vars
  <2>1. TranscoderTypes' /\ ClientTypes' /\ RequestHasRoom'
    BY <1>14, TypesFrame DEF vars, RequestHasRoom
  <2> QED
    BY <1>14, <2>1, RoomFrame DEF vars
<1> QED
  BY <1>1, <1>2, <1>3, <1>4, <1>5, <1>6, <1>7, <1>8, <1>9, <1>10, <1>11, <1>12,
     <1>13, <1>14 DEF Next, ConnNext

THEOREM RoomInvariant == Spec => []RoomInv
<1> QED
  BY RoomInit, RoomStep, PTL DEF Spec

(* Every variable keeps its type, for every value of the constants. *)
THEOREM TypeCorrect == Spec => []TypeOK
<1>1. RoomInv => TypeOK
  BY DEF RoomInv
<1> QED
  BY <1>1, RoomInvariant, PTL

(* App.Load never returns a closed room, for any number of publishers racing   *)
(* for any number of names: an entry is deleted before its room is closed.     *)
THEOREM ClosedNeverListed == Spec => []ClosedRoomNotListed
<1>1. RoomInv => ClosedRoomNotListed
  BY DEF RoomInv
<1> QED
  BY <1>1, RoomInvariant, PTL

-----------------------------------------------------------------------------
(* The second one.  Between the lookup and the store of a name nobody else     *)
(* may store a room under it: then every store finds the name still free, the  *)
(* rooms of two publishers differ, and a publisher's room stays listed until   *)
(* its own cleanup deletes it.                                                 *)

StoreFree == \A c \in Conns : pc[c] = "store" => rooms[want[c]] = None
StoresDiffer ==
    \A c, d \in Conns :
        c # d /\ pc[c] = "store" /\ pc[d] = "store" => want[c] # want[d]
OwnersDiffer ==
    \A c, d \in Conns : c # d /\ Owns(c) /\ Owns(d) => cur[c] # cur[d]

TurnInv ==
    /\ StoreFree
    /\ StoresDiffer
    /\ OwnersDiffer
    /\ PublisherListed

LEMMA TurnInit == Init => TurnInv
BY DEF Init, TurnInv, StoreFree, StoresDiffer, OwnersDiffer, Owns, PublisherListed,
       Publishes

\* A handler's lookup finds its name free, and no other store of it pending.
LEMMA TurnFind ==
  ASSUME TakeTurns, RoomInv, TurnInv, NEW c \in Conns, NEW n \in Names,
         pc[c] = "idle", FindFree(c, n)
  PROVE  TurnInv'
<1> USE DEF FindFree, roomVars
<1>1. ConnTypes
  BY DEF RoomInv, TypeOK
<1>2. StoreFree'
  BY <1>1 DEF TurnInv, StoreFree, ConnTypes
<1>3. StoresDiffer'
  BY <1>1 DEF TurnInv, StoresDiffer, ConnTypes
<1>4. OwnersDiffer' /\ PublisherListed'
  BY <1>1 DEF TurnInv, OwnersDiffer, Owns, PublisherListed, Publishes, ConnTypes
<1> QED
  BY <1>2, <1>3, <1>4 DEF TurnInv

\* A handler stores a room: it replaces none, and no one else has its number.
LEMMA TurnStore ==
  ASSUME RoomInv, TurnInv, NEW c \in Conns,
         NEW next \in {"idle", "startHls", "startDash"}, StoreRoom(c, next)
  PROVE  TurnInv'
<1> USE DEF StoreRoom
<1>1. ConnTypes /\ RoomTypes /\ want[c] \in Names /\ CurExists /\ RoomsNamed
  BY DEF RoomInv, TypeOK, StoreNamed
<1>2. rooms[want[c]] = None
  BY DEF TurnInv, StoreFree
<1>3. \A m \in Names : rooms'[m] = IF m = want[c] THEN nRooms + 1 ELSE rooms[m]
  BY <1>1 DEF RoomTypes
<1>4. \A r \in RoomIds : nameOf'[r] = IF r = nRooms + 1 THEN want[c] ELSE nameOf[r]
  BY <1>1 DEF RoomTypes
<1>5. \A d \in Conns : cur'[d] = IF d = c THEN nRooms + 1 ELSE cur[d]
  BY <1>1 DEF ConnTypes
<1>6. \A d \in Conns : /\ pc'[d] = IF d = c THEN next ELSE pc[d]
                       /\ role'[d] = IF d = c THEN "publisher" ELSE role[d]
  BY <1>1 DEF ConnTypes
<1>7. StoreFree' /\ StoresDiffer'
  <2>1. StoresDiffer'
    BY <1>6 DEF TurnInv, StoresDiffer
  <2>2. ASSUME NEW d \in Conns, pc'[d] = "store" PROVE rooms'[want'[d]] = None
    <3>1. d # c /\ pc[d] = "store" /\ want[d] \in Names /\ want[d] # want[c]
      BY <1>6, <2>2 DEF TurnInv, StoresDiffer, RoomInv, StoreNamed
    <3> QED
      BY <1>3, <3>1 DEF TurnInv, StoreFree
  <2> QED
    BY <2>1, <2>2 DEF StoreFree
<1>8. OwnersDiffer'
  BY <1>1, <1>5, <1>6 DEF TurnInv, OwnersDiffer, Owns, CurExists, ConnTypes, RoomTypes
<1>9. PublisherListed'
  <2> SUFFICES ASSUME NEW d \in Conns, Publishes(d)' PROVE (rooms[nameOf[cur[d]]] = cur[d])'
    BY DEF PublisherListed
  <2>1. CASE d = c
    <3>1. nRooms + 1 \in RoomIds
      BY <1>1, RegistryAssumption DEF RoomTypes
    <3> QED
      BY <1>1, <1>3, <1>4, <1>5, <2>1, <3>1
  <2>2. CASE d # c
    <3>1. Publishes(d) /\ cur'[d] = cur[d] /\ cur[d] \in 1 .. nRooms
      BY <1>1, <1>5, <1>6, <2>2 DEF Publishes, Owns, CurExists, ConnTypes, RoomTypes
    <3>2. nameOf[cur[d]] \in Names /\ rooms[nameOf[cur[d]]] = cur[d]
      BY <1>1, <3>1 DEF RoomsNamed, TurnInv, PublisherListed
    <3>3. nameOf'[cur[d]] = nameOf[cur[d]] /\ nameOf[cur[d]] # want[c]
      BY <1>1, <1>2, <1>4, <3>1, <3>2 DEF RoomTypes
    <3> QED
      BY <1>3, <3>1, <3>2, <3>3
  <2> QED
    BY <2>1, <2>2
<1> QED
  BY <1>7, <1>8, <1>9 DEF TurnInv

\* Steps that touch neither rooms nor connections.
LEMMA TurnFrame ==
  ASSUME TurnInv, UNCHANGED <<roomVars, connVars>> PROVE TurnInv'
BY DEF TurnInv, StoreFree, StoresDiffer, OwnersDiffer, Owns, PublisherListed, Publishes,
       roomVars, connVars

\* Steps of a connection that leave the map, start no store and make nobody a
\* publisher.
LEMMA TurnMove ==
  ASSUME TurnInv, UNCHANGED roomVars, UNCHANGED want,
         \A d \in Conns : pc'[d] = "store" => pc[d] = "store",
         \A d \in Conns : Owns(d)' => Owns(d) /\ cur'[d] = cur[d],
         \A d \in Conns : Owns(d)' /\ pc[d] = "close" => pc'[d] = "close"
  PROVE  TurnInv'
<1> USE DEF roomVars
<1>1. StoreFree' /\ StoresDiffer'
  BY DEF TurnInv, StoreFree, StoresDiffer
<1>2. OwnersDiffer'
  BY DEF TurnInv, OwnersDiffer
<1>3. \A d \in Conns : Publishes(d)' => Publishes(d) /\ cur'[d] = cur[d]
  BY DEF Publishes, Owns
<1>4. PublisherListed'
  BY <1>3 DEF TurnInv, PublisherListed
<1> QED
  BY <1>1, <1>2, <1>4 DEF TurnInv

LEMMA TurnStep == TakeTurns /\ RoomInv /\ TurnInv /\ [Next]_vars => TurnInv'
<1> SUFFICES ASSUME TakeTurns, RoomInv, TurnInv, [Next]_vars PROVE TurnInv'
  OBVIOUS
<1>0. ConnTypes /\ RoomTypes
  BY DEF RoomInv, TypeOK
<1>1. ASSUME NEW c \in Conns, Publish(c) PROVE TurnInv'
  <2>1. CASE \E n \in Names : PublishCheck(c, n)
    BY <2>1, TurnFind DEF PublishCheck, MayCommand
  <2>2. CASE PublishStore(c)
    <3>1. AfterPublish \in {"idle", "startHls", "startDash"}
      BY DEF AfterPublish, AfterHls
    <3> QED
      BY <2>2, <3>1, TurnStore DEF PublishStore
  <2>3. CASE PublishStartHls(c)
    BY <1>0, <2>3, TurnMove DEF PublishStartHls, AfterHls, ConnTypes, Owns
  <2>4. CASE PublishStartDash(c)
    BY <1>0, <2>4, TurnMove DEF PublishStartDash, ConnTypes, Owns
  <2> QED
    BY <1>1, <2>1, <2>2, <2>3, <2>4 DEF Publish
<1>2. ASSUME NEW c \in Conns, NEW n \in Names, Play(c, n) PROVE TurnInv'
  BY <1>0, <1>2, TurnMove DEF Play, ConnTypes, Owns
<1>3. ASSUME NEW c \in Conns, Disconnect(c) PROVE TurnInv'
  BY <1>0, <1>3, TurnMove DEF Disconnect, Ended, ConnTypes, Owns
<1>4. ASSUME NEW c \in Conns, Cleanup(c) PROVE TurnInv'
  <2>1. CASE CleanupHls(c)
    BY <1>0, <2>1, TurnMove DEF CleanupHls, DropTranscoder, ConnTypes, Owns
  <2>2. CASE CleanupDash(c)
    BY <1>0, <2>2, TurnMove DEF CleanupDash, DropTranscoder, ConnTypes, Owns
  <2>3. CASE CleanupRoom(c)
    <3>1. Owns(c) /\ Publishes(c)
      BY <2>3 DEF CleanupRoom, RoomInv, CleanerOwns, Cleaning, Owns, Publishes
    <3>2. \A n \in Names : rooms'[n] = IF n = nameOf[cur[c]] THEN None ELSE rooms[n]
      BY <1>0, <2>3 DEF CleanupRoom, RoomTypes
    <3>3. StoreFree' /\ StoresDiffer'
      BY <1>0, <2>3, <3>2 DEF CleanupRoom, TurnInv, StoreFree, StoresDiffer, ConnTypes,
             RoomInv, StoreNamed
    <3>4. OwnersDiffer'
      BY <2>3 DEF CleanupRoom, TurnInv, OwnersDiffer, Owns
    <3>5. ASSUME NEW d \in Conns, Publishes(d)'
          PROVE  (rooms[nameOf[cur[d]]] = cur[d])'
      <4>1. d # c /\ Publishes(d) /\ Owns(d) /\ cur[d] \in 1 .. nRooms
        BY <1>0, <2>3, <3>5 DEF CleanupRoom, Publishes, Owns, ConnTypes, RoomTypes, RoomInv,
               CurExists
      <4>2. nameOf[cur[d]] \in Names /\ rooms[nameOf[cur[d]]] = cur[d]
        BY <4>1 DEF TurnInv, PublisherListed, RoomInv, RoomsNamed
      <4>3. rooms[nameOf[cur[c]]] = cur[c] /\ cur[c] # cur[d]
        BY <3>1, <4>1 DEF TurnInv, PublisherListed, OwnersDiffer
      <4> QED
        BY <2>3, <3>2, <4>2, <4>3 DEF CleanupRoom
    <3> QED
      BY <3>3, <3>4, <3>5 DEF TurnInv, PublisherListed
  <2>4. CASE CleanupClose(c)
    <3>1. StoreFree' /\ StoresDiffer'
      BY <1>0, <2>4 DEF CleanupClose, Ended, TurnInv, StoreFree, StoresDiffer, ConnTypes
    <3>2. OwnersDiffer'
      BY <1>0, <2>4 DEF CleanupClose, TurnInv, OwnersDiffer, Owns, ConnTypes
    <3>3. \A d \in Conns : Publishes(d)' => Publishes(d) /\ cur'[d] = cur[d]
      BY <1>0, <2>4 DEF CleanupClose, Publishes, Owns, ConnTypes
    <3>4. PublisherListed'
      BY <2>4, <3>3 DEF CleanupClose, TurnInv, PublisherListed
    <3> QED
      BY <3>1, <3>2, <3>4 DEF TurnInv
  <2> QED
    BY <1>4, <2>1, <2>2, <2>3, <2>4 DEF Cleanup
<1>5. ASSUME NEW c \in Conns, Accept(c) PROVE TurnInv'
  BY <1>0, <1>5, TurnMove DEF Accept, ConnTypes, Owns
<1>6. ASSUME NEW c \in Conns, Pull(c) PROVE TurnInv'
  <2>1. CASE PullCheck(c)
    <3>1. StreamOf[c] \in Names
      BY <2>1, RegistryAssumption DEF PullCheck
    <3> QED
      BY <2>1, <3>1, TurnFind DEF PullCheck
  <2> QED
    BY <1>6, <2>1, TurnStore DEF Pull, PullStore
<1>7. ASSUME NEW c \in Conns, Announce(c) PROVE TurnInv'
  <2>1. CASE \E n \in Names : AnnounceCheck(c, n)
    BY <2>1, TurnFind DEF AnnounceCheck, MayCommand
  <2>2. CASE AnnounceBadSDP(c)
    BY <1>0, <2>2, TurnMove DEF AnnounceBadSDP, ConnTypes, Owns
  <2> QED
    BY <1>7, <2>1, <2>2, TurnStore DEF Announce, AnnounceStore
<1>8. ASSUME NEW c \in Conns, Record(c) PROVE TurnInv'
  BY <1>0, <1>8, TurnMove DEF Record, ConnTypes, Owns
<1>9. ASSUME NEW c \in Conns, RtspEnd(c) PROVE TurnInv'
  BY <1>0, <1>9, TurnMove DEF RtspEnd, ConnTypes, Owns
<1>10. ASSUME NEW c \in Conns, Srt(c) PROVE TurnInv'
  <2>1. CASE SrtCheck(c)
    <3>1. StreamOf[c] \in Names
      BY <2>1, RegistryAssumption DEF SrtCheck
    <3> QED
      BY <2>1, <3>1, TurnFind DEF SrtCheck
  <2>2. CASE SrtShutdown(c)
    BY <1>0, <2>2, TurnMove DEF SrtShutdown, ConnTypes, Owns
  <2> QED
    BY <1>10, <2>1, <2>2, TurnStore DEF Srt, SrtStore
<1>11. ASSUME NEW v \in Viewers, Serve(v) PROVE TurnInv'
  BY <1>11, TurnFrame DEF Serve, Request, FLVJoin, LoadHLS, LazyStartHls, LoadDASH,
         LazyStartDash
<1>12. ASSUME NEW t \in TranscoderIds, TranscoderExit(t) PROVE TurnInv'
  BY <1>12, TurnFrame DEF TranscoderExit
<1>13. ASSUME NEW x \in Readers, NEW r \in RoomIds,
              ReaderWoken(x, r) \/ ReaderWriteError(x, r)
       PROVE  TurnInv'
  BY <1>13, TurnFrame DEF ReaderWoken, ReaderWriteError
<1>14. CASE UNCHANGED vars
  BY <1>14, TurnFrame DEF vars
<1> QED
  BY <1>1, <1>2, <1>3, <1>4, <1>5, <1>6, <1>7, <1>8, <1>9, <1>10, <1>11, <1>12,
     <1>13, <1>14 DEF Next, ConnNext

THEOREM TurnInvariant == ASSUME TakeTurns PROVE Spec => []TurnInv
<1>1. RoomInv /\ TurnInv /\ [Next]_vars => TurnInv'
  BY TurnStep
<1> QED
  BY <1>1, TurnInit, RoomInvariant, PTL DEF Spec

(* Where publishers of a name take turns, a living publisher's room is the one *)
(* its name leads to, and its cleanup deletes no other stream's entry.         *)
THEOREM PublisherStaysListed == ASSUME TakeTurns PROVE Spec => []PublisherListed
<1>1. TurnInv => PublisherListed
  BY DEF TurnInv
<1> QED
  BY <1>1, TurnInvariant, PTL

-----------------------------------------------------------------------------
(* The steps as the transcoders see them: a room is stored, a transcoder is    *)
(* started or dropped, a room is closed; anything else leaves them alone.      *)

Starting == {"startHls", "startDash"}

\* How a connection may move in the steps that are none of those.
Moves(d) ==
    \/ UNCHANGED <<pc[d], cur[d], role[d], want[d]>>
    \/ pc[d] = "dropRoom" /\ pc'[d] = "close" /\ UNCHANGED <<cur[d], role[d]>>
    \/ /\ pc'[d] \in {"store", "idle", "gone", "dropHls"}
       /\ Owns(d)' => Owns(d) /\ cur'[d] = cur[d]
       /\ Owns(d)' /\ d \in RtmpConns /\ pc'[d] = "idle" => pc[d] = "idle"
Elsewhere ==
    /\ UNCHANGED <<nRooms, nameOf, closed, listed, nTrans, tKind, tRoom, stopped>>
    /\ \A d \in Conns : Moves(d)

Stores ==
    \E c \in Conns : \/ c \notin RtmpConns /\ StoreRoom(c, "idle")
                     \/ c \in RtmpConns /\ StoreRoom(c, AfterPublish)
Starts == \E c \in Conns : PublishStartHls(c) \/ PublishStartDash(c)
Drops == \E c \in Conns : CleanupHls(c) \/ CleanupDash(c)
Lazy == \E v \in Viewers : LazyStartHls(v) \/ LazyStartDash(v)

\* The step of one connection that leaves rooms and transcoders alone.
LEMMA OneMoves ==
  ASSUME ConnTypes, NEW c \in Conns,
         UNCHANGED <<nRooms, nameOf, closed, transVars>>,
         \A d \in Conns \ {c} : UNCHANGED <<pc[d], cur[d], role[d], want[d]>>,
         Moves(c)
  PROVE  Elsewhere
BY DEF Elsewhere, Moves, transVars

LEMMA StepKinds ==
  ASSUME RoomInv, [Next]_vars
  PROVE  \/ Stores \/ Starts \/ Drops \/ Lazy \/ Elsewhere
         \/ \E c \in Conns : CleanupClose(c)
<1>0. ConnTypes
  BY DEF RoomInv, TypeOK
<1>1. ASSUME NEW c \in Conns, NEW n \in Names, FindFree(c, n), pc[c] = "idle" PROVE Elsewhere
  <2>1. Moves(c)
    BY <1>0, <1>1 DEF FindFree, Moves, Owns, ConnTypes
  <2>2. \A d \in Conns \ {c} : UNCHANGED <<pc[d], cur[d], role[d], want[d]>>
    BY <1>0, <1>1 DEF FindFree, ConnTypes
  <2> QED
    BY <1>0, <1>1, <2>1, <2>2, OneMoves DEF FindFree, roomVars
<1>2. ASSUME NEW c \in Conns, NEW n \in Names, Play(c, n) PROVE Elsewhere
  <2>1. Moves(c)
    BY <1>0, <1>2 DEF Play, MayCommand, Moves, Owns, ConnTypes
  <2>2. \A d \in Conns \ {c} : UNCHANGED <<pc[d], cur[d], role[d], want[d]>>
    BY <1>0, <1>2 DEF Play, ConnTypes
  <2> QED
    BY <1>0, <1>2, <2>1, <2>2, OneMoves DEF Play, roomVars
<1>3. ASSUME NEW c \in Conns, Disconnect(c) PROVE Elsewhere
  <2>1. Moves(c)
    BY <1>0, <1>3 DEF Disconnect, Ended, Moves, Owns, ConnTypes
  <2>2. \A d \in Conns \ {c} : UNCHANGED <<pc[d], cur[d], role[d], want[d]>>
    BY <1>0, <1>3 DEF Disconnect, ConnTypes
  <2> QED
    BY <1>0, <1>3, <2>1, <2>2, OneMoves DEF Disconnect, roomVars
<1>4. ASSUME NEW c \in Conns, CleanupRoom(c) PROVE Elsewhere
  <2>1. Moves(c)
    BY <1>0, <1>4 DEF CleanupRoom, Moves, ConnTypes
  <2>2. \A d \in Conns \ {c} : UNCHANGED <<pc[d], cur[d], role[d], want[d]>>
    BY <1>0, <1>4 DEF CleanupRoom, ConnTypes
  <2> QED
    BY <1>0, <1>4, <2>1, <2>2, OneMoves DEF CleanupRoom
<1>5. ASSUME NEW c \in Conns, Accept(c) PROVE Elsewhere
  <2>1. Moves(c)
    BY <1>0, <1>5, RegistryAssumption DEF Accept, Moves, Owns, ConnTypes
  <2>2. \A d \in Conns \ {c} : UNCHANGED <<pc[d], cur[d], role[d], want[d]>>
    BY <1>0, <1>5 DEF Accept, ConnTypes
  <2> QED
    BY <1>0, <1>5, <2>1, <2>2, OneMoves DEF Accept, roomVars
<1>6. ASSUME NEW c \in Conns, AnnounceBadSDP(c) \/ Record(c) \/ RtspEnd(c) \/ SrtShutdown(c)
      PROVE  Elsewhere
  <2>1. /\ \A d \in Conns \ {c} : UNCHANGED <<pc[d], cur[d], role[d], want[d]>>
        /\ UNCHANGED <<cur[c], role[c], want[c]>>
        /\ UNCHANGED <<nRooms, nameOf, closed, transVars>>
    BY <1>0, <1>6 DEF AnnounceBadSDP, Record, RtspEnd, SrtShutdown, ConnTypes, roomVars
  <2>2. c \notin RtmpConns
    BY <1>6, RegistryAssumption DEF AnnounceBadSDP, Record, RtspEnd, SrtShutdown
  <2>3. pc'[c] = pc[c] \/ pc'[c] \in {"idle", "gone", "dropHls"}
    BY <1>0, <1>6 DEF AnnounceBadSDP, Record, RtspEnd, SrtShutdown, ConnTypes
  <2>4. Moves(c)
    BY <2>1, <2>2, <2>3 DEF Moves, Owns
  <2> QED
    BY <1>0, <2>1, <2>4, OneMoves
<1>7. ASSUME UNCHANGED <<roomVars, connVars, listed, nTrans, tKind, tRoom, stopped>>
      PROVE  Elsewhere
  BY <1>7 DEF Elsewhere, Moves, roomVars, connVars
<1>8. ASSUME NEW c \in Conns, Publish(c)
      PROVE  Elsewhere \/ Stores \/ Starts
  BY <1>1, <1>8 DEF Publish, PublishCheck, PublishStore, MayCommand, Stores, Starts
<1>9. ASSUME NEW c \in Conns, Pull(c) PROVE Elsewhere \/ Stores
  <2>1. CASE PullCheck(c)
    <3>1. StreamOf[c] \in Names
      BY <2>1, RegistryAssumption DEF PullCheck
    <3> QED
      BY <1>1, <2>1, <3>1 DEF PullCheck
  <2>2. CASE PullStore(c)
    <3>1. c \notin RtmpConns /\ StoreRoom(c, "idle")
      BY <2>2, RegistryAssumption DEF PullStore
    <3> QED
      BY <3>1 DEF Stores
  <2> QED
    BY <1>9, <2>1, <2>2 DEF Pull
<1>10. ASSUME NEW c \in Conns, Announce(c) PROVE Elsewhere \/ Stores
  <2>1. CASE \E n \in Names : AnnounceCheck(c, n)
    BY <1>1, <2>1 DEF AnnounceCheck, MayCommand
  <2>2. CASE AnnounceStore(c)
    <3>1. c \notin RtmpConns /\ StoreRoom(c, "idle")
      BY <2>2, RegistryAssumption DEF AnnounceStore
    <3> QED
      BY <3>1 DEF Stores
  <2> QED
    BY <1>6, <1>10, <2>1, <2>2 DEF Announce
<1>11. ASSUME NEW c \in Conns, Srt(c) PROVE Elsewhere \/ Stores
  <2>1. CASE SrtCheck(c)
    <3>1. StreamOf[c] \in Names
      BY <2>1, RegistryAssumption DEF SrtCheck
    <3> QED
      BY <1>1, <2>1, <3>1 DEF SrtCheck
  <2>2. CASE SrtStore(c)
    <3>1. c \notin RtmpConns /\ StoreRoom(c, "idle")
      BY <2>2, RegistryAssumption DEF SrtStore
    <3> QED
      BY <3>1 DEF Stores
  <2> QED
    BY <1>6, <1>11, <2>1, <2>2 DEF Srt
<1>12. ASSUME NEW c \in Conns, Cleanup(c)
       PROVE  Elsewhere \/ Drops \/ \E d \in Conns : CleanupClose(d)
  BY <1>4, <1>12 DEF Cleanup, Drops
<1>13. ASSUME NEW v \in Viewers, Serve(v) PROVE Lazy \/ Elsewhere
  <2>1. CASE LazyStartHls(v) \/ LazyStartDash(v)
    BY <2>1 DEF Lazy
  <2>2. CASE ~(LazyStartHls(v) \/ LazyStartDash(v))
    <3>1. UNCHANGED <<roomVars, connVars, transVars>>
      BY <1>13, <2>2 DEF Serve, Request, FLVJoin, LoadHLS, LoadDASH
    <3> QED
      BY <1>7, <3>1 DEF transVars
  <2> QED
    BY <2>1, <2>2
<1>14. CASE \/ \E t \in TranscoderIds : TranscoderExit(t)
            \/ \E x \in Readers, r \in RoomIds : ReaderWoken(x, r) \/ ReaderWriteError(x, r)
            \/ UNCHANGED vars
  BY <1>7, <1>14 DEF TranscoderExit, ReaderWoken, ReaderWriteError, transVars, vars
<1> QED
  BY <1>2, <1>3, <1>5, <1>6, <1>8, <1>9, <1>10, <1>11, <1>12, <1>13, <1>14 DEF Next, ConnNext

-----------------------------------------------------------------------------
(* The third invariant.  As long as requests start no transcoder, those that   *)
(* are listed under a name read a room of that name, started by its owner; the *)
(* owner lives until it has taken them off, and nobody else has its room.      *)

NoLazyStart == Viewers = {} \/ (HlsMode # "delay" /\ ~DashEnabled)

OwnerOpen == \A c \in Conns : Owns(c) => cur[c] \notin closed
StoppedExist == \A t \in stopped : t <= nTrans
ListedReads ==
    \A k \in Kinds, n \in Names :
        LET t == listed[k][n] IN
        t # None => t <= nTrans /\ tRoom[t] \in 1 .. nRooms /\ nameOf[tRoom[t]] = n
StarterOwns ==
    \A c \in Conns :
        pc[c] \in Starting => c \in RtmpConns /\ Owns(c) /\ want[c] = nameOf[cur[c]]
NothingLazy == \A v \in Viewers : req[v].at \notin Starting
\* Where the owner of a room has dropped its transcoder of kind k.
Dropped(k) == IF k = "hls" THEN {"dropDash", "dropRoom", "close"} ELSE {"dropRoom", "close"}
DroppedUnlisted ==
    \A c \in Conns, k \in Kinds, n \in Names :
        pc[c] \in Dropped(k) /\ listed[k][n] # None => tRoom[listed[k][n]] # cur[c]

LiveInv ==
    /\ OwnersDiffer
    /\ OwnerOpen
    /\ StoppedExist
    /\ ListedReads
    /\ StarterOwns
    /\ DroppedUnlisted
    /\ ListedTranscoderIsLive

LEMMA LiveInit == Init => LiveInv /\ NothingLazy
<1> SUFFICES ASSUME Init PROVE LiveInv /\ NothingLazy
  OBVIOUS
<1>1. \A k \in Kinds, n \in Names : listed[k][n] = None
  BY DEF Init
<1>2. ListedReads /\ DroppedUnlisted /\ ListedTranscoderIsLive
  BY <1>1 DEF ListedReads, DroppedUnlisted, ListedTranscoderIsLive
<1>3. OwnersDiffer /\ OwnerOpen /\ StarterOwns
  BY DEF Init, OwnersDiffer, Owns, OwnerOpen, StarterOwns, Starting
<1> QED
  BY <1>2, <1>3 DEF Init, LiveInv, StoppedExist, NothingLazy, NoRequest, Starting

\* What the type invariant says of the variables used here.
LEMMA LiveTypes ==
  ASSUME RoomInv
  PROVE  /\ pc \in [Conns -> Pcs] /\ cur \in [Conns -> 0 .. MaxRooms]
         /\ role \in [Conns -> {"unknown", "publisher", "player"}]
         /\ want \in [Conns -> Names \cup {None}]
         /\ nameOf \in [RoomIds -> Names \cup {None}]
         /\ listed \in [Kinds -> [Names -> 0 .. MaxTranscoders]]
         /\ tRoom \in [TranscoderIds -> 0 .. MaxRooms]
         /\ nTrans \in 0 .. MaxTranscoders /\ nRooms \in 0 .. MaxRooms
         /\ MaxRooms \in Nat /\ MaxTranscoders \in Nat
         /\ \A r \in 1 .. nRooms : nameOf[r] \in Names
         /\ \A c \in Conns : cur[c] # None => cur[c] \in 1 .. nRooms
<1>1. /\ pc \in [Conns -> Pcs] /\ cur \in [Conns -> 0 .. MaxRooms]
      /\ role \in [Conns -> {"unknown", "publisher", "player"}]
      /\ want \in [Conns -> Names \cup {None}]
  BY DEF RoomInv, TypeOK, ConnTypes
<1>2. /\ nameOf \in [RoomIds -> Names \cup {None}] /\ nRooms \in 0 .. MaxRooms
      /\ MaxRooms \in Nat /\ MaxTranscoders \in Nat
  BY RegistryAssumption DEF RoomInv, TypeOK, RoomTypes
<1>3. /\ listed \in [Kinds -> [Names -> 0 .. MaxTranscoders]]
      /\ tRoom \in [TranscoderIds -> 0 .. MaxRooms]
      /\ nTrans \in 0 .. MaxTranscoders
  BY DEF RoomInv, TypeOK, TranscoderTypes
<1>4. \A r \in 1 .. nRooms : nameOf[r] \in Names
  BY DEF RoomInv, RoomsNamed
<1>5. \A c \in Conns : cur[c] # None => cur[c] \in 1 .. nRooms
  BY <1>1, <1>2 DEF RoomInv, CurExists
<1> QED
  BY <1>1, <1>2, <1>3, <1>4, <1>5

\* Steps that leave rooms and transcoders alone.
LEMMA LiveElsewhere ==
  ASSUME RoomInv, LiveInv, Elsewhere PROVE LiveInv'
<1>0. /\ \A d \in Conns : Moves(d)
      /\ UNCHANGED <<nRooms, nameOf, closed, listed, nTrans, tKind, tRoom, stopped>>
  BY DEF Elsewhere
<1>1. \A d \in Conns : Owns(d)' => Owns(d) /\ cur'[d] = cur[d]
  BY <1>0 DEF Moves, Owns
<1>2. OwnersDiffer' /\ OwnerOpen'
  BY <1>0, <1>1 DEF LiveInv, OwnersDiffer, OwnerOpen
<1>3. StoppedExist' /\ ListedReads' /\ ListedTranscoderIsLive'
  BY <1>0 DEF LiveInv, StoppedExist, ListedReads, ListedTranscoderIsLive
<1>4. StarterOwns'
  BY <1>0 DEF LiveInv, StarterOwns, Starting, Moves, Owns
<1>5. DroppedUnlisted'
  <2>1. \A d \in Conns, k \in Kinds : pc'[d] \in Dropped(k) => pc[d] \in Dropped(k) /\ cur'[d] = cur[d]
    BY <1>0 DEF Moves, Dropped
  <2> QED
    BY <1>0, <2>1 DEF LiveInv, DroppedUnlisted
<1> QED
  BY <1>2, <1>3, <1>4, <1>5 DEF LiveInv

\* A room is stored by c: it has no transcoder and nobody else owns it.
LEMMA LiveStore ==
  ASSUME RoomInv, LiveInv, NEW c \in Conns, NEW next \in {"idle", "startHls", "startDash"},
         StoreRoom(c, next), next # "idle" => c \in RtmpConns
  PROVE  LiveInv'
<1>0. /\ nRooms' = nRooms + 1 /\ nRooms + 1 \in RoomIds
      /\ \A d \in Conns : /\ cur'[d] = IF d = c THEN nRooms + 1 ELSE cur[d]
                          /\ role'[d] = IF d = c THEN "publisher" ELSE role[d]
                          /\ pc'[d] = IF d = c THEN next ELSE pc[d]
      /\ \A r \in RoomIds : nameOf'[r] = IF r = nRooms + 1 THEN want[c] ELSE nameOf[r]
      /\ UNCHANGED <<closed, want, listed, nTrans, tRoom, stopped>>
  BY LiveTypes DEF StoreRoom, transVars
<1>1. nRooms + 1 \notin closed /\ nRooms \in Nat /\ \A d \in Conns : cur[d] # nRooms + 1
  BY LiveTypes DEF RoomInv, ClosedExists, CurExists
<1>2. \A d \in Conns : Owns(d)' => d = c \/ (Owns(d) /\ cur'[d] = cur[d])
  BY <1>0 DEF Owns
<1>3. OwnersDiffer' /\ OwnerOpen'
  BY <1>0, <1>1, <1>2 DEF LiveInv, OwnersDiffer, OwnerOpen
<1>4. \A r \in 1 .. nRooms : nameOf'[r] = nameOf[r] /\ r \in 1 .. nRooms'
  BY <1>0, LiveTypes
<1>5. StoppedExist' /\ ListedReads' /\ ListedTranscoderIsLive'
  BY <1>0, <1>4 DEF LiveInv, StoppedExist, ListedReads, ListedTranscoderIsLive
<1>6. StarterOwns'
  <2> SUFFICES ASSUME NEW d \in Conns, pc'[d] \in Starting
               PROVE  d \in RtmpConns /\ Owns(d)' /\ want'[d] = nameOf'[cur'[d]]
    BY DEF StarterOwns
  <2>1. CASE d = c
    BY <1>0, <1>1, <2>1 DEF Starting, Owns
  <2>2. CASE d # c
    <3>1. d \in RtmpConns /\ Owns(d) /\ want[d] = nameOf[cur[d]] /\ cur[d] \in 1 .. nRooms
      BY <1>0, <2>2, LiveTypes DEF LiveInv, StarterOwns, Owns
    <3> QED
      BY <1>0, <1>4, <2>2, <3>1 DEF Owns
  <2> QED
    BY <2>1, <2>2
<1>7. DroppedUnlisted'
  BY <1>0 DEF LiveInv, DroppedUnlisted, Dropped
<1> QED
  BY <1>3, <1>5, <1>6, <1>7 DEF LiveInv

\* Who is in the cleanup owns its room.
LEMMA DropperOwns ==
  ASSUME RoomInv, NEW c \in Conns, NEW k \in Kinds, pc[c] \in Dropped(k) PROVE Owns(c)
BY DEF RoomInv, CleanerOwns, Cleaning, Dropped, Owns

\* What starting a transcoder does to the lists.
LEMMA StartFacts ==
  ASSUME RoomInv, NEW k \in Kinds, NEW n \in Names, NEW r \in 0 .. MaxRooms,
         StartTranscoder(k, n, r)
  PROVE  /\ nTrans + 1 \in TranscoderIds /\ nTrans' = nTrans + 1 /\ stopped' = stopped
         /\ \A j \in Kinds, m \in Names :
               listed'[j][m] = IF j = k /\ m = n THEN nTrans + 1 ELSE listed[j][m]
         /\ \A t \in TranscoderIds : tRoom'[t] = IF t = nTrans + 1 THEN r ELSE tRoom[t]
         /\ \A j \in Kinds, m \in Names : listed[j][m] \in 0 .. MaxTranscoders
BY LiveTypes DEF StartTranscoder

\* An owner starts a transcoder of its room.
LEMMA LiveStart ==
  ASSUME RoomInv, LiveInv, NEW c \in Conns, NEW k \in Kinds, pc[c] \in Starting,
         StartTranscoder(k, want[c], cur[c]), NEW next \in {"idle", "startDash"},
         pc' = [pc EXCEPT ![c] = next], UNCHANGED <<roomVars, cur, role, want>>
  PROVE  LiveInv'
<1>0. /\ c \in RtmpConns /\ Owns(c) /\ want[c] = nameOf[cur[c]]
      /\ cur[c] \in 1 .. nRooms /\ want[c] \in Names /\ cur[c] \in 0 .. MaxRooms
      /\ cur[c] \notin closed
  BY LiveTypes DEF LiveInv, StarterOwns, Owns, OwnerOpen
<1> DEFINE t == nTrans + 1
<1>1. /\ t \in TranscoderIds /\ nTrans' = t /\ stopped' = stopped
      /\ \A j \in Kinds, m \in Names :
            listed'[j][m] = IF j = k /\ m = want[c] THEN t ELSE listed[j][m]
      /\ \A u \in TranscoderIds : tRoom'[u] = IF u = t THEN cur[c] ELSE tRoom[u]
      /\ \A j \in Kinds, m \in Names : listed[j][m] \in 0 .. MaxTranscoders
      /\ nTrans \in Nat
  BY <1>0, StartFacts, LiveTypes
<1>2. /\ UNCHANGED <<nRooms, nameOf, closed>>
      /\ \A d \in Conns : pc'[d] = IF d = c THEN next ELSE pc[d]
  BY LiveTypes DEF roomVars
<1> HIDE DEF t
<1>3. OwnersDiffer' /\ OwnerOpen' /\ StoppedExist'
  <2>1. OwnersDiffer' /\ OwnerOpen'
    BY <1>2 DEF LiveInv, OwnersDiffer, Owns, OwnerOpen
  <2>2. stopped \subseteq TranscoderIds
    BY DEF RoomInv, TypeOK, TranscoderTypes
  <2>3. ASSUME NEW u \in stopped PROVE u <= nTrans'
    BY <1>1, <2>2, <2>3 DEF LiveInv, StoppedExist, t
  <2> QED
    BY <1>1, <2>1, <2>3 DEF StoppedExist
<1>4. StarterOwns'
  BY <1>0, <1>2 DEF LiveInv, StarterOwns, Starting, Owns
<1>5. ASSUME NEW j \in Kinds, NEW m \in Names, listed'[j][m] # None
      PROVE  \/ j = k /\ m = want[c] /\ listed'[j][m] = t /\ tRoom'[listed'[j][m]] = cur[c]
             \/ /\ listed'[j][m] = listed[j][m] /\ listed[j][m] # None
                /\ listed[j][m] <= nTrans /\ listed[j][m] \in Nat
                /\ tRoom'[listed'[j][m]] = tRoom[listed[j][m]]
  <2>1. CASE j = k /\ m = want[c]
    BY <1>1, <2>1
  <2>2. CASE ~(j = k /\ m = want[c])
    <3>1. listed'[j][m] = listed[j][m] /\ listed[j][m] \in TranscoderIds
      BY <1>1, <1>5, <2>2
    <3>2. listed[j][m] <= nTrans
      BY <1>5, <3>1 DEF LiveInv, ListedReads
    <3>3. listed[j][m] # t /\ listed[j][m] \in Nat
      BY <1>1, <3>1, <3>2 DEF t
    <3> QED
      BY <1>1, <1>5, <3>1, <3>2, <3>3
  <2> QED
    BY <2>1, <2>2
<1>6. ListedReads'
  <2>1. t <= nTrans' /\ \A u \in Nat : u <= nTrans => u <= nTrans'
    BY <1>1 DEF t
  <2>2. ASSUME NEW j \in Kinds, NEW m \in Names, listed'[j][m] # None
        PROVE  /\ listed'[j][m] <= nTrans' /\ tRoom'[listed'[j][m]] \in 1 .. nRooms'
               /\ nameOf'[tRoom'[listed'[j][m]]] = m
    <3>1. CASE j = k /\ m = want[c] /\ listed'[j][m] = t /\ tRoom'[listed'[j][m]] = cur[c]
      BY <1>0, <1>2, <2>1, <3>1
    <3>2. CASE /\ listed'[j][m] = listed[j][m] /\ listed[j][m] # None
               /\ listed[j][m] <= nTrans /\ listed[j][m] \in Nat
               /\ tRoom'[listed'[j][m]] = tRoom[listed[j][m]]
      BY <1>2, <2>1, <3>2 DEF LiveInv, ListedReads
    <3> QED
      BY <1>5, <2>2, <3>1, <3>2
  <2> QED
    BY <2>2 DEF ListedReads
<1>7. DroppedUnlisted'
  <2> SUFFICES ASSUME NEW d \in Conns, NEW j \in Kinds, NEW m \in Names,
                      pc'[d] \in Dropped(j), listed'[j][m] # None
               PROVE  tRoom'[listed'[j][m]] # cur'[d]
    BY DEF DroppedUnlisted
  <2>1. d # c /\ pc[d] \in Dropped(j)
    BY <1>2 DEF Dropped
  <2>2. cur[d] # cur[c]
    BY <1>0, <2>1, DropperOwns DEF LiveInv, OwnersDiffer
  <2>3. listed[j][m] # None => tRoom[listed[j][m]] # cur[d]
    BY <2>1 DEF LiveInv, DroppedUnlisted
  <2> QED
    BY <1>5, <2>2, <2>3
<1>8. ListedTranscoderIsLive'
  <2>1. ASSUME NEW j \in Kinds, NEW m \in Names, listed'[j][m] # None
        PROVE  tRoom'[listed'[j][m]] \notin closed
    <3>1. listed[j][m] # None => tRoom[listed[j][m]] \notin closed
      BY DEF LiveInv, ListedTranscoderIsLive
    <3> QED
      BY <1>0, <1>5, <2>1, <3>1
  <2> QED
    BY <1>2, <2>1 DEF ListedTranscoderIsLive
<1> QED
  BY <1>3, <1>4, <1>6, <1>7, <1>8 DEF LiveInv

\* What dropping a transcoder does to the lists.
LEMMA DropFacts ==
  ASSUME RoomInv, NEW c \in Conns, NEW k \in Kinds,
         NEW at \in {"dropHls", "dropDash"}, NEW next \in {"dropDash", "dropRoom"},
         DropTranscoder(c, k, at, next)
  PROVE  /\ Owns(c) /\ cur[c] \in 1 .. nRooms /\ nameOf[cur[c]] \in Names
         /\ \A j \in Kinds, m \in Names :
               listed'[j][m] = IF j = k /\ m = nameOf[cur[c]] THEN None ELSE listed[j][m]
         /\ stopped' = stopped \cup ({listed[k][nameOf[cur[c]]]} \ {None})
         /\ \A d \in Conns : pc'[d] = IF d = c THEN next ELSE pc[d]
         /\ UNCHANGED <<nRooms, nameOf, closed, cur, role, want, nTrans, tRoom>>
<1>1. Owns(c)
  BY DEF DropTranscoder, RoomInv, CleanerOwns, Cleaning, Owns
<1>2. cur[c] \in 1 .. nRooms /\ nameOf[cur[c]] \in Names
  BY <1>1, LiveTypes DEF Owns
<1> QED
  BY <1>1, <1>2, LiveTypes DEF DropTranscoder, roomVars

\* An owner drops its transcoder of one kind: all that read its room are listed
\* under its name.
LEMMA LiveDrop ==
  ASSUME RoomInv, LiveInv, NEW c \in Conns, CleanupHls(c) \/ CleanupDash(c)
  PROVE  LiveInv'
<1>1. PICK k \in Kinds, at \in {"dropHls", "dropDash"}, next \in {"dropDash", "dropRoom"} :
        /\ DropTranscoder(c, k, at, next)
        /\ \A j \in Kinds : next \in Dropped(j) => j = k \/ pc[c] \in Dropped(j)
  BY DEF CleanupHls, CleanupDash, DropTranscoder, Dropped, Kinds
<1>2. /\ Owns(c) /\ cur[c] \in 1 .. nRooms /\ nameOf[cur[c]] \in Names
      /\ \A j \in Kinds, m \in Names :
            listed'[j][m] = IF j = k /\ m = nameOf[cur[c]] THEN None ELSE listed[j][m]
      /\ stopped' = stopped \cup ({listed[k][nameOf[cur[c]]]} \ {None})
      /\ \A d \in Conns : pc'[d] = IF d = c THEN next ELSE pc[d]
      /\ UNCHANGED <<nRooms, nameOf, closed, cur, role, want, nTrans, tRoom>>
  BY <1>1, DropFacts
<1>3. OwnersDiffer' /\ OwnerOpen'
  BY <1>2 DEF LiveInv, OwnersDiffer, Owns, OwnerOpen
<1>4. StoppedExist'
  BY <1>2 DEF LiveInv, StoppedExist, ListedReads
<1>5. \A j \in Kinds, m \in Names :
         listed'[j][m] # None =>
            listed'[j][m] = listed[j][m] /\ ~(j = k /\ m = nameOf[cur[c]])
  BY <1>2
<1>6. ListedReads' /\ ListedTranscoderIsLive'
  BY <1>2, <1>5 DEF LiveInv, ListedReads, ListedTranscoderIsLive
<1>7. StarterOwns'
  BY <1>2 DEF LiveInv, StarterOwns, Starting, Owns
<1>8. DroppedUnlisted'
  <2> SUFFICES ASSUME NEW d \in Conns, NEW j \in Kinds, NEW m \in Names,
                      pc'[d] \in Dropped(j), listed'[j][m] # None
               PROVE  tRoom'[listed'[j][m]] # cur'[d]
    BY DEF DroppedUnlisted
  <2>1. listed'[j][m] = listed[j][m] /\ ~(j = k /\ m = nameOf[cur[c]])
    BY <1>5
  <2>2. CASE pc[d] \in Dropped(j)
    BY <1>2, <2>1, <2>2 DEF LiveInv, DroppedUnlisted
  <2>3. CASE pc[d] \notin Dropped(j)
    <3>1. d = c /\ j = k
      BY <1>1, <1>2, <2>3
    <3>2. nameOf[tRoom[listed[j][m]]] = m
      BY <2>1 DEF LiveInv, ListedReads
    <3> QED
      BY <1>2, <2>1, <3>1, <3>2
  <2> QED
    BY <2>2, <2>3
<1> QED
  BY <1>3, <1>4, <1>6, <1>7, <1>8 DEF LiveInv

\* An owner closes its room: nothing that reads it is listed any more.
LEMMA LiveClose ==
  ASSUME RoomInv, LiveInv, NEW c \in Conns, CleanupClose(c)
  PROVE  LiveInv'
<1>0. /\ Owns(c) /\ pc[c] = "close" /\ closed' = closed \cup {cur[c]}
      /\ \A d \in Conns : /\ cur'[d] = IF d = c THEN None ELSE cur[d]
                          /\ pc'[d] = IF d = c THEN Ended(c) ELSE pc[d]
      /\ UNCHANGED <<nRooms, nameOf, role, want, listed, nTrans, tRoom, stopped>>
  <2>1. pc[c] = "close"
    BY DEF CleanupClose
  <2>2. Owns(c)
    BY <2>1 DEF RoomInv, CleanerOwns, Cleaning, Owns
  <2> QED
    BY <2>1, <2>2, LiveTypes DEF CleanupClose, transVars
<1>1. \A d \in Conns : Owns(d)' => d # c /\ Owns(d) /\ cur'[d] = cur[d] /\ cur[d] # cur[c]
  BY <1>0 DEF Owns, LiveInv, OwnersDiffer
<1>2. OwnersDiffer' /\ OwnerOpen'
  BY <1>0, <1>1 DEF LiveInv, OwnersDiffer, OwnerOpen
<1>3. StoppedExist' /\ ListedReads'
  BY <1>0 DEF LiveInv, StoppedExist, ListedReads
<1>4. StarterOwns'
  <2>1. Ended(c) \notin Starting
    BY DEF Ended, Starting
  <2> QED
    BY <1>0, <2>1 DEF LiveInv, StarterOwns, Owns
<1>5. DroppedUnlisted'
  <2>1. \A k \in Kinds : Ended(c) \notin Dropped(k)
    BY DEF Ended, Dropped
  <2> QED
    BY <1>0, <2>1 DEF LiveInv, DroppedUnlisted
<1>6. ListedTranscoderIsLive'
  <2>1. \A k \in Kinds, n \in Names : listed[k][n] # None => tRoom[listed[k][n]] # cur[c]
    BY <1>0 DEF LiveInv, DroppedUnlisted, Dropped
  <2> QED
    BY <1>0, <2>1 DEF LiveInv, ListedTranscoderIsLive
<1> QED
  BY <1>2, <1>3, <1>4, <1>5, <1>6 DEF LiveInv

\* Where NoLazyStart holds no request gets to the steps that start a transcoder.
LEMMA LazyNext ==
  ASSUME NoLazyStart, RoomInv, NothingLazy, [Next]_vars
  PROVE  NothingLazy' /\ ~Lazy
<1>0. req \in [Viewers -> [at : ReqSteps, room : 0 .. MaxRooms,
                           name : Names \cup {None}, file : Files]]
  BY DEF RoomInv, TypeOK, ClientTypes
<1>1. ~Lazy
  BY DEF Lazy, LazyStartHls, LazyStartDash, NothingLazy, Starting
<1>2. ASSUME UNCHANGED req PROVE NothingLazy'
  BY <1>2 DEF NothingLazy
<1>3. ASSUME NEW v \in Viewers, Serve(v) PROVE NothingLazy'
  <2>1. HlsMode # "delay" /\ ~DashEnabled
    BY DEF NoLazyStart
  <2>2. NoRequest.at \notin Starting
    BY DEF NoRequest, Starting
  <2>3. req'[v].at \notin Starting /\ \A w \in Viewers \ {v} : req'[w] = req[w]
    <3>1. CASE \E n \in Names, f \in Files : Request(v, n, f)
      BY <1>0, <3>1 DEF Request, Starting
    <3>2. CASE FLVJoin(v)
      BY <1>0, <2>2, <3>2 DEF FLVJoin
    <3>3. CASE LoadHLS(v)
      <4>1. \/ req' = [req EXCEPT ![v] = NoRequest]
            \/ req' = [req EXCEPT ![v].at = "dash"]
        BY <1>0, <2>1, <3>3 DEF LoadHLS
      <4> QED
        BY <1>0, <2>2, <4>1 DEF Starting
    <3>4. CASE LoadDASH(v)
      <4>1. req' = [req EXCEPT ![v] = NoRequest]
        BY <2>1, <3>4 DEF LoadDASH
      <4> QED
        BY <1>0, <2>2, <4>1
    <3> QED
      BY <1>1, <1>3, <3>1, <3>2, <3>3, <3>4 DEF Serve, Lazy
  <2> QED
    BY <2>3 DEF NothingLazy
<1>4. ASSUME ~\E v \in Viewers : Serve(v) PROVE NothingLazy'
  <2>1. UNCHANGED req
    BY <1>4 DEF Next, ConnNext, Publish, PublishCheck, PublishStore, PublishStartHls,
         PublishStartDash, Pull, PullCheck, PullStore, Announce, AnnounceCheck, AnnounceBadSDP,
         AnnounceStore, Srt, SrtCheck, SrtStore, SrtShutdown, FindFree, StoreRoom, Play,
         Disconnect, Cleanup, CleanupHls, CleanupDash, CleanupRoom, CleanupClose, DropTranscoder,
         Accept, Record, RtspEnd, TranscoderExit, ReaderWoken, ReaderWriteError, vars
  <2> QED
    BY <1>2, <2>1
<1> QED
  BY <1>1, <1>3, <1>4

LEMMA LiveStep ==
  ASSUME NoLazyStart, RoomInv, LiveInv, NothingLazy, [Next]_vars
  PROVE  LiveInv' /\ NothingLazy'
<1>1. ASSUME Stores PROVE LiveInv'
  <2>1. AfterPublish \in {"idle", "startHls", "startDash"} /\ "idle" \in {"idle", "startHls", "startDash"}
    BY DEF AfterPublish, AfterHls
  <2> QED
    BY <1>1, <2>1, LiveStore DEF Stores
<1>2. ASSUME NEW c \in Conns, PublishStartHls(c) PROVE LiveInv'
  <2>1. AfterHls \in {"idle", "startDash"} /\ "hls" \in Kinds
    BY DEF AfterHls, Kinds
  <2> QED
    BY <1>2, <2>1, LiveStart DEF PublishStartHls, Starting
<1>3. ASSUME NEW c \in Conns, PublishStartDash(c) PROVE LiveInv'
  <2>1. "dash" \in Kinds
    BY DEF Kinds
  <2> QED
    BY <1>3, <2>1, LiveStart DEF PublishStartDash, Starting
<1> QED
  BY <1>1, <1>2, <1>3, StepKinds, LazyNext, LiveDrop, LiveClose, LiveElsewhere DEF Starts, Drops

LEMMA LiveInvariant == ASSUME NoLazyStart PROVE Spec => [](LiveInv /\ NothingLazy)
<1>1. RoomInv /\ LiveInv /\ NothingLazy /\ [Next]_vars => (LiveInv /\ NothingLazy)'
  BY LiveStep
<1> QED
  BY <1>1, LiveInit, RoomInvariant, PTL DEF Spec

(* Publishers of a name racing or not, a transcoder that requests are served   *)
(* from reads an open room, as long as only the PUBLISH handler starts them: a *)
(* publisher takes all that read its room off the lists before it closes it.   *)
THEOREM ListedReadsOpenRoom == ASSUME NoLazyStart PROVE Spec => []ListedTranscoderIsLive
<1>1. LiveInv => ListedTranscoderIsLive
  BY DEF LiveInv
<1> QED
  BY <1>1, LiveInvariant, PTL

-----------------------------------------------------------------------------
(* The fourth.  What an RTMP publisher started it keeps: the transcoder of     *)
(* each kind its PUBLISH has got past is listed under its name.                *)

Wanted(k) == (k = "hls" => HlsMode = "immediately") /\ (k = "dash" => DashEnabled)
Serving(k) == IF k = "hls" THEN {"idle", "startDash"} ELSE {"idle"}
Serves(c, k) == Wanted(k) /\ Owns(c) /\ pc[c] \in Serving(k)
Has(c, k) ==
    LET t == listed[k][nameOf[cur[c]]]
    IN  t # None /\ tRoom[t] = cur[c] /\ t \notin stopped

KeepsInv == \A c \in RtmpConns, k \in Kinds : Serves(c, k) => Has(c, k)

\* Owners that are not yet in the close have rooms of different names.
LEMMA NamesDiffer ==
  ASSUME TurnInv, NEW c \in Conns, NEW d \in Conns, c # d, Owns(c), Owns(d),
         pc[c] # "close", pc[d] # "close"
  PROVE  nameOf[cur[c]] # nameOf[cur[d]]
<1>1. rooms[nameOf[cur[c]]] = cur[c] /\ rooms[nameOf[cur[d]]] = cur[d]
  BY DEF TurnInv, PublisherListed, Publishes, Owns
<1>2. cur[c] # cur[d]
  BY DEF TurnInv, OwnersDiffer
<1> QED
  BY <1>1, <1>2

LEMMA KeepsElsewhere ==
  ASSUME KeepsInv, Elsewhere PROVE KeepsInv'
<1> SUFFICES ASSUME NEW c \in RtmpConns, NEW k \in Kinds, Serves(c, k)' PROVE Has(c, k)'
  BY DEF KeepsInv
<1>1. Moves(c) /\ UNCHANGED <<nameOf, listed, tRoom, stopped>>
  BY DEF Elsewhere, Conns
<1>2. Serves(c, k) /\ cur'[c] = cur[c]
  BY <1>1 DEF Serves, Serving, Wanted, Moves, Owns
<1> QED
  BY <1>1, <1>2 DEF KeepsInv, Has

\* A store leaves nobody serving that was not before.
LEMMA KeepsStore ==
  ASSUME RoomInv, KeepsInv, Stores PROVE KeepsInv'
<1> SUFFICES ASSUME NEW d \in RtmpConns, NEW k \in Kinds, Serves(d, k)' PROVE Has(d, k)'
  BY DEF KeepsInv
<1>0. d \in Conns
  BY DEF Conns
<1>1. PICK c \in Conns, next \in Pcs :
        StoreRoom(c, next) /\ (c \in RtmpConns => next = AfterPublish)
  BY DEF Stores, AfterPublish, AfterHls, Pcs
<1>2. /\ \A e \in Conns : /\ cur'[e] = IF e = c THEN nRooms + 1 ELSE cur[e]
                          /\ role'[e] = IF e = c THEN "publisher" ELSE role[e]
                          /\ pc'[e] = IF e = c THEN next ELSE pc[e]
      /\ \A r \in RoomIds : nameOf'[r] = IF r = nRooms + 1 THEN want[c] ELSE nameOf[r]
      /\ UNCHANGED <<listed, tRoom, stopped>>
  BY <1>1, LiveTypes DEF StoreRoom, transVars
<1>3. d # c
  <2>1. SUFFICES ASSUME d = c PROVE FALSE
    OBVIOUS
  <2>2. AfterPublish \in Serving(k) /\ Wanted(k)
    BY <1>0, <1>1, <1>2, <2>1 DEF Serves
  <2> QED
    BY <2>2 DEF Serving, Wanted, AfterPublish, AfterHls, Kinds
<1>4. Serves(d, k) /\ cur'[d] = cur[d]
  BY <1>0, <1>2, <1>3 DEF Serves, Owns, Wanted
<1>5. nameOf'[cur[d]] = nameOf[cur[d]]
  <2>1. cur[d] \in 1 .. nRooms /\ nRooms \in 0 .. MaxRooms /\ MaxRooms \in Nat
    BY <1>0, <1>4, LiveTypes DEF Serves, Owns
  <2>2. cur[d] \in RoomIds /\ cur[d] # nRooms + 1
    BY <2>1
  <2> QED
    BY <1>2, <2>2
<1> QED
  BY <1>2, <1>4, <1>5 DEF KeepsInv, Has

\* A start lists the new transcoder under the name of its own room only.
LEMMA KeepsStart ==
  ASSUME RoomInv, TurnInv, LiveInv, KeepsInv, NEW c \in Conns, NEW k \in Kinds,
         pc[c] \in Starting, k = "dash" => pc[c] = "startDash",
         StartTranscoder(k, want[c], cur[c]), NEW next \in {"idle", "startDash"},
         k = "hls" => next = AfterHls,
         pc' = [pc EXCEPT ![c] = next], UNCHANGED <<roomVars, cur, role, want>>
  PROVE  KeepsInv'
<1> SUFFICES ASSUME NEW d \in RtmpConns, NEW j \in Kinds, Serves(d, j)' PROVE Has(d, j)'
  BY DEF KeepsInv
<1>0. /\ d \in Conns /\ Owns(c) /\ want[c] = nameOf[cur[c]]
      /\ want[c] \in Names /\ cur[c] \in 0 .. MaxRooms
  BY LiveTypes DEF LiveInv, StarterOwns, Owns, Conns
<1> DEFINE t == nTrans + 1
<1>1. /\ t \in TranscoderIds /\ stopped' = stopped
      /\ \A i \in Kinds, m \in Names :
            listed'[i][m] = IF i = k /\ m = want[c] THEN t ELSE listed[i][m]
      /\ \A u \in TranscoderIds : tRoom'[u] = IF u = t THEN cur[c] ELSE tRoom[u]
      /\ \A i \in Kinds, m \in Names : listed[i][m] \in 0 .. MaxTranscoders
      /\ nTrans \in Nat /\ MaxTranscoders \in Nat
  BY <1>0, StartFacts, LiveTypes
<1>2. t # None /\ t \notin stopped /\ \A u \in Nat : u <= nTrans => u # t
  BY <1>1 DEF LiveInv, StoppedExist
<1> HIDE DEF t
<1>3. /\ UNCHANGED <<nameOf, cur, role>>
      /\ \A e \in Conns : pc'[e] = IF e = c THEN next ELSE pc[e]
  BY LiveTypes DEF roomVars
<1>4. CASE d = c /\ j = k
  BY <1>0, <1>1, <1>2, <1>3, <1>4 DEF Has
<1>5. CASE ~(d = c /\ j = k)
  <2>1. Serves(d, j)
    <3>1. CASE d = c
      <4>1. j # k /\ next \in Serving(j) /\ Wanted(j)
        BY <1>3, <1>5, <3>1, <1>0 DEF Serves, Wanted
      <4>2. k = "dash" /\ j = "hls"
        BY <4>1 DEF Serving, Wanted, AfterHls, Kinds
      <4> QED
        BY <1>0, <3>1, <4>1, <4>2 DEF Serves, Serving
    <3>2. CASE d # c
      BY <1>0, <1>3, <3>2 DEF Serves, Owns, Wanted
    <3> QED
      BY <3>1, <3>2
  <2>2. Has(d, j) /\ Owns(d) /\ nameOf[cur[d]] \in Names
    BY <1>0, <2>1, LiveTypes DEF KeepsInv, Serves, Owns
  <2>3. ~(j = k /\ nameOf[cur[d]] = want[c])
    <3>1. ASSUME d # c PROVE nameOf[cur[d]] # nameOf[cur[c]]
      BY <1>0, <2>1, <2>2, <3>1, NamesDiffer DEF Serves, Serving, Starting
    <3> QED
      BY <1>0, <1>5, <3>1
  <2>4. listed'[j][nameOf[cur[d]]] = listed[j][nameOf[cur[d]]]
    BY <1>1, <2>2, <2>3
  <2>5. listed[j][nameOf[cur[d]]] \in TranscoderIds /\ listed[j][nameOf[cur[d]]] # t
    <3>1. /\ listed[j][nameOf[cur[d]]] \in 0 .. MaxTranscoders
          /\ listed[j][nameOf[cur[d]]] # 0 /\ listed[j][nameOf[cur[d]]] <= nTrans
      BY <1>1, <2>2 DEF Has, LiveInv, ListedReads, None
    <3> QED
      BY <1>1, <1>2, <3>1
  <2> QED
    BY <1>1, <1>3, <2>2, <2>4, <2>5 DEF Has
<1> QED
  BY <1>4, <1>5

\* A drop takes off, and stops, only what is listed under the dropper's name.
LEMMA KeepsDrop ==
  ASSUME RoomInv, TurnInv, LiveInv, KeepsInv, NEW c \in Conns,
         CleanupHls(c) \/ CleanupDash(c)
  PROVE  KeepsInv'
<1>1. PICK k \in Kinds, at \in {"dropHls", "dropDash"}, next \in {"dropDash", "dropRoom"} :
        DropTranscoder(c, k, at, next)
  BY DEF CleanupHls, CleanupDash, Kinds
<1>2. /\ Owns(c) /\ pc[c] # "close"
      /\ \A j \in Kinds, m \in Names :
            listed'[j][m] = IF j = k /\ m = nameOf[cur[c]] THEN None ELSE listed[j][m]
      /\ stopped' = stopped \cup ({listed[k][nameOf[cur[c]]]} \ {None})
      /\ \A d \in Conns : pc'[d] = IF d = c THEN next ELSE pc[d]
      /\ UNCHANGED <<nameOf, cur, role, tRoom>>
      /\ nameOf[cur[c]] \in Names
  <2>1. pc[c] # "close"
    BY <1>1 DEF DropTranscoder
  <2> QED
    BY <1>1, <2>1, DropFacts
<1> SUFFICES ASSUME NEW d \in RtmpConns, NEW j \in Kinds, Serves(d, j)' PROVE Has(d, j)'
  BY DEF KeepsInv
<1>3. d # c /\ d \in Conns /\ Serves(d, j)
  BY <1>2 DEF Serves, Serving, Owns, Wanted, Conns
<1>4. Has(d, j) /\ Owns(d) /\ nameOf[cur[d]] \in Names
  BY <1>3, LiveTypes DEF KeepsInv, Serves, Owns
<1>5. nameOf[cur[d]] # nameOf[cur[c]]
  BY <1>2, <1>3, <1>4, NamesDiffer DEF Serves, Serving
<1>6. listed'[j][nameOf[cur[d]]] = listed[j][nameOf[cur[d]]]
  BY <1>2, <1>4, <1>5
<1>7. listed[j][nameOf[cur[d]]] # listed[k][nameOf[cur[c]]]
  BY <1>2, <1>4, <1>5 DEF Has, LiveInv, ListedReads
<1> QED
  BY <1>2, <1>4, <1>6, <1>7 DEF Has

LEMMA KeepsClose ==
  ASSUME RoomInv, KeepsInv, NEW c \in Conns, CleanupClose(c) PROVE KeepsInv'
<1> SUFFICES ASSUME NEW d \in RtmpConns, NEW k \in Kinds, Serves(d, k)' PROVE Has(d, k)'
  BY DEF KeepsInv
<1>1. /\ \A e \in Conns : /\ cur'[e] = IF e = c THEN None ELSE cur[e]
                          /\ pc'[e] = IF e = c THEN Ended(c) ELSE pc[e]
      /\ UNCHANGED <<nameOf, role, listed, tRoom, stopped>>
  BY LiveTypes DEF CleanupClose, transVars
<1>2. Serves(d, k) /\ cur'[d] = cur[d]
  BY <1>1 DEF Serves, Owns, Conns, Wanted
<1> QED
  BY <1>1, <1>2 DEF KeepsInv, Has

LEMMA KeepsStep ==
  ASSUME NoLazyStart, RoomInv, TurnInv, LiveInv, NothingLazy, KeepsInv, [Next]_vars
  PROVE  KeepsInv'
<1>1. ASSUME NEW c \in Conns, PublishStartHls(c) PROVE KeepsInv'
  <2>1. AfterHls \in {"idle", "startDash"} /\ "hls" \in Kinds
    BY DEF AfterHls, Kinds
  <2> QED
    BY <1>1, <2>1, KeepsStart DEF PublishStartHls, Starting
<1>2. ASSUME NEW c \in Conns, PublishStartDash(c) PROVE KeepsInv'
  <2>1. "dash" \in Kinds
    BY DEF Kinds
  <2> QED
    BY <1>2, <2>1, KeepsStart DEF PublishStartDash, Starting
<1> QED
  BY <1>1, <1>2, StepKinds, LazyNext, KeepsStore, KeepsDrop, KeepsClose, KeepsElsewhere
     DEF Starts, Drops

(* Where publishers of a name also take turns, no cleanup takes or stops the   *)
(* transcoder of another publisher: each keeps its own while it lives.         *)
THEOREM StreamKeepsItsOwn ==
  ASSUME TakeTurns, NoLazyStart PROVE Spec => []StreamKeepsTranscoders
<1>1. Init => KeepsInv
  BY DEF Init, KeepsInv, Serves, Owns, Conns
<1>2. RoomInv /\ TurnInv /\ (LiveInv /\ NothingLazy) /\ KeepsInv /\ [Next]_vars => KeepsInv'
  BY KeepsStep
<1>3. KeepsInv => StreamKeepsTranscoders
  <2> SUFFICES ASSUME KeepsInv, NEW k \in Kinds, Wanted(k) PROVE StreamKeeps(k)
    BY DEF StreamKeepsTranscoders, Wanted, Kinds
  <2> QED
    BY DEF KeepsInv, StreamKeeps, Serves, Serving, Has, Publishes, Owns
<1> QED
  BY <1>1, <1>2, <1>3, RoomInvariant, TurnInvariant, LiveInvariant, PTL DEF Spec

-----------------------------------------------------------------------------
(* The fifth.  A connection that stores a room owns none yet, so each open     *)
(* room keeps the connection that will close it.                               *)

StoreOwnsNothing == \A c \in Conns : pc[c] = "store" => cur[c] = None
OrphanInv == OrphanFree /\ StoreOwnsNothing

\* Who has a room to close has it still, and is still there.
Kept(c) == Owns(c) /\ pc[c] # "gone" => Owns(c)' /\ cur'[c] = cur[c] /\ pc'[c] # "gone"

LEMMA OrphanMove ==
  ASSUME OrphanInv, ConnTypes, NEW c \in Conns, UNCHANGED <<nRooms, closed>>,
         \A d \in Conns \ {c} : UNCHANGED <<pc[d], cur[d], role[d]>>,
         Kept(c), pc'[c] = "store" => cur'[c] = None
  PROVE  OrphanInv'
<1>1. \A d \in Conns : Kept(d)
  BY DEF Kept, Owns
<1>2. StoreOwnsNothing'
  BY DEF OrphanInv, StoreOwnsNothing
<1>3. OrphanFree'
  <2> SUFFICES ASSUME NEW r \in 1 .. nRooms \ closed
               PROVE  \E d \in Conns : cur'[d] = r /\ role'[d] = "publisher" /\ pc'[d] # "gone"
    BY DEF OrphanFree
  <2>1. PICK d \in Conns : cur[d] = r /\ role[d] = "publisher" /\ pc[d] # "gone"
    BY DEF OrphanInv, OrphanFree
  <2>2. r # None
    BY DEF None
  <2> QED
    BY <1>1, <2>1, <2>2 DEF Kept, Owns
<1> QED
  BY <1>2, <1>3 DEF OrphanInv

LEMMA OrphanFind ==
  ASSUME RoomInv, OrphanInv, NEW c \in Conns, NEW n \in Names, cur[c] = None, FindFree(c, n)
  PROVE  OrphanInv'
<1>1. ConnTypes
  BY DEF RoomInv, TypeOK
<1> QED
  BY <1>1, OrphanMove DEF FindFree, roomVars, Kept, Owns, ConnTypes

LEMMA OrphanStore ==
  ASSUME RoomInv, OrphanInv, NEW c \in Conns,
         NEW next \in {"idle", "startHls", "startDash"}, StoreRoom(c, next)
  PROVE  OrphanInv'
<1>0. /\ nRooms' = nRooms + 1 /\ nRooms \in Nat /\ closed' = closed
      /\ \A d \in Conns : /\ cur'[d] = IF d = c THEN nRooms + 1 ELSE cur[d]
                          /\ role'[d] = IF d = c THEN "publisher" ELSE role[d]
                          /\ pc'[d] = IF d = c THEN next ELSE pc[d]
      /\ cur[c] = None
  BY LiveTypes DEF StoreRoom, OrphanInv, StoreOwnsNothing
<1>1. StoreOwnsNothing'
  BY <1>0 DEF OrphanInv, StoreOwnsNothing
<1>2. ASSUME NEW r \in 1 .. nRooms' \ closed'
      PROVE  \E d \in Conns : cur'[d] = r /\ role'[d] = "publisher" /\ pc'[d] # "gone"
  <2>1. CASE r = nRooms + 1
    BY <1>0, <2>1
  <2>2. CASE r # nRooms + 1
    <3>1. r \in 1 .. nRooms \ closed /\ r # None
      BY <1>0, <2>2 DEF None
    <3>2. PICK d \in Conns : cur[d] = r /\ role[d] = "publisher" /\ pc[d] # "gone"
      BY <3>1 DEF OrphanInv, OrphanFree
    <3> QED
      BY <1>0, <3>1, <3>2
  <2> QED
    BY <2>1, <2>2
<1> QED
  BY <1>1, <1>2 DEF OrphanInv, OrphanFree

LEMMA OrphanClose ==
  ASSUME RoomInv, OrphanInv, NEW c \in Conns, CleanupClose(c) PROVE OrphanInv'
<1>0. /\ nRooms' = nRooms /\ closed' = closed \cup {cur[c]} /\ UNCHANGED role
      /\ \A d \in Conns : /\ cur'[d] = IF d = c THEN None ELSE cur[d]
                          /\ pc'[d] = IF d = c THEN Ended(c) ELSE pc[d]
  BY LiveTypes DEF CleanupClose
<1>1. StoreOwnsNothing'
  BY <1>0 DEF OrphanInv, StoreOwnsNothing, Ended
<1>2. ASSUME NEW r \in 1 .. nRooms' \ closed'
      PROVE  \E d \in Conns : cur'[d] = r /\ role'[d] = "publisher" /\ pc'[d] # "gone"
  <2>1. PICK d \in Conns : cur[d] = r /\ role[d] = "publisher" /\ pc[d] # "gone"
    BY <1>0, <1>2 DEF OrphanInv, OrphanFree
  <2> QED
    BY <1>0, <1>2, <2>1
<1> QED
  BY <1>1, <1>2 DEF OrphanInv, OrphanFree

LEMMA OrphanFrame ==
  ASSUME OrphanInv, UNCHANGED <<nRooms, closed, pc, cur, role>> PROVE OrphanInv'
BY DEF OrphanInv, OrphanFree, StoreOwnsNothing

LEMMA OrphanStep ==
  ASSUME OneStreamPerConn, RtspConns = {}, SrtBridges = {}, RoomInv, OrphanInv, [Next]_vars
  PROVE  OrphanInv'
<1>0. ConnTypes
  BY DEF RoomInv, TypeOK
<1>1. ASSUME NEW c \in Conns, Publish(c) PROVE OrphanInv'
  <2>1. CASE \E n \in Names : PublishCheck(c, n)
    BY <2>1, OrphanFind DEF PublishCheck, MayCommand
  <2>2. CASE PublishStore(c)
    <3>1. AfterPublish \in {"idle", "startHls", "startDash"}
      BY DEF AfterPublish, AfterHls
    <3> QED
      BY <2>2, <3>1, OrphanStore DEF PublishStore
  <2>3. CASE PublishStartHls(c)
    BY <1>0, <2>3, OrphanMove DEF PublishStartHls, AfterHls, ConnTypes, Kept, Owns, roomVars
  <2>4. CASE PublishStartDash(c)
    BY <1>0, <2>4, OrphanMove DEF PublishStartDash, ConnTypes, Kept, Owns, roomVars
  <2> QED
    BY <1>1, <2>1, <2>2, <2>3, <2>4 DEF Publish
<1>2. ASSUME NEW c \in Conns, NEW n \in Names, Play(c, n) PROVE OrphanInv'
  BY <1>0, <1>2, OrphanMove DEF Play, MayCommand, ConnTypes, Kept, Owns, roomVars
<1>3. ASSUME NEW c \in Conns, Disconnect(c) PROVE OrphanInv'
  BY <1>0, <1>3, OrphanMove DEF Disconnect, Ended, ConnTypes, Kept, Owns, roomVars
<1>4. ASSUME NEW c \in Conns, Cleanup(c) PROVE OrphanInv'
  <2>1. CASE CleanupHls(c)
    BY <1>0, <2>1, OrphanMove DEF CleanupHls, DropTranscoder, ConnTypes, Kept, Owns, roomVars
  <2>2. CASE CleanupDash(c)
    BY <1>0, <2>2, OrphanMove DEF CleanupDash, DropTranscoder, ConnTypes, Kept, Owns, roomVars
  <2>3. CASE CleanupRoom(c)
    BY <1>0, <2>3, OrphanMove DEF CleanupRoom, ConnTypes, Kept, Owns
  <2> QED
    BY <1>4, <2>1, <2>2, <2>3, OrphanClose DEF Cleanup
<1>5. ASSUME NEW c \in Conns, Accept(c) PROVE OrphanInv'
  BY <1>0, <1>5, OrphanMove DEF Accept, ConnTypes, Kept, Owns, roomVars
<1>6. ASSUME NEW c \in Conns, Pull(c) PROVE OrphanInv'
  <2>1. CASE PullCheck(c)
    <3>1. StreamOf[c] \in Names
      BY <2>1, RegistryAssumption DEF PullCheck
    <3> QED
      BY <2>1, <3>1, OrphanFind DEF PullCheck
  <2> QED
    BY <1>6, <2>1, OrphanStore DEF Pull, PullStore
<1>7. ASSUME NEW c \in Conns PROVE ~(Announce(c) \/ Record(c) \/ RtspEnd(c) \/ Srt(c))
  BY DEF Announce, AnnounceCheck, AnnounceBadSDP, AnnounceStore, Record, RtspEnd,
         Srt, SrtCheck, SrtStore, SrtShutdown
<1>8. ASSUME NEW v \in Viewers, Serve(v) PROVE OrphanInv'
  BY <1>8, OrphanFrame DEF Serve, Request, FLVJoin, LoadHLS, LazyStartHls, LoadDASH,
         LazyStartDash, roomVars, connVars
<1>9. ASSUME NEW t \in TranscoderIds, TranscoderExit(t) PROVE OrphanInv'
  BY <1>9, OrphanFrame DEF TranscoderExit, roomVars, connVars
<1>10. ASSUME NEW x \in Readers, NEW r \in RoomIds,
              ReaderWoken(x, r) \/ ReaderWriteError(x, r)
       PROVE  OrphanInv'
  BY <1>10, OrphanFrame DEF ReaderWoken, ReaderWriteError, roomVars, connVars
<1>11. CASE UNCHANGED vars
  BY <1>11, OrphanFrame DEF vars, roomVars, connVars
<1> QED
  BY <1>1, <1>2, <1>3, <1>4, <1>5, <1>6, <1>7, <1>8, <1>9, <1>10, <1>11 DEF Next, ConnNext

(* RTMP publishers that send one stream command each, and pulls, leave no room *)
(* behind: every open room has a connection whose cleanup closes it.           *)
THEOREM NoRoomLeftBehind ==
  ASSUME OneStreamPerConn, RtspConns = {}, SrtBridges = {} PROVE Spec => []OrphanFree
<1>1. Init => OrphanInv
  BY DEF Init, OrphanInv, OrphanFree, StoreOwnsNothing
<1>2. RoomInv /\ OrphanInv /\ [Next]_vars => OrphanInv'
  BY OrphanStep
<1>3. OrphanInv => OrphanFree
  BY DEF OrphanInv
<1> QED
  BY <1>1, <1>2, <1>3, RoomInvariant, PTL DEF Spec

\* What NameReleased says, of any state in which the invariants hold: a room that
\* is listed, or read by a listed transcoder, is open and so has an owner, who
\* publishes under the name it is listed by.
LEMMA Released ==
  ASSUME RoomInv, LiveInv, OrphanFree PROVE NameReleased
<1> SUFFICES ASSUME NEW n \in Names, \A c \in Conns : Owns(c) => nameOf[cur[c]] # n
             PROVE  /\ rooms[n] = None
                    /\ \A k \in Kinds : listed[k][n] = None
                    /\ \A r \in 1 .. nRooms : nameOf[r] = n => r \in closed
  BY DEF NameReleased
<1>1. \A r \in 1 .. nRooms : nameOf[r] = n => r \in closed
  BY DEF OrphanFree, Owns
<1>2. rooms[n] = None
  <2> SUFFICES ASSUME rooms[n] # None PROVE FALSE
    OBVIOUS
  <2>1. rooms[n] \in 1 .. nRooms /\ nameOf[rooms[n]] = n
    BY DEF RoomInv, TypeOK, RoomTypes, ListedNamed
  <2> QED
    BY <1>1, <2>1 DEF RoomInv, ClosedRoomNotListed
<1>3. \A k \in Kinds : listed[k][n] = None
  BY <1>1 DEF LiveInv, ListedReads, ListedTranscoderIsLive
<1> QED
  BY <1>1, <1>2, <1>3

(* However many publishers race for a name: once the last of them has been     *)
(* through cleanup the name is free, nothing is listed under it and its rooms  *)
(* are closed.  RTMP publishers send one stream command each, or are pulls,    *)
(* and no request starts a transcoder.                                         *)
THEOREM NameReleasedCorrect ==
  ASSUME OneStreamPerConn, RtspConns = {}, SrtBridges = {}, NoLazyStart
  PROVE  Spec => []NameReleased
<1>1. RoomInv /\ (LiveInv /\ NothingLazy) /\ OrphanFree => NameReleased
  BY Released
<1> QED
  BY <1>1, RoomInvariant, LiveInvariant, NoRoomLeftBehind, PTL

=============================================================================
