-------------------------- MODULE RtspSessionProofs --------------------------
(***************************************************************************)
(* What holds of an RTSP session for every client, however many requests,   *)
(* sockets, rooms and goroutines there are.                                 *)
(***************************************************************************)
EXTENDS RtspSession, FiniteSetTheorems, TLAPS

\* No two stream loops run.
LoopsAgree == \A l, m \in Running : l = m

\* While requests are taken, playing tells whether a loop runs; TEARDOWN clears
\* it before the loop ends, but no PLAY comes after TEARDOWN.
TakesRequests == ctl \in {"read", "packer", "slot", "play"}
FlagTellsLoop ==
    /\ PlayingHasLoop
    /\ TakesRequests /\ Running # {} => playing

\* The deferred functions run inside a RECORD, cleanup first and the sockets next.
Unwinding ==
    /\ ctl \in {"cleanup", "sockets", "flag"} => depth > 0
    /\ ctl \in {"sockets", "flag"} => room = 0
    /\ ctl = "flag" => \A t \in Tracks : slot[t] \notin open

\* A session that recorded is inside a RECORD, or over with everything released.
RecordedOrReleased ==
    /\ depth > 0 => "record" \in started
    /\ "record" \in started /\ depth = 0 =>
          ctl = "ended" /\ room = 0 /\ \A t \in Tracks : slot[t] \notin open

\* publishRTMP.room is the last room of the session and listed under its name;
\* once it is gone, the last room is closed and listed nowhere.
Latest(r) == r \in mine /\ \A q \in mine : q <= r
Unlisted(r) == \A s \in Streams : listed[s] # r
ListedOnce == \A s, t \in Streams : listed[s] = listed[t] /\ listed[s] # 0 => s = t
OwnRoomListed ==
    /\ ListedOnce
    /\ room # 0 => Latest(room) /\ roomID \in Streams /\ listed[roomID] = room
    /\ \A r \in mine : Latest(r) => r = room \/ (r \in closed /\ Unlisted(r))

SessionInv ==
    TypeOK /\ LoopsAgree /\ FlagTellsLoop /\ Unwinding /\ RecordedOrReleased /\ OwnRoomListed

-----------------------------------------------------------------------------
USE RtspAssumption DEF RtspAssumption

LEMMA NobodyRuns == NoLoop \in Loops /\ NoReader \in Readers
  BY DEF NoLoop, NoReader, Loops, LoopPcs, Readers, ReaderPcs, Tracks

LEMMA SessionInit == Init => SessionInv
<1> SUFFICES ASSUME Init PROVE SessionInv
  OBVIOUS
<1>1. TypeOK
  <2>1. loops \in [LoopIds -> Loops] /\ readers \in [ReaderIds -> Readers]
    BY NobodyRuns DEF Init
  <2>2. hand \in [track : Tracks, sock : 0 .. MaxSocks, room : 0 .. MaxRooms]
    BY DEF Init, NoHand, Tracks
  <2>3. /\ chan \in [Tracks -> {-1, 0, 2}] /\ ingestChan \in [Tracks -> {-1, 0, 2}]
        /\ packer \in [Tracks -> BOOLEAN] /\ slot \in [Tracks -> 0 .. MaxSocks]
    BY DEF Init
  <2>4. depth \in 0 .. MaxDepth /\ room \in 0 .. MaxRooms /\ nSocks \in 0 .. MaxSocks
    BY DEF Init
  <2>5. /\ nRooms \in 0 .. MaxRooms /\ listed \in [Streams -> 0 .. nRooms]
        /\ stream \in Streams \cup {NoStream} /\ roomID \in Streams \cup {NoStream}
    BY DEF Init
  <2> QED
    BY <2>1, <2>2, <2>3, <2>4, <2>5 DEF Init, TypeOK
<1>2. Running = {}
  BY DEF Init, Running, NoLoop
<1> QED
  BY <1>1, <1>2 DEF Init, SessionInv, LoopsAgree, FlagTellsLoop, PlayingHasLoop, Unwinding,
                    RecordedOrReleased, OwnRoomListed, ListedOnce

\* A loop or a reader that goes on keeps its type.
LEMMA LoopGoes ==
  ASSUME TypeOK, NEW l \in LoopIds, NEW at \in LoopPcs, GoTo(l, at)
  PROVE  loops' \in [LoopIds -> Loops]
<1>1. loops[l] \in Loops
  BY DEF TypeOK
<1>2. [loops[l] EXCEPT !.pc = at] \in Loops
  BY <1>1 DEF Loops
<1>3. loops' = [loops EXCEPT ![l] = [loops[l] EXCEPT !.pc = at]]
  BY DEF GoTo
<1> QED
  BY <1>2, <1>3 DEF TypeOK

LEMMA ReaderGoesOn ==
  ASSUME TypeOK, NEW r \in ReaderIds, NEW at \in ReaderPcs, ReaderGoes(r, at)
  PROVE  readers' \in [ReaderIds -> Readers]
<1>1. readers[r] \in Readers
  BY DEF TypeOK
<1>2. [readers[r] EXCEPT !.pc = at] \in Readers
  BY <1>1 DEF Readers
<1> QED
  BY <1>2, NobodyRuns DEF TypeOK, ReaderGoes

\* A packet is sent, or the loop meets a track without a packer.
LEMMA SendGoes ==
  ASSUME TypeOK, NEW l \in LoopIds, NEW t \in Tracks, NEW onError \in LoopPcs,
         SendPacket(l, t, onError)
  PROVE  /\ panicked' \in BOOLEAN
         /\ UNCHANGED loops \/ GoTo(l, "check") \/ GoTo(l, onError)
  BY DEF SendPacket, TypeOK

\* The map of rooms when a new one is stored.
LEMMA NameStored ==
  ASSUME TypeOK, NEW s \in Streams, nRooms' = nRooms + 1,
         listed' = [listed EXCEPT ![s] = nRooms']
  PROVE  /\ listed' \in [Streams -> 0 .. nRooms']
         /\ listed'[s] = nRooms + 1
         /\ \A t \in Streams \ {s} : listed'[t] = listed[t]
         /\ \A t \in Streams : listed[t] # nRooms + 1
  BY DEF TypeOK

\* And when a name is deleted.
LEMMA NameDeleted ==
  ASSUME TypeOK, NEW s \in Streams, listed' = [listed EXCEPT ![s] = 0]
  PROVE  /\ listed' \in [Streams -> 0 .. nRooms]
         /\ listed'[s] = 0
         /\ \A t \in Streams \ {s} : listed'[t] = listed[t]
  BY DEF TypeOK

LEMMA TypeNext ==
  ASSUME TypeOK, Unwinding, OwnRoomListed, [Next]_vars
  PROVE  TypeOK'
<1> USE DEF NoHand, sessionVars, sockVars, roomVars
<1>1. CASE \E s \in Streams : Describe(s)
  BY <1>1 DEF Describe, Asks, TypeOK
<1>2. CASE \E s \in Streams : Announce(s)
  <2>1. PICK s \in Streams : Announce(s)
    BY <1>2
  <2>2. nRooms' \in 0 .. MaxRooms /\ nRooms' = nRooms + 1
    BY <2>1 DEF Announce, TypeOK
  <2>3. listed' \in [Streams -> 0 .. nRooms']
    BY <2>1, <2>2, NameStored DEF Announce, TypeOK
  <2> QED
    BY <2>1, <2>2, <2>3 DEF Announce, Asks, TypeOK
<1>3. CASE PlayLoad
  <2>0. listed[stream] \in 0 .. MaxRooms
    BY <1>3 DEF PlayLoad, TypeOK
  <2>1. hand' \in [track : Tracks, sock : 0 .. MaxSocks, room : 0 .. MaxRooms]
    BY <1>3, <2>0 DEF PlayLoad, Tracks
  <2> QED
    BY <1>3, <2>1 DEF PlayLoad, Asks, TypeOK
<1>4. CASE Record
  <2>1. \A t \in Tracks : slot[t] # 0 =>
           [pc |-> "check", track |-> t, sock |-> slot[t]] \in Readers
    BY DEF TypeOK, Readers, ReaderPcs
  <2>2. readers' \in [ReaderIds -> Readers]
    <3>1. PICK new \in [{t \in Tracks : slot[t] # 0} -> ReaderIds \ Reading] :
             readers' = [r \in ReaderIds |->
                            IF \E t \in DOMAIN new : new[t] = r
                            THEN LET t == CHOOSE t \in DOMAIN new : new[t] = r
                                 IN  [pc |-> "check", track |-> t, sock |-> slot[t]]
                            ELSE readers[r]]
      BY <1>4 DEF Record
    <3>2. SUFFICES ASSUME NEW r \in ReaderIds PROVE readers'[r] \in Readers
      BY <3>1
    <3>3. CASE \E t \in DOMAIN new : new[t] = r
      <4> DEFINE t == CHOOSE t \in DOMAIN new : new[t] = r
      <4>1. t \in Tracks /\ slot[t] # 0
        BY <3>3
      <4>2. readers'[r] = [pc |-> "check", track |-> t, sock |-> slot[t]]
        BY <3>1, <3>3
      <4> QED
        BY <2>1, <4>1, <4>2
    <3>4. CASE ~\E t \in DOMAIN new : new[t] = r
      BY <3>1, <3>4 DEF TypeOK
    <3> QED
      BY <3>3, <3>4
  <2> QED
    BY <1>4, <2>2 DEF Record, Asks, TypeOK
<1>5. CASE RecordFails
  BY <1>5 DEF RecordFails, Ctl, Return, TypeOK
<1>6. CASE Teardown
  BY <1>6 DEF Teardown, Asks, Return, TypeOK
<1>7. CASE \E url \in Urls : \E tr \in Transports[url] : Setup(url, tr)
  <2>1. PICK url \in Urls : \E tr \in Transports[url] : Setup(url, tr)
    BY <1>7
  <2>2. PICK tr \in Transports[url] : Setup(url, tr)
    BY <2>1
  <2> DEFINE sock == IF tr = "udp" THEN nSocks + 1 ELSE 0
  <2>3. sock \in 0 .. MaxSocks /\ nSocks' \in 0 .. MaxSocks /\ open' \subseteq 1 .. nSocks'
    BY <2>2 DEF Setup, TypeOK
  <2>4. hand' \in [track : Tracks, sock : 0 .. MaxSocks, room : 0 .. MaxRooms]
    <3>1. CASE url = "other"
      BY <2>2, <3>1 DEF Setup, TypeOK
    <3>2. CASE url # "other"
      <4>1. url \in Tracks
        BY <3>2 DEF Urls
      <4>2. hand' = [track |-> url, sock |-> sock, room |-> 0]
        BY <2>2, <3>2 DEF Setup
      <4> HIDE DEF sock
      <4> QED
        BY <2>3, <4>1, <4>2
    <3> QED
      BY <3>1, <3>2
  <2>5. chan' \in [Tracks -> {-1, 0, 2}] /\ ingestChan' \in [Tracks -> {-1, 0, 2}]
    BY <2>2 DEF Setup, RtpCh, TypeOK
  <2>6. ctl' \in {"read", "slot", "packer"} /\ ctl = "read"
    BY <2>2 DEF Setup, Asks
  <2> QED
    BY <2>2, <2>3, <2>4, <2>5, <2>6 DEF Setup, TypeOK
<1>8. CASE \E t \in Tracks : Interleaved(t)
  BY <1>8 DEF Interleaved, Asks, TypeOK
<1>9. CASE SetupPacker
  BY <1>9 DEF SetupPacker, Ctl, TypeOK
<1>10. CASE SetupSlot
  <2>1. hand' \in [track : Tracks, sock : 0 .. MaxSocks, room : 0 .. MaxRooms]
    BY <1>10 DEF SetupSlot, Tracks, TypeOK
  <2> QED
    BY <1>10, <2>1 DEF SetupSlot, Ctl, TypeOK
<1>11. CASE PlayStart
  <2>1. [NoLoop EXCEPT !.pc = "begin", !.room = hand.room] \in Loops
    BY NobodyRuns DEF TypeOK, Loops, LoopPcs
  <2>2. loops' \in [LoopIds -> Loops]
    BY <1>11, <2>1 DEF PlayStart, TypeOK
  <2>3. hand' \in [track : Tracks, sock : 0 .. MaxSocks, room : 0 .. MaxRooms]
    BY <1>11 DEF PlayStart, Tracks
  <2> QED
    BY <1>11, <2>2, <2>3 DEF PlayStart, Ctl, TypeOK
<1>12. CASE ReadError
  BY <1>12 DEF ReadError, Ctl, Return, TypeOK
<1>13. CASE Cleanup
  <2>1. nRooms \in Nat /\ (room # 0 => room \in 1 .. nRooms)
    BY DEF TypeOK, OwnRoomListed, Latest
  <2>2. closed' \subseteq 1 .. nRooms
    BY <1>13, <2>1 DEF Cleanup, TypeOK
  <2>3. listed' \in [Streams -> 0 .. nRooms] /\ room' \in 0 .. MaxRooms
    BY <1>13, <2>1, NameDeleted DEF Cleanup, OwnRoomListed, TypeOK
  <2> QED
    BY <1>13, <2>2, <2>3 DEF Cleanup, Ctl, TypeOK
<1>14. CASE CloseSockets
  BY <1>14 DEF CloseSockets, Ctl, TypeOK
<1>15. CASE StopRecording
  <2>1. depth' \in 0 .. MaxDepth /\ (ctl' = "ended" => depth' = 0)
    BY <1>15 DEF StopRecording, Ctl, Return, TypeOK, Unwinding
  <2>2. ctl' \in {"ended", "cleanup"}
    BY <1>15 DEF StopRecording, Return
  <2> QED
    BY <1>15, <2>1, <2>2 DEF StopRecording, TypeOK
<1>16. CASE \E l \in LoopIds : LoopBegin(l)
  <2>1. PICK l \in LoopIds : LoopBegin(l)
    BY <1>16
  <2>2. panicked' \in BOOLEAN /\ (UNCHANGED loops \/ GoTo(l, "check"))
    BY <2>1, SendGoes DEF LoopBegin, TypeOK, Tracks, LoopPcs
  <2>3. loops' \in [LoopIds -> Loops]
    BY <2>2, LoopGoes DEF TypeOK, LoopPcs
  <2> QED
    BY <2>1, <2>2, <2>3 DEF LoopBegin, TypeOK
<1>17. CASE \E l \in LoopIds : LoopCheck(l)
  <2>1. PICK l \in LoopIds : LoopCheck(l)
    BY <1>17
  <2>2. loops' \in [LoopIds -> Loops]
    BY <2>1, LoopGoes DEF LoopCheck, LoopPcs
  <2> QED
    BY <2>1, <2>2 DEF LoopCheck, TypeOK
<1>18. CASE \E l \in LoopIds : LoopDead(l)
  <2>1. PICK l \in LoopIds : LoopDead(l)
    BY <1>18
  <2>2. loops' \in [LoopIds -> Loops]
    BY <2>1, LoopGoes DEF LoopDead, LoopPcs
  <2> QED
    BY <2>1, <2>2 DEF LoopDead, TypeOK
<1>19. CASE \E l \in LoopIds : LoopSend(l)
  <2>1. PICK l \in LoopIds : LoopSend(l)
    BY <1>19
  <2>2. loops[l].track \in Tracks
    BY DEF TypeOK, Loops
  <2>3. panicked' \in BOOLEAN /\ (UNCHANGED loops \/ GoTo(l, "check") \/ GoTo(l, "end"))
    BY <2>1, <2>2, SendGoes DEF LoopSend, LoopPcs
  <2>4. loops' \in [LoopIds -> Loops]
    BY <2>3, LoopGoes DEF TypeOK, LoopPcs
  <2> QED
    BY <2>1, <2>3, <2>4 DEF LoopSend, TypeOK
<1>20. CASE \E l \in LoopIds : LoopEnd(l)
  <2>1. loops' \in [LoopIds -> Loops]
    BY <1>20, NobodyRuns DEF LoopEnd, TypeOK
  <2> QED
    BY <1>20, <2>1 DEF LoopEnd, TypeOK
<1>21. CASE \E l \in LoopIds : \E t \in Tracks : LoopTag(l, t)
  <2>1. PICK l \in LoopIds, t \in Tracks : LoopTag(l, t)
    BY <1>21
  <2>2. loops[l] \in Loops
    BY DEF TypeOK
  <2>3. \A at \in LoopPcs : [loops[l] EXCEPT !.pc = at, !.track = t] \in Loops
    BY <2>2 DEF Loops
  <2>4. loops' \in [LoopIds -> Loops]
    BY <2>1, <2>3 DEF LoopTag, TypeOK, LoopPcs
  <2> QED
    BY <2>1, <2>4 DEF LoopTag, TypeOK
<1>22. CASE \E r \in ReaderIds : ReaderCheck(r)
  <2>1. PICK r \in ReaderIds : ReaderCheck(r)
    BY <1>22
  <2>2. readers' \in [ReaderIds -> Readers]
    BY <2>1, ReaderGoesOn DEF ReaderCheck, ReaderPcs
  <2>3. panicked' \in BOOLEAN
    BY <2>1 DEF ReaderCheck, TypeOK
  <2> QED
    BY <2>1, <2>2, <2>3 DEF ReaderCheck, ReaderGoes, TypeOK
<1>23. CASE \E r \in ReaderIds : ReaderError(r)
  <2>1. PICK r \in ReaderIds : ReaderError(r)
    BY <1>23
  <2>2. readers' \in [ReaderIds -> Readers]
    BY <2>1, ReaderGoesOn DEF ReaderError, ReaderPcs
  <2>3. panicked' \in BOOLEAN
    BY <2>1 DEF ReaderError, TypeOK
  <2> QED
    BY <2>1, <2>2, <2>3 DEF ReaderError, ReaderGoes, TypeOK
<1>24. CASE \E r \in ReaderIds : ReaderHandle(r)
  <2>1. PICK r \in ReaderIds : ReaderHandle(r)
    BY <1>24
  <2>2. readers' \in [ReaderIds -> Readers]
    BY <2>1, ReaderGoesOn DEF ReaderHandle, ReaderPcs
  <2>3. panicked' \in BOOLEAN
    BY <2>1 DEF ReaderHandle, TypeOK
  <2> QED
    BY <2>1, <2>2, <2>3 DEF ReaderHandle, ReaderGoes, TypeOK
<1>25. CASE \E r \in ReaderIds : ReaderPacket(r)
  <2>1. PICK r \in ReaderIds : ReaderPacket(r)
    BY <1>25
  <2>2. readers' \in [ReaderIds -> Readers]
    BY <2>1, ReaderGoesOn DEF ReaderPacket, ReaderPcs
  <2>3. panicked' \in BOOLEAN
    BY <2>1 DEF ReaderPacket, TypeOK
  <2> QED
    BY <2>1, <2>2, <2>3 DEF ReaderPacket, ReaderGoes, TypeOK
<1>26. CASE ClientGone
  BY <1>26 DEF ClientGone, TypeOK
<1>27. CASE \E s \in Streams : OtherPublishes(s)
  <2>1. PICK s \in Streams : OtherPublishes(s)
    BY <1>27
  <2>2. nRooms' \in 0 .. MaxRooms /\ nRooms' = nRooms + 1
    BY <2>1 DEF OtherPublishes, TypeOK
  <2>3. listed' \in [Streams -> 0 .. nRooms']
    BY <2>1, <2>2, NameStored DEF OtherPublishes
  <2> QED
    BY <2>1, <2>2, <2>3 DEF OtherPublishes, TypeOK
<1>28. CASE \E s \in Streams : OtherLeaves(s)
  <2>1. PICK s \in Streams : OtherLeaves(s)
    BY <1>28
  <2>2. listed' \in [Streams -> 0 .. nRooms]
    BY <2>1, NameDeleted DEF OtherLeaves
  <2>3. listed[s] \in 1 .. nRooms
    BY <2>1 DEF OtherLeaves, TypeOK
  <2> QED
    BY <2>1, <2>2, <2>3 DEF OtherLeaves, TypeOK
<1>29. CASE UNCHANGED vars
  BY <1>29 DEF vars, TypeOK
<1> QED
  BY <1>1, <1>2, <1>3, <1>4, <1>5, <1>6, <1>7, <1>8, <1>9, <1>10, <1>11, <1>12, <1>13, <1>14,
     <1>15, <1>16, <1>17, <1>18, <1>19, <1>20, <1>21, <1>22, <1>23, <1>24, <1>25, <1>26, <1>27,
     <1>28, <1>29
  DEF Next, Control, Requests, StreamLoop, UDPReader

\* A loop that goes on runs on.
LEMMA RunningGoesOn ==
  ASSUME TypeOK, NEW l \in LoopIds, loops[l].pc # "none",
         NEW at \in LoopPcs \ {"none"}, GoTo(l, at)
  PROVE  Running' = Running
<1>1. loops' = [loops EXCEPT ![l] = [loops[l] EXCEPT !.pc = at]]
  BY DEF GoTo
<1>2. loops'[l].pc = at /\ \A m \in LoopIds \ {l} : loops'[m] = loops[m]
  BY <1>1 DEF TypeOK, Loops
<1> QED
  BY <1>2 DEF Running

LEMMA LoopsNext ==
  ASSUME TypeOK, LoopsAgree, FlagTellsLoop, [Next]_vars
  PROVE  LoopsAgree' /\ FlagTellsLoop'
<1> DEFINE Quiet == Running' = Running /\ playing' = playing
                    /\ (TakesRequests' => TakesRequests)
<1>1. CASE Quiet
  BY <1>1 DEF LoopsAgree, FlagTellsLoop, PlayingHasLoop
<1>2. CASE Teardown
  <2>1. Running' = Running
    BY <1>2 DEF Teardown, Running
  <2>2. ~playing' /\ ~TakesRequests'
    BY <1>2 DEF Teardown, Return, TakesRequests
  <2> QED
    BY <2>1, <2>2 DEF LoopsAgree, FlagTellsLoop, PlayingHasLoop
<1>3. CASE PlayStart
  <2>1. CASE playing
    <3>1. Running' = Running /\ playing'
      BY <1>3, <2>1 DEF PlayStart, Running
    <3> QED
      BY <2>1, <3>1 DEF LoopsAgree, FlagTellsLoop, PlayingHasLoop
  <2>2. CASE ~playing
    <3>1. PICK l \in LoopIds \ Running :
             loops' = [loops EXCEPT ![l] = [NoLoop EXCEPT !.pc = "begin", !.room = hand.room]]
      BY <1>3, <2>2 DEF PlayStart
    <3>2. Running = {} /\ playing'
      BY <1>3, <2>2 DEF PlayStart, Ctl, FlagTellsLoop, TakesRequests
    <3>3. loops'[l].pc = "begin" /\ \A m \in LoopIds \ {l} : loops'[m] = loops[m]
      BY <3>1 DEF TypeOK, NoLoop
    <3>4. Running' = {l}
      BY <3>2, <3>3 DEF Running
    <3> QED
      BY <3>2, <3>4 DEF LoopsAgree, FlagTellsLoop, PlayingHasLoop
  <2> QED
    BY <2>1, <2>2
<1>4. ASSUME NEW l \in LoopIds, LoopEnd(l)
      PROVE  LoopsAgree' /\ FlagTellsLoop'
  <2>1. l \in Running
    BY <1>4 DEF LoopEnd, At, Running
  <2>2. loops'[l].pc = "none" /\ \A m \in LoopIds \ {l} : loops'[m] = loops[m]
    BY <1>4 DEF LoopEnd, TypeOK, NoLoop
  <2>3. Running' = {}
    BY <2>1, <2>2 DEF Running, LoopsAgree
  <2>4. ~playing'
    BY <1>4 DEF LoopEnd
  <2> QED
    BY <2>3, <2>4 DEF LoopsAgree, FlagTellsLoop, PlayingHasLoop
<1>5. ASSUME NEW l \in LoopIds,
             LoopBegin(l) \/ LoopCheck(l) \/ LoopDead(l) \/ LoopSend(l)
             \/ \E t \in Tracks : LoopTag(l, t)
      PROVE  Quiet
  <2>1. playing' = playing /\ TakesRequests' = TakesRequests /\ loops[l].pc # "none"
    BY <1>5 DEF LoopBegin, LoopCheck, LoopDead, LoopSend, LoopTag, At, TakesRequests
  <2>2. CASE LoopBegin(l)
    <3>1. UNCHANGED loops \/ GoTo(l, "check")
      BY <2>2, SendGoes DEF LoopBegin, Tracks, LoopPcs
    <3>2. Running' = Running
      BY <2>1, <3>1, RunningGoesOn DEF LoopPcs, Running
    <3> QED
      BY <2>1, <3>2
  <2>3. CASE LoopCheck(l)
    <3>1. Running' = Running
      BY <2>1, <2>3, RunningGoesOn DEF LoopCheck, LoopPcs
    <3> QED
      BY <2>1, <3>1
  <2>4. CASE LoopDead(l)
    <3>1. Running' = Running
      BY <2>1, <2>4, RunningGoesOn DEF LoopDead, LoopPcs
    <3> QED
      BY <2>1, <3>1
  <2>5. CASE LoopSend(l)
    <3>1. loops[l].track \in Tracks
      BY DEF TypeOK, Loops
    <3>2. UNCHANGED loops \/ GoTo(l, "check") \/ GoTo(l, "end")
      BY <2>5, <3>1, SendGoes DEF LoopSend, LoopPcs
    <3>3. Running' = Running
      BY <2>1, <3>2, RunningGoesOn DEF LoopPcs, Running
    <3> QED
      BY <2>1, <3>3
  <2>6. ASSUME NEW t \in Tracks, LoopTag(l, t) PROVE Quiet
    <3>1. loops'[l].pc \in {"check", "send"} /\ \A m \in LoopIds \ {l} : loops'[m] = loops[m]
      BY <2>6 DEF LoopTag, TypeOK, Loops
    <3>2. Running' = Running
      BY <2>1, <3>1 DEF Running
    <3> QED
      BY <2>1, <3>2
  <2> QED
    BY <1>5, <2>2, <2>3, <2>4, <2>5, <2>6
<1>6. CASE (\E s \in Streams : Describe(s) \/ Announce(s)) \/ PlayLoad \/ Record \/ RecordFails
           \/ (\E url \in Urls : \E transport \in Transports[url] : Setup(url, transport))
           \/ (\E t \in Tracks : Interleaved(t))
  BY <1>6, <1>1 DEF Running, TakesRequests, Describe, Announce, PlayLoad, Record,
     RecordFails, Setup, Interleaved, Asks, Ctl
<1>7. CASE SetupPacker \/ SetupSlot \/ ReadError \/ Cleanup \/ CloseSockets \/ StopRecording
  BY <1>7, <1>1 DEF Running, TakesRequests, SetupPacker, SetupSlot, ReadError, Cleanup,
     CloseSockets, StopRecording, Ctl, Return
<1>8. CASE \E r \in ReaderIds : UDPReader(r) \/ ReaderPacket(r)
  BY <1>8, <1>1 DEF Running, TakesRequests, UDPReader, ReaderCheck, ReaderError,
     ReaderHandle, ReaderPacket, ReaderGoes
<1>9. CASE ClientGone \/ \E s \in Streams : OtherPublishes(s) \/ OtherLeaves(s)
  BY <1>9, <1>1 DEF Running, TakesRequests, ClientGone, OtherPublishes, OtherLeaves
<1>10. CASE UNCHANGED vars
  BY <1>10, <1>1 DEF Running, TakesRequests, vars
<1> HIDE DEF Quiet
<1> QED
  BY <1>1, <1>2, <1>3, <1>4, <1>5, <1>6, <1>7, <1>8, <1>9, <1>10
  DEF Next, Control, Requests, StreamLoop

\* A room that is new is the session's last, or nobody's.
LEMMA OwnRoomAnnounced ==
  ASSUME TypeOK, OwnRoomListed, NEW s \in Streams, Announce(s)
  PROVE  OwnRoomListed'
<1>1. /\ nRooms' = nRooms + 1 /\ room' = nRooms + 1 /\ roomID' = s
      /\ mine' = mine \cup {nRooms + 1} /\ nRooms \in Nat /\ mine \subseteq 1 .. nRooms
      /\ listed' = [listed EXCEPT ![s] = nRooms']
  BY DEF Announce, TypeOK
<1>2. /\ listed'[s] = nRooms + 1
      /\ \A t \in Streams \ {s} : listed'[t] = listed[t]
      /\ \A t \in Streams : listed[t] # nRooms + 1
  BY <1>1, NameStored
<1>3. ListedOnce'
  BY <1>2 DEF ListedOnce, OwnRoomListed
<1>4. Latest(room)'
  <2>1. \A q \in mine' : q <= room'
    BY <1>1
  <2> QED
    BY <1>1, <2>1 DEF Latest
<1>5. ASSUME NEW r \in mine', Latest(r)' PROVE r = room'
  BY <1>1, <1>5 DEF Latest
<1>6. roomID' \in Streams /\ listed'[roomID'] = room'
  BY <1>1, <1>2
<1> QED
  BY <1>3, <1>4, <1>5, <1>6 DEF OwnRoomListed

LEMMA OwnRoomCleaned ==
  ASSUME TypeOK, OwnRoomListed, Cleanup
  PROVE  OwnRoomListed'
<1>1. CASE room = 0
  BY <1>1 DEF Cleanup, OwnRoomListed, ListedOnce, Latest, Unlisted
<1>2. CASE room # 0
  <2>1. /\ roomID \in Streams /\ listed[roomID] = room /\ Latest(room) /\ ListedOnce
        /\ room' = 0 /\ closed' = closed \cup {room} /\ mine' = mine
        /\ listed' = [listed EXCEPT ![roomID] = 0]
    BY <1>2 DEF Cleanup, OwnRoomListed
  <2>2. listed'[roomID] = 0 /\ \A t \in Streams \ {roomID} : listed'[t] = listed[t]
    BY <2>1, NameDeleted
  <2>3. ListedOnce'
    BY <2>1, <2>2 DEF ListedOnce
  <2>5. ASSUME NEW r \in mine', Latest(r)' PROVE r \in closed' /\ \A s \in Streams : listed'[s] # r
    <3>1. r \in mine /\ Latest(r)
      BY <2>1, <2>5 DEF Latest
    <3>2. CASE r = room
      BY <1>2, <2>1, <2>2, <3>2 DEF ListedOnce
    <3>3. CASE r # room
      <4>1. r \in closed /\ Unlisted(r) /\ r # 0
        BY <3>1, <3>3 DEF OwnRoomListed, TypeOK
      <4> QED
        BY <2>1, <2>2, <4>1 DEF Unlisted
    <3> QED
      BY <3>2, <3>3
  <2> QED
    BY <2>1, <2>3, <2>5 DEF OwnRoomListed, Unlisted
<1> QED
  BY <1>1, <1>2

LEMMA OwnRoomOthers ==
  ASSUME TypeOK, OwnRoomListed, NEW s \in Streams, OtherPublishes(s) \/ OtherLeaves(s)
  PROVE  OwnRoomListed'
<1>1. /\ UNCHANGED <<room, roomID, mine>> /\ closed \subseteq closed'
      /\ \A t \in Streams \ {s} : listed'[t] = listed[t]
      /\ listed[s] \notin mine
  <2>1. CASE OtherPublishes(s)
    <3>1. listed' = [listed EXCEPT ![s] = nRooms'] /\ listed[s] = 0
      BY <2>1 DEF OtherPublishes
    <3> QED
      BY <2>1, <3>1 DEF OtherPublishes, sessionVars, TypeOK
  <2>2. CASE OtherLeaves(s)
    BY <2>2, NameDeleted DEF OtherLeaves, sessionVars
  <2> QED
    BY <2>1, <2>2
<1>2. listed'[s] \notin mine /\ (listed'[s] # 0 => \A t \in Streams : listed[t] # listed'[s])
  <2>1. CASE OtherPublishes(s)
    <3>1. listed'[s] = nRooms + 1 /\ \A t \in Streams : listed[t] # nRooms + 1
      BY <2>1, NameStored DEF OtherPublishes
    <3>2. nRooms + 1 \notin mine
      BY DEF TypeOK
    <3> QED
      BY <3>1, <3>2
  <2>2. CASE OtherLeaves(s)
    <3>1. listed'[s] = 0
      BY <2>2, NameDeleted DEF OtherLeaves
    <3> QED
      BY <3>1 DEF TypeOK
  <2> QED
    BY <2>1, <2>2
<1>3. ListedOnce'
  BY <1>1, <1>2 DEF OwnRoomListed, ListedOnce
<1>4. room' # 0 => Latest(room)' /\ roomID' \in Streams /\ listed'[roomID'] = room'
  <2>1. room # 0 => roomID # s
    BY <1>1 DEF OwnRoomListed, Latest
  <2> QED
    BY <1>1, <2>1 DEF OwnRoomListed, Latest
<1>5. ASSUME NEW r \in mine', Latest(r)'
      PROVE  r = room' \/ (r \in closed' /\ \A t \in Streams : listed'[t] # r)
  <2>1. r \in mine /\ Latest(r)
    BY <1>1, <1>5 DEF Latest
  <2>2. r = room \/ (r \in closed /\ Unlisted(r))
    BY <2>1 DEF OwnRoomListed
  <2> QED
    BY <1>1, <1>2, <2>1, <2>2 DEF Unlisted
<1> QED
  BY <1>3, <1>4, <1>5 DEF OwnRoomListed, Unlisted

\* Nobody else touches the session's room or the map.
LEMMA OwnRoomElse ==
  ASSUME OwnRoomListed, UNCHANGED <<room, roomID, listed, closed, mine>>
  PROVE  OwnRoomListed'
  BY DEF OwnRoomListed, ListedOnce, Latest, Unlisted

LEMMA ReleaseNext ==
  ASSUME TypeOK, Unwinding, RecordedOrReleased, OwnRoomListed, [Next]_vars
  PROVE  Unwinding' /\ RecordedOrReleased' /\ OwnRoomListed'
<1> DEFINE Quiet == UNCHANGED <<ctl, depth, room, roomID, slot, open, roomVars, started>>
<1> USE DEF Unwinding, RecordedOrReleased, roomVars
<1>1. CASE Quiet
  BY <1>1, OwnRoomElse
<1>2. CASE (\E s \in Streams : Describe(s)) \/ PlayLoad \/ \E t \in Tracks : Interleaved(t)
  <2>1. /\ ctl = "read" /\ ctl' \in {"read", "play"}
        /\ UNCHANGED <<depth, room, roomID, slot, open, roomVars, started>>
    BY <1>2 DEF Describe, PlayLoad, Interleaved, Asks, sessionVars, sockVars
  <2> QED
    BY <2>1, OwnRoomElse
<1>3. CASE \E s \in Streams : Announce(s)
  <2>1. PICK s \in Streams : Announce(s)
    BY <1>3
  <2>2. ctl = "read" /\ UNCHANGED <<ctl, depth, slot, open, started>>
    BY <2>1 DEF Announce, Asks, sockVars
  <2> QED
    BY <2>1, <2>2, OwnRoomAnnounced
<1>4. CASE Record
  <2>1. /\ depth' = depth + 1 /\ depth \in Nat /\ ctl' = "read"
        /\ "record" \in started' /\ UNCHANGED <<room, roomID, roomVars>>
    BY <1>4 DEF Record, Asks, TypeOK, sessionVars
  <2> QED
    BY <2>1, OwnRoomElse
<1>5. CASE RecordFails \/ Teardown \/ ReadError
  <2>1. /\ ctl = "read" /\ ctl' = Return(depth) /\ depth \in Nat
        /\ UNCHANGED <<depth, room, roomID, slot, open, roomVars, started>>
    BY <1>5 DEF RecordFails, Teardown, ReadError, Asks, Ctl, TypeOK, sessionVars, sockVars
  <2> QED
    BY <2>1, OwnRoomElse DEF Return
<1>6. CASE (\E url \in Urls : \E transport \in Transports[url] : Setup(url, transport))
           \/ SetupPacker \/ SetupSlot
  <2>1. /\ ctl \in {"read", "packer", "slot"} /\ ctl' \in {"read", "packer", "slot"}
        /\ UNCHANGED <<depth, room, roomID, roomVars, started>>
    BY <1>6 DEF Setup, SetupPacker, SetupSlot, Asks, Ctl, sessionVars
  <2> QED
    BY <2>1, OwnRoomElse
<1>7. CASE PlayStart
  <2>1. /\ ctl = "play" /\ ctl' = "read"
        /\ ("record" \in started' <=> "record" \in started)
        /\ UNCHANGED <<depth, room, roomID, roomVars>>
    BY <1>7 DEF PlayStart, Ctl, sessionVars
  <2> QED
    BY <2>1, OwnRoomElse
<1>8. CASE Cleanup
  <2>1. /\ ctl = "cleanup" /\ ctl' = "sockets" /\ room' = 0
        /\ UNCHANGED <<depth, slot, open, started>>
    BY <1>8 DEF Cleanup, Ctl, sockVars
  <2> QED
    BY <1>8, <2>1, OwnRoomCleaned
<1>9. CASE CloseSockets
  <2>1. /\ ctl = "sockets" /\ ctl' = "flag" /\ open' = open \ {slot[t] : t \in Tracks}
        /\ UNCHANGED <<depth, room, roomID, slot, roomVars, started>>
    BY <1>9 DEF CloseSockets, Ctl, sessionVars
  <2> QED
    BY <2>1, OwnRoomElse
<1>10. CASE StopRecording
  <2>1. /\ ctl = "flag" /\ ctl' = Return(depth - 1) /\ depth' = depth - 1 /\ depth \in Nat
        /\ UNCHANGED <<room, roomID, slot, open, roomVars, started>>
    BY <1>10 DEF StopRecording, Ctl, TypeOK, sessionVars, sockVars
  <2> QED
    BY <2>1, OwnRoomElse DEF Return
<1>11. CASE \E l \in LoopIds : StreamLoop(l) \/ \E t \in Tracks : LoopTag(l, t)
  BY <1>11, <1>1 DEF StreamLoop, LoopBegin, LoopCheck, LoopDead, LoopSend, LoopEnd, LoopTag,
     sessionVars, sockVars
<1>12. CASE \E r \in ReaderIds : UDPReader(r) \/ ReaderPacket(r)
  BY <1>12, <1>1 DEF UDPReader, ReaderCheck, ReaderError, ReaderHandle, ReaderPacket,
     ReaderGoes, sessionVars, sockVars
<1>13. CASE ClientGone
  BY <1>13, <1>1 DEF ClientGone, sessionVars, sockVars
<1>14. CASE \E s \in Streams : OtherPublishes(s) \/ OtherLeaves(s)
  <2>1. PICK s \in Streams : OtherPublishes(s) \/ OtherLeaves(s)
    BY <1>14
  <2>2. UNCHANGED <<ctl, depth, room, slot, open, started>>
    BY <2>1 DEF OtherPublishes, OtherLeaves, sessionVars, sockVars
  <2> QED
    BY <2>1, <2>2, OwnRoomOthers
<1>15. CASE UNCHANGED vars
  BY <1>15, <1>1 DEF vars, sessionVars, sockVars
<1> HIDE DEF Quiet
<1> QED
  BY <1>2, <1>3, <1>4, <1>5, <1>6, <1>7, <1>8, <1>9, <1>10, <1>11, <1>12, <1>13, <1>14,
     <1>15
  DEF Next, Control, Requests

THEOREM SessionInvariant == Spec => []SessionInv
<1>1. SessionInv /\ [Next]_vars => SessionInv'
  BY TypeNext, LoopsNext, ReleaseNext DEF SessionInv
<1> QED
  BY SessionInit, <1>1, PTL DEF Spec

(* The session's variables keep their types: a slot names a socket that was    *)
(* opened, a goroutine a room that exists.                                     *)
THEOREM TypeCorrect == Spec => []TypeOK
<1>1. SessionInv => TypeOK
  BY DEF SessionInv
<1> QED
  BY SessionInvariant, <1>1, PTL

(* handlePlay's compare-and-swap and streamLoop's deferred store never let two *)
(* loops write to one session, however many PLAYs, TEARDOWNs and rooms.        *)
THEOREM AtMostOneLoop == Spec => []OneStreamLoop
<1>1. SessionInv => OneStreamLoop
  <2> SUFFICES ASSUME SessionInv PROVE OneStreamLoop
    OBVIOUS
  <2>1. CASE Running = {}
    BY <2>1, FS_EmptySet DEF OneStreamLoop
  <2>2. CASE Running # {}
    <3>1. PICK l \in Running : Running = {l}
      BY <2>2 DEF SessionInv, LoopsAgree
    <3> QED
      BY <3>1, FS_Singleton DEF OneStreamLoop
  <2> QED
    BY <2>1, <2>2
<1> QED
  BY SessionInvariant, <1>1, PTL

(* streamLoop never ends with playing set: a later PLAY is served.             *)
THEOREM FlagNeverStale == Spec => []PlayingHasLoop
<1>1. SessionInv => PlayingHasLoop
  BY DEF SessionInv, FlagTellsLoop
<1> QED
  BY SessionInvariant, <1>1, PTL

(* However a session that recorded ended, runIngestLoop closed the room it      *)
(* announced last, took it off the map, and closed the sockets of its tracks.  *)
THEOREM RecordingReleases == Spec => []IngestReleases
<1>1. SessionInv => IngestReleases
  <2> SUFFICES ASSUME SessionInv, ctl = "ended", "record" \in started
               PROVE  IngestReleases
    BY DEF IngestReleases
  <2>1. room = 0 /\ \A t \in Tracks : slot[t] \notin open
    BY DEF SessionInv, TypeOK, RecordedOrReleased
  <2>2. ASSUME NEW r \in mine, \A q \in mine : q <= r
        PROVE  r \in closed /\ \A s \in Streams : listed[s] # r
    <3>1. r # room
      BY <2>1 DEF SessionInv, TypeOK
    <3> QED
      BY <2>2, <3>1 DEF SessionInv, OwnRoomListed, Latest, Unlisted
  <2> QED
    BY <2>1, <2>2 DEF IngestReleases
<1> QED
  BY SessionInvariant, <1>1, PTL
=============================================================================
