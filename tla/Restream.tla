------------------------------ MODULE Restream ------------------------------
(***************************************************************************)
(* A stream on its way from one room to another: as MPEG-TS by SRT, or as   *)
(* RTP by RTSP.  The source is this repository's own output, which is also  *)
(* what an ffmpeg between two servers makes of it: the transport stream of  *)
(* libhls, or the packets of an RTSP session (rtsp_server.go).  The sink is *)
(* the SRT bridge (srt_server.go) or the RTSP ingest (rtsp_ingest.go).      *)
(*                                                                          *)
(* Between them is a link.  The SRT listener delivers in order and leaves   *)
(* out what came late (module LiveChannel), so the link of MPEG-TS loses.   *)
(* RTP by UDP is lost, repeated and reordered; by TCP it is neither.        *)
(***************************************************************************)
EXTENDS MpegTs, RtpPacket

CONSTANTS
    TsStreams,     \* streams that go as MPEG-TS: a codec and the tags of a room
    RtpStreams,    \* streams that go as RTP
    RtpLinks,      \* of "tcp", "udp"
    ClockRate,     \* 90: ticks of the transport's clock in a millisecond
    Wrap,          \* 2^32: both sources compute ticks in a uint32
    Inc, Sync,     \* ticks of an audio frame; how far its clock may drift
    CacheFrames,   \* cache_max_frames: audio frames in one PES
    OneStap,       \* environment: parameter sets travel in one packet
    ShortReads,    \* environment: a TCP read may end inside a packet
    MaxWire,       \* bound on the packets in flight
    MaxFaults      \* bound on packets lost, repeated or overtaken

ASSUME RestreamAssumption ==
    /\ RtpLinks \subseteq {"tcp", "udp"}
    /\ ClockRate \in Nat \ {0} /\ Wrap \in Nat \ {0} /\ CacheFrames \in Nat \ {0}
    /\ OneStap \in BOOLEAN /\ ShortReads \in BOOLEAN

VARIABLES
    stream,        \* codec and tags of the room at the source
    link,          \* "srt", "tcp", "udp"
    at,            \* tags the source has read
    sent,          \* history: each video or audio packet unit it sent, with the
                   \*   tag that completed it and the audio frames in it
    hls,           \* toPES: SpecificInfo, audio clock, audio cache; segment open
    wire,          \* packets in flight
    faults,        \* packets lost, repeated or overtaken so far
    seen,          \* video packets the sink took, in order
    demuxer,       \* libsrt.Demuxer
    bridge,        \* srtBridge: sequence headers sent, parameter sets cached
    reassembler,   \* H264Reassembler of the RTSP ingest
    framing,       \* the ingest loop still knows where packets begin
    room           \* tags the sink wrote, in order

sourceVars == <<stream, link, at, sent, hls>>
sinkData == <<seen, demuxer, bridge, reassembler, room>>
sinkVars == <<sinkData, framing>>
vars == <<sourceVars, wire, faults, sinkVars>>

ts == link = "srt"

Ticks(time) == (time * ClockRate) % Wrap
Time(ticks) == ticks \div ClockRate
AudioBytes(data) == SelectSeq(data, LAMBDA byte : byte.b = "audio")
Nals(unit, tag) == [n \in 1 .. Len(tag.nals) |-> NAL(unit, n, tag.nals[n])]
\* Parameter sets number v, as in the sequence header with that number.
Sets(v) == <<NAL(0, 2 * v, [kind |-> "sps", len |-> 1]), NAL(0, 2 * v + 1, [kind |-> "pps", len |-> 1])>>

AvcHeader(sets) == [type |-> "avcHeader", sets |-> sets]
AacHeader == [type |-> "aacHeader"]

\* Each packet is known by the unit it was made of, and its place.
Named(packets, unit) ==
    [k \in 1 .. Len(packets) |-> [unit |-> unit, k |-> k, of |-> Len(packets), packet |-> packets[k]]]

\* sendVideoSeqHeader: the cached parameter sets go first, without a marker.
Joining ==
    LET sets == Sets(1)
        pieces == IF OneStap THEN <<Stap(sets)>> ELSE PackNAL(sets[1]) \o PackNAL(sets[2])
    IN  Named([k \in 1 .. Len(pieces) |-> [track |-> "video", ts |-> 0, marker |-> FALSE,
                                           payload |-> pieces[k]]], 0)

\* ANNOUNCE puts the sequence headers of the SDP into the new room.
Init ==
    /\ \/ link = "srt" /\ stream \in TsStreams /\ room = <<>> /\ wire = <<>>
       \/ /\ link \in RtpLinks /\ stream \in RtpStreams
          /\ room = <<AvcHeader(Sets(1)), AacHeader>> /\ wire = Joining
    /\ at = 0 /\ sent = <<>>
    /\ hls = [info |-> <<>>, clock |-> [num |-> 0, base |-> 0], cache |-> <<>>,
              cachedAt |-> 0, open |-> FALSE]
    /\ faults = 0 /\ seen = <<>>
    /\ demuxer = NewDemuxer
    /\ bridge = [video |-> FALSE, audio |-> FALSE, sps |-> <<>>, pps |-> <<>>]
    /\ reassembler = NewReassembler
    /\ framing = TRUE

-----------------------------------------------------------------------------
(* The source. *)

Write(packets) ==
    /\ Len(wire) + Len(packets) <= MaxWire
    /\ wire' = wire \o packets

NextTag(types) ==
    /\ at < Len(stream.tags)
    /\ stream.tags[at + 1].type \in types
    /\ at' = at + 1
    /\ UNCHANGED <<stream, link, faults, sinkVars>>
Tag == stream.tags[at + 1]
SentUnit(packets, frames) ==
    /\ Write(packets)
    /\ sent' = Append(sent, [tag |-> at + 1, packets |-> packets, frames |-> frames])

\* openSegment, and the tick of the PSI's own interval.
WritePSI ==
    /\ ts
    /\ hls.open
    /\ wire = <<>>
    /\ Write(Named(PSI, 0))
    /\ UNCHANGED <<sourceVars, faults, sinkVars>>

\* The sequence headers: ParseSpecificInfo appends the parameter sets to those
\* it has, and an RTSP session sends none of them on.
SourceHeader ==
    /\ NextTag({"avcHeader", "aacHeader"})
    /\ hls' = IF ts /\ Tag.type = "avcHeader" THEN [hls EXCEPT !.info = @ \o Sets(Tag.v)] ELSE hls
    /\ UNCHANGED <<sent, wire>>

\* toPES and the muxing loop for video; a segment opens at a key frame.
TsVideo ==
    /\ ts
    /\ NextTag({"video"})
    /\ IF hls.open \/ Tag.key
       THEN LET dts == Ticks(Tag.ts)
                body == IF stream.codec = "h264"
                        THEN GetAnnexbH264(Nals(at + 1, Tag), hls.info)
                        ELSE AvccToAnnexB(Nals(at + 1, Tag))
                pes == <<PesHeader(dts + Tag.cts * ClockRate, dts)>> \o body
            IN  /\ SentUnit((IF hls.open THEN <<>> ELSE Named(PSI, 0))
                            \o Named(Mux("video", pes, Tag.key, TRUE), at + 1), <<>>)
                /\ hls' = [hls EXCEPT !.open = TRUE]
       ELSE UNCHANGED <<sent, wire, hls>>

\* toPES for audio: a PES has as many frames as the cache holds.
TsAudio ==
    /\ ts
    /\ NextTag({"audio"})
    /\ LET aligned == Aligned(hls.clock, Ticks(Tag.ts), Inc, Sync)
           cache == hls.cache \o <<Adts>> \o Frame(at + 1, 1)
           since == IF hls.cache = <<>> THEN aligned.dts ELSE hls.cachedAt
           full == Len(cache) = 2 * CacheFrames
       IN  /\ hls' = [hls EXCEPT !.clock = aligned.a, !.cachedAt = since,
                                 !.cache = IF full THEN <<>> ELSE cache]
           /\ IF full /\ hls.open
              THEN SentUnit(Named(Mux("audio", <<PesHeader(since, since)>> \o cache, FALSE, TRUE),
                                  at + 1), AudioBytes(cache))
              ELSE UNCHANGED <<wire, sent>>

\* sendVideo: the packet's time is that of presentation.
RtpVideo ==
    /\ ~ts
    /\ NextTag({"video"})
    /\ SentUnit(Named(PackUnit(Nals(at + 1, Tag), Ticks(Tag.ts + Tag.cts)), at + 1), <<>>)
    /\ UNCHANGED hls

\* sendAudio.
RtpAudio ==
    /\ ~ts
    /\ NextTag({"audio"})
    /\ SentUnit(Named(PackFrames(<<Frame(at + 1, 1)>>, Ticks(Tag.ts)), at + 1), Frame(at + 1, 1))
    /\ UNCHANGED hls

-----------------------------------------------------------------------------
(* The sink. *)

VideoTag(time, cts, key, nals) ==
    [type |-> "video", ts |-> Time(time), cts |-> Time(cts), key |-> key, nals |-> nals]
AudioTag(time, data) == [type |-> "audio", ts |-> Time(time), data |-> data]
LastOr(list, old) == IF list = <<>> THEN old ELSE Last(list)

\* onVideo: the parameter sets are kept aside, and make the sequence header the
\* first time both are known; the other NALs are the tag.
OnVideo(au) ==
    LET nals == SplitAnnexB(au.data)
        of(kinds) == SelectSeq(nals, LAMBDA nal : stream.codec = "h264" /\ IsHeader(nal[1], kinds))
        pictures == SelectSeq(nals, LAMBDA nal :
                                ~(stream.codec = "h264" /\ IsHeader(nal[1], ParameterSets)))
        sps == IF bridge.video THEN bridge.sps ELSE LastOr(of({"sps"}), bridge.sps)
        pps == IF bridge.video THEN bridge.pps ELSE LastOr(of({"pps"}), bridge.pps)
        header == ~bridge.video /\ sps # <<>> /\ pps # <<>>
    IN  [bridge |-> [bridge EXCEPT !.sps = sps, !.pps = pps, !.video = @ \/ header],
         tags |-> (IF header THEN <<AvcHeader(<<sps, pps>>)>> ELSE <<>>)
                  \o (IF pictures = <<>> THEN <<>>
                      ELSE <<VideoTag(au.dts, au.pts - au.dts, au.key, pictures)>>)]

\* onAudio: one ADTS header is stripped; the first makes the sequence header.
OnAudio(au) ==
    IF au.data[1] # Adts \/ Len(au.data) < 2 THEN [bridge |-> bridge, tags |-> <<>>]
    ELSE [bridge |-> [bridge EXCEPT !.audio = TRUE],
          tags |-> (IF bridge.audio THEN <<>> ELSE <<AacHeader>>)
                   \o <<AudioTag(au.pts, Tail(au.data))>>]

\* feedVideo, feedAudio; `track` is what the demuxer has of it.
FeedStream(track, packet) ==
    LET out == Flushed(demuxer[track], packet.pusi, stream.codec)
        got == IF out = <<>> THEN [bridge |-> bridge, tags |-> <<>>]
               ELSE IF track = "video" THEN OnVideo(out[1]) ELSE OnAudio(out[1])
    IN  /\ \E payload \in Payloads(packet) :
             demuxer' = [demuxer EXCEPT ![track] = FeedTrack(@, packet.pusi, payload)]
        /\ bridge' = got.bridge
        /\ room' = room \o got.tags

\* Demuxer.Feed: the PMT is found by the PAT, the streams by the PMT.
Feed(packet) ==
    CASE packet.pid = "pat" -> demuxer' = [demuxer EXCEPT !.pmt = TRUE] /\ UNCHANGED <<bridge, room>>
      [] packet.pid = "pmt" /\ demuxer.pmt ->
           demuxer' = [demuxer EXCEPT !.streams = TRUE] /\ UNCHANGED <<bridge, room>>
      [] packet.pid = "video" /\ demuxer.streams -> FeedStream("video", packet)
      [] packet.pid = "audio" /\ demuxer.streams -> FeedStream("audio", packet)
      [] OTHER -> UNCHANGED <<demuxer, bridge, room>>


\* handleVideoRTP, handleAudioRTP.
HandleVideoRTP(packet) ==
    LET r == Pushed(reassembler, packet.payload) IN
    IF Complete(r, packet)
    THEN /\ reassembler' = [r EXCEPT !.pending = <<>>]
         /\ room' = Append(room, VideoTag(packet.ts, 0,
                \E n \in DOMAIN r.pending : IsHeader(r.pending[n][1], {"idr"}), r.pending))
    ELSE reassembler' = r /\ UNCHANGED room

HandleAudioRTP(packet) ==
    LET frames == AACAUExtract(packet.payload) IN
    /\ room' = room \o [n \in 1 .. Len(frames) |-> AudioTag(packet.ts, frames[n])]
    /\ UNCHANGED reassembler

Take(p) ==
    /\ seen' = IF p.packet \in {PSI[1], PSI[2]} \/ (ts /\ ~demuxer.streams)
                  \/ (IF ts THEN p.packet.pid ELSE p.packet.track) = "audio"
               THEN seen ELSE Append(seen, p)
    /\ IF ts THEN Feed(p.packet) /\ UNCHANGED reassembler
       ELSE /\ IF p.packet.track = "video" THEN HandleVideoRTP(p.packet) ELSE HandleAudioRTP(p.packet)
            /\ UNCHANGED <<demuxer, bridge>>

-----------------------------------------------------------------------------
(* The link. *)

Without(i) == SubSeq(wire, 1, i - 1) \o SubSeq(wire, i + 1, Len(wire))

Arrive ==
    /\ framing
    /\ wire # <<>>
    /\ wire' = Tail(wire)
    /\ Take(Head(wire))
    /\ UNCHANGED <<sourceVars, faults, framing>>

Overtake ==
    /\ link = "udp"
    /\ faults < MaxFaults
    /\ faults' = faults + 1
    /\ \E i \in 2 .. Len(wire) : wire' = Without(i) /\ Take(wire[i])
    /\ UNCHANGED <<sourceVars, framing>>

Repeat ==
    /\ link = "udp"
    /\ faults < MaxFaults
    /\ faults' = faults + 1
    /\ wire # <<>>
    /\ Take(Head(wire))
    /\ UNCHANGED <<sourceVars, wire, framing>>

Lose ==
    /\ link # "tcp"
    /\ faults < MaxFaults
    /\ wire # <<>>
    /\ faults' = faults + 1
    /\ wire' = Tail(wire)
    /\ UNCHANGED <<sourceVars, sinkVars>>

\* A TCP packet is three reads, br.Read twice, and neither asks for all of it.
\* Of a header that is cut short the length is zero and the packet is dropped; a
\* body that is cut short is handled with zeros at its end.  The rest of it is
\* then read as a request, which is none.
Zeroed(data) == [data EXCEPT ![Len(data)] = Fill]
CutShort(packet) ==
    [packet EXCEPT !.payload =
       IF packet.track = "audio" THEN <<Zeroed(@[1])>>
       ELSE IF @.kind = "fu" THEN [@ EXCEPT !.body = Zeroed(@)]
       ELSE [@ EXCEPT !.nals = Append(Front(@), Zeroed(Last(@)))]]
ReadPart ==
    /\ link = "tcp"
    /\ ShortReads
    /\ framing
    /\ wire # <<>>
    /\ framing' = FALSE
    /\ wire' = Tail(wire)
    /\ \/ UNCHANGED sinkData
       \/ Take([Head(wire) EXCEPT !.packet = CutShort(@)])
    /\ UNCHANGED <<sourceVars, faults>>

-----------------------------------------------------------------------------

Next ==
    \/ WritePSI \/ SourceHeader \/ TsVideo \/ TsAudio \/ RtpVideo \/ RtpAudio
    \/ Arrive \/ Overtake \/ Repeat \/ Lose
    \/ ReadPart
Spec == Init /\ [][Next]_vars

-----------------------------------------------------------------------------
(* Properties. *)

Received(type) == SelectSeq(room, LAMBDA tag : tag.type = type)
Sent(type) == SelectSeq(sent, LAMBDA u : stream.tags[u.tag].type = type)

\* A NAL of a picture, or anything that is read as one.
Pictures(nals) ==
    SelectSeq(nals, LAMBDA nal : ~IsHeader(nal[1], ParameterSets \cup {"aud"}))
\* What the other room gets of a video tag: its pictures, whether it is a key
\* frame, when it is shown and, by MPEG-TS only, when it is decoded.  By RTP the
\* time of presentation is all that a packet has, and stands for both there.
Essence(tag, nals) ==
    [key |-> tag.key, shown |-> tag.ts + tag.cts, decoded |-> IF ts THEN tag.ts ELSE 0,
     pictures |-> Pictures(nals)]
SentEssence(u) == LET tag == stream.tags[u.tag] IN Essence(tag, Nals(u.tag, tag))
GotEssence(tag) == Essence(tag, tag.nals)

\* Nothing happened to the packets on their way; none of the source's packets
\* is one byte short (StuffingInField), no time of it beyond its uint32 (TimesKept).
Undisturbed ==
    /\ faults = 0 /\ framing
    /\ ts => \A n \in DOMAIN sent : \A k \in DOMAIN sent[n].packets :
          sent[n].packets[k].unit > 0 => ~sent[n].packets[k].packet.claimed
    /\ \A n \in DOMAIN Sent("video") :
          LET tag == stream.tags[Sent("video")[n].tag] IN (tag.ts + tag.cts) * ClockRate < Wrap
    /\ \A n \in DOMAIN Sent("audio") : stream.tags[Sent("audio")[n].tag].ts * ClockRate < Wrap


\* The video packets of unit u came one after the other, behind the end of a unit
\* and, by MPEG-TS, before the start of another.
Unhurt(u) ==
    LET own == SelectSeq(u.packets, LAMBDA p : p.unit = u.tag)
        n == Len(own)
    IN  \E i \in 0 .. Len(seen) - n :
           /\ SubSeq(seen, i + 1, i + n) = own
           /\ IF ts THEN i + n < Len(seen) /\ seen[i + n + 1].packet.pusi
              ELSE (i > 0 /\ seen[i].packet.marker) \/ \A j \in 1 .. i : seen[j].unit = 0

\* Loss heals: whatever happened to the packets around it, a unit whose own
\* packets arrive together reaches the room as it was, and alone in its tag.
LossHeals ==
    \A n \in DOMAIN Sent("video") : Unhurt(Sent("video")[n]) =>
        \E m \in DOMAIN room :
            room[m].type = "video" /\ GotEssence(room[m]) = SentEssence(Sent("video")[n])

\* The bytes of the pictures in the room, in order.
Bytes == LET tags == Received("video") IN
         SelectSeq(FlattenSeq([n \in DOMAIN tags |-> FlattenSeq(tags[n].nals)]),
                   LAMBDA byte : byte.b = "nal" /\ byte.kind \notin ParameterSets \cup {"aud"})
Before(x, y) == \/ x.unit < y.unit
                \/ x.unit = y.unit /\ (x.n < y.n \/ (x.n = y.n /\ x.i < y.i))

\* No byte of a picture is in the room twice, and none after a later one.
NeverBack == \A i, j \in DOMAIN Bytes : i < j => Before(Bytes[i], Bytes[j])

\* The demuxer never hands over what it handed over before, nor anything older,
\* whichever packets are lost (tsdemux.go:166-227).
TsNeverBack == ts => NeverBack

\* What the code does not keep; the README says what RestreamDivergences shows.

\* "each PES is delivered to the consumer as an AccessUnit" (tsdemux.go:24).
UnitsApart ==
    LET tags == Received("video") IN
    \A n \in DOMAIN tags : \A x, y \in Range(SelectSeq(FlattenSeq(tags[n].nals),
                                      LAMBDA byte : byte.b = "nal" /\ byte.unit # 0)) : x.unit = y.unit

\* "AudioFrame is one ADTS-prefixed AAC frame" (tsdemux.go:39).
FramesApart == \A n \in DOMAIN room : room[n].type = "audio" => Adts \notin Range(room[n].data)

\* A packet holds payload and, in its adaptation field, stuffing.
StuffingInField == \A n \in DOMAIN wire : (ts /\ wire[n].unit > 0) =>
                      ~wire[n].packet.claimed /\ Fill \notin Range(wire[n].packet.payload)

\* The pictures of a stream follow the parameter sets it announced last.
HeadersFollow ==
    \A n \in DOMAIN room : \A m \in DOMAIN Sent("video") :
        (room[n].type = "video" /\ faults = 0 /\ GotEssence(room[n]) = SentEssence(Sent("video")[m])) =>
            LET headers == SelectSeq(SubSeq(stream.tags, 1, Sent("video")[m].tag), LAMBDA tag : tag.type = "avcHeader")
                relayed == SelectSeq(SubSeq(room, 1, n), LAMBDA tag : tag.type = "avcHeader")
            IN  relayed # <<>> => Last(relayed) = AvcHeader(Sets(Last(headers).v))

\* A key frame is one for the room: "stream_type 0x1B = H.264, 0x24 = HEVC"
\* (tsdemux.go:132).
KeysKept == faults = 0 => \A n \in DOMAIN Received("video") :
                             Received("video")[n].key = stream.tags[Sent("video")[n].tag].key

\* Times are those of the source.
TimesKept ==
    faults = 0 => \A n \in DOMAIN Received("video") :
        LET tag == stream.tags[Sent("video")[n].tag]
        IN  Received("video")[n].ts + Received("video")[n].cts = tag.ts + tag.cts

\* The time of a tag is that of decoding, "FLV gives us DTS in ms plus a CTS
\* offset" (rtsp_server.go:468).
DecodeTimesKept ==
    faults = 0 => \A n \in DOMAIN Received("video") :
        Received("video")[n].ts = stream.tags[Sent("video")[n].tag].ts

=============================================================================
