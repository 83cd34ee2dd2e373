------------------------------- MODULE MpegTs -------------------------------
(***************************************************************************)
(* MPEG-TS on its way out and in: FLV video and audio to elementary stream  *)
(* (HLS.toPES, libavc), PES to transport packets (libmpeg/ts.go, pes.go),   *)
(* packets to access units (libsrt/tsdemux.go), access units to NALs        *)
(* (librtmp/srt_server.go).                                                 *)
(*                                                                          *)
(* Data is a sequence of tokens: a start code, an ADTS header, a PES header *)
(* and a stuffing byte are one each, and so is each byte of a NAL or of an  *)
(* audio frame, which knows where it comes from.                            *)
(***************************************************************************)
EXTENDS Integers, Sequences, SequencesExt

CONSTANTS
    PacketSize,    \* 188: room for header, adaptation field and payload
    TsHeader,      \* 4
    KeyField       \* 8: length, flags and clock of a key frame's first packet

ASSUME PacketAssumption == TsHeader + KeyField < PacketSize /\ KeyField > 2

Start == [b |-> "start"]
Fill == [b |-> "fill"]
Adts == [b |-> "adts"]
\* The bytes of NAL number n of a unit, and of an audio frame.
NAL(unit, n, nal) ==
    [i \in 1 .. nal.len |-> [b |-> "nal", unit |-> unit, n |-> n, i |-> i, kind |-> nal.kind]]
Frame(unit, n) == <<[b |-> "audio", unit |-> unit, n |-> n]>>

IsHeader(byte, kinds) == byte.b = "nal" /\ byte.i = 1 /\ byte.kind \in kinds
ParameterSets == {"sps", "pps"}
AUD == NAL(0, 0, [kind |-> "aud", len |-> 1])

\* GetAnnexbH264: a delimiter, the parameter sets before the first IDR (its own
\* or those of the sequence headers, `info`), and slices; nothing else passes.
GetAnnexbH264(nals, info) ==
    LET of(i, kinds) == IsHeader(nals[i][1], kinds)
        first(i) == of(i, {"idr"}) /\ \A j \in 1 .. i - 1 : ~of(j, {"idr"})
        own(i) == SelectSeq(SubSeq(nals, 1, i - 1), LAMBDA nal : IsHeader(nal[1], ParameterSets))
        coded(list) == FlattenSeq([j \in 1 .. Len(list) |-> <<Start>> \o list[j]])
    IN  <<Start>> \o AUD
        \o FlattenSeq([i \in 1 .. Len(nals) |->
              (IF ~first(i) THEN <<>> ELSE coded(IF own(i) = <<>> THEN info ELSE own(i)))
              \o (IF of(i, {"idr", "slice", "sei"}) THEN coded(<<nals[i]>>) ELSE <<>>)])

\* avccToAnnexB: what the HEVC branch of toPES uses instead.
AvccToAnnexB(nals) == FlattenSeq([j \in 1 .. Len(nals) |-> <<Start>> \o nals[j]])

\* align: an audio clock that follows the frames' durations unless they drift.
Aligned(a, dts, inc, sync) ==
    LET est == a.base + a.num * inc
        off == IF est >= dts THEN est - dts ELSE dts - est
    IN  IF off <= sync THEN [a |-> [a EXCEPT !.num = @ + 1], dts |-> est]
        ELSE [a |-> [num |-> 1, base |-> dts], dts |-> dts]

-----------------------------------------------------------------------------
(* TS.Mux and PES.Marshal. *)

Least(m, n) == IF m < n THEN m ELSE n
PesHeader(pts, dts) == [b |-> "pes", pts |-> pts, dts |-> dts]

\* The length of the adaptation field of the next packet, -1 without one: it
\* fills a last packet up, but takes no account of a key frame's own field.
FieldLength(remain, keyFirst) ==
    LET capacity == PacketSize - TsHeader - (IF keyFirst THEN KeyField ELSE 0)
    IN  IF remain < capacity THEN capacity - remain - 1
        ELSE IF keyFirst THEN KeyField - 1 ELSE -1
\* AdaptationField.Marshal writes nothing if the length is too short for it.
FieldWritten(length, keyFirst) == length >= IF keyFirst THEN KeyField - 1 ELSE 1

RECURSIVE Mux(_, _, _, _)
\* The loop of HLS.Start over the packets of one PES, which an error ends.
Mux(pid, rest, key, first) ==
    LET length == FieldLength(Len(rest), key /\ first)
        field == length # -1
        written == FieldWritten(length, key /\ first)
        room == PacketSize - TsHeader - (IF field /\ written THEN length + 1 ELSE 0)
        n == Least(room, Len(rest))
        packet == [pid |-> pid, pusi |-> first, claimed |-> field /\ ~written,
                   payload |-> SubSeq(rest, 1, n) \o [i \in 1 .. room - n |-> Fill]]
    IN  <<packet>> \o (IF n = Len(rest) \/ (field /\ ~written) THEN <<>>
                       ELSE Mux(pid, SubSeq(rest, n + 1, Len(rest)), key, FALSE))

PSI == <<[pid |-> "pat"], [pid |-> "pmt"]>>

-----------------------------------------------------------------------------
(* Demuxer. *)

NewDemuxer == [pmt |-> FALSE, streams |-> FALSE,
               video |-> [buf |-> <<>>, pts |-> 0, dts |-> 0],
               audio |-> [buf |-> <<>>, pts |-> 0, dts |-> 0]]

\* Feed's payload.  A field that is announced and not there is read from the
\* payload: a PES header starts with a zero byte, so one byte is skipped; of
\* other bytes any number may be, or the whole packet is dropped.
Payloads(packet) ==
    IF ~packet.claimed THEN {packet.payload}
    ELSE IF packet.pusi THEN {Tail(packet.payload)}
    ELSE {SubSeq(packet.payload, i, Len(packet.payload)) : i \in 2 .. Len(packet.payload) + 1}

\* Mutant of FeedTrack: a start does not clear what was handed over.
FeedTrackKeeps(t, pusi, payload) ==
    IF ~pusi THEN [t EXCEPT !.buf = @ \o payload]
    ELSE IF payload # <<>> /\ payload[1].b = "pes"
    THEN [buf |-> t.buf \o Tail(payload), pts |-> payload[1].pts, dts |-> payload[1].dts]
    ELSE t

\* feedVideo and feedAudio: what follows a start is collected; a packet with a
\* start hands over what was collected, and begins anew if its header parses.
FeedTrack(t, pusi, payload) ==
    IF ~pusi THEN [t EXCEPT !.buf = @ \o payload]
    ELSE IF payload # <<>> /\ payload[1].b = "pes"
    THEN [buf |-> Tail(payload), pts |-> payload[1].pts, dts |-> payload[1].dts]
    ELSE [t EXCEPT !.buf = <<>>]

\* containsAnnexBKeyframe, by the H.264 rule.
ContainsIdr(buf, codec) ==
    /\ codec = "h264"
    /\ \E i \in 1 .. Len(buf) - 1 : buf[i] = Start /\ IsHeader(buf[i + 1], {"idr"})

\* flushVideo, flushAudio: what a packet with a start hands over.
Flushed(t, pusi, codec) ==
    IF pusi /\ t.buf # <<>>
    THEN <<[pts |-> t.pts, dts |-> t.dts, data |-> t.buf, key |-> ContainsIdr(t.buf, codec)]>>
    ELSE <<>>

\* splitAnnexB: what is between start codes, and nothing that is empty.
SplitAnnexB(buf) ==
    LET starts == SelectSeq([i \in 1 .. Len(buf) |-> i], LAMBDA i : buf[i] = Start)
        end(k) == IF k = Len(starts) THEN Len(buf) ELSE starts[k + 1] - 1
    IN  SelectSeq([k \in 1 .. Len(starts) |-> SubSeq(buf, starts[k] + 1, end(k))],
                  LAMBDA nal : nal # <<>>)

=============================================================================
