------------------------------ MODULE RtpPacket ------------------------------
(***************************************************************************)
(* H.264 and AAC in RTP: PackNAL and PackAACFrame (librtsp/h264.go, aac.go) *)
(* on the way out, H264Reassembler and AACAUExtract (rtp_unpack.go) on the  *)
(* way in.  A packet is one record; its sequence number is left out, since  *)
(* nothing in the code reads it.                                            *)
(***************************************************************************)
EXTENDS Integers, Sequences, SequencesExt

CONSTANT Mtu       \* 1400: the longest payload

ASSUME MtuAssumption == Mtu \in Nat /\ Mtu > 2

Single(nal) == [kind |-> "single", nals |-> <<nal>>]
Stap(nals) == [kind |-> "stap", nals |-> nals]

\* PackNAL: a NAL that does not fit is cut without its header byte, which the
\* two header bytes of each fragment carry.
PackNAL(nal) ==
    IF Len(nal) <= Mtu THEN <<Single(nal)>>
    ELSE LET body == Tail(nal)
             size == Mtu - 2
             count == (Len(body) + size - 1) \div size
         IN  [k \in 1 .. count |->
                [kind |-> "fu", header |-> nal[1], start |-> k = 1, end |-> k = count,
                 body |-> SubSeq(body, (k - 1) * size + 1, IF k = count THEN Len(body) ELSE k * size)]]

\* sendVideo: the last piece of the last NAL has the marker.
PackUnit(nals, ts) ==
    LET pieces == FlattenSeq([n \in 1 .. Len(nals) |-> PackNAL(nals[n])])
    IN  [k \in 1 .. Len(pieces) |->
           [track |-> "video", ts |-> ts, marker |-> k = Len(pieces), payload |-> pieces[k]]]

\* sendAudio with PackAACFrame; other senders put several frames in a packet.
PackFrames(frames, ts) ==
    <<[track |-> "audio", ts |-> ts, marker |-> TRUE, payload |-> frames]>>

-----------------------------------------------------------------------------

NewReassembler == [fu |-> <<>>, pending |-> <<>>]

\* Mutant of Pushed: the first fragment does not drop what a lost end left.
PushedKeepsFragments(r, p) ==
    IF p.kind \in {"single", "stap"} THEN [r EXCEPT !.pending = @ \o p.nals]
    ELSE LET fu == r.fu \o (IF p.start THEN <<p.header>> ELSE <<>>) \o p.body
         IN  IF p.end THEN [fu |-> <<>>, pending |-> Append(r.pending, fu)]
             ELSE [r EXCEPT !.fu = fu]

\* Push up to its marker: fragments are collected, whole NALs wait in pending.
Pushed(r, p) ==
    IF p.kind \in {"single", "stap"} THEN [r EXCEPT !.pending = @ \o p.nals]
    ELSE LET fu == (IF p.start THEN <<p.header>> ELSE r.fu) \o p.body
         IN  IF p.end THEN [fu |-> <<>>, pending |-> Append(r.pending, fu)]
             ELSE [r EXCEPT !.fu = fu]

\* The marker hands the pending NALs over.
Complete(r, packet) == packet.marker /\ r.pending # <<>>

\* AACAUExtract: the frames of a payload.
AACAUExtract(payload) == payload

=============================================================================
