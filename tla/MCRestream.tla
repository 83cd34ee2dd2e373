----------------------------- MODULE MCRestream -----------------------------
(* Small instances of Restream. *)
EXTENDS Restream

Video(time, cts, key, nals) == [type |-> "video", ts |-> time, cts |-> cts, key |-> key, nals |-> nals]
Audio(time) == [type |-> "audio", ts |-> time]
Header(v) == [type |-> "avcHeader", v |-> v]
Nal(kind, len) == [kind |-> kind, len |-> len]
Of(codec, tags) == [codec |-> codec, tags |-> tags]

\* A picture of one and of two NALs, in one packet and in several; audio that
\* keeps pace with its clock, and that drifts from it.
CleanTags ==
    <<Header(1), [type |-> "aacHeader"],
      Video(0, 1, TRUE, <<Nal("idr", 5)>>), Audio(1),
      Video(1, 0, FALSE, <<Nal("slice", 4), Nal("slice", 1)>>), Audio(2),
      Video(2, 2, FALSE, <<Nal("slice", 6)>>), Audio(3), Audio(5),
      Video(3, 0, FALSE, <<Nal("slice", 2)>>)>>
\* What comes before the first key frame, and a key frame with parameter sets
\* of its own behind another.
LateTags ==
    <<Header(1), Audio(0), Video(0, 0, FALSE, <<Nal("slice", 4)>>),
      Video(1, 1, TRUE, <<Nal("sps", 1), Nal("pps", 1), Nal("idr", 2), Nal("idr", 1)>>),
      Audio(1), Video(2, 0, TRUE, <<Nal("idr", 5)>>), Audio(2), Audio(3),
      Video(3, 1, FALSE, <<Nal("sei", 1), Nal("slice", 2)>>)>>
Streams == {Of("h264", CleanTags), Of("h264", LateTags)}

\* What the code does not keep: a last packet one byte short of full, parameter
\* sets that change, HEVC, and times beyond the clock.
OddTags(kind) ==
    <<Header(1), Video(0, 0, TRUE, <<Nal(kind, 5)>>), Audio(0), Audio(1), Audio(2), Audio(3),
      Video(1, 1, FALSE, <<Nal("slice", 5), Nal("slice", 3)>>),
      Header(2), Video(2, 0, TRUE, <<Nal(kind, 5)>>),
      Video(9, 0, FALSE, <<Nal("slice", 4)>>), Video(10, 0, FALSE, <<Nal("slice", 4)>>)>>
OddStreams == {Of("h264", OddTags("idr")), Of("hevc", OddTags("slice"))}

=============================================================================
