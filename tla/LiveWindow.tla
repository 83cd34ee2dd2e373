------------------------------ MODULE LiveWindow ------------------------------
(***************************************************************************)
(* What a segmenter of a live stream promises to whoever reads its playlist *)
(* and then asks for the files it names: numbered segments are written one  *)
(* after the other, listed when complete, and unlisted before their file is *)
(* removed.  Only the newest stay listed.                                   *)
(***************************************************************************)
EXTENDS Integers, Sequences, SequencesExt

CONSTANT WindowSize     \* how many segments stay listed, at least one

VARIABLES
    listed,     \* numbers of the listed segments, oldest first
    files,      \* numbers of the segments that have a file
    next        \* number of the segment to be listed next

vars == <<listed, files, next>>

Init ==
    /\ listed = <<>>
    /\ files = {}
    /\ next = 0

\* The newest of s that the window holds.
Newest(s) ==
    IF Len(s) > WindowSize THEN SubSeq(s, Len(s) - WindowSize + 1, Len(s)) ELSE s

\* The file of the next segment is begun.
Create ==
    /\ files' = files \cup {next}
    /\ UNCHANGED <<listed, next>>

\* The next segment is complete: it is listed, and what leaves the window goes
\* with its file.
List ==
    /\ next \in files
    /\ listed' = Newest(Append(listed, next))
    /\ files' = files \ (ToSet(listed) \ ToSet(listed'))
    /\ next' = next + 1

\* The stream is taken down.
Clear ==
    /\ listed' = <<>>
    /\ UNCHANGED <<files, next>>

\* Files that are not listed any more are removed.
Unlink ==
    /\ \E F \in SUBSET {f \in files : f < next /\ f \notin ToSet(listed)} :
          files' = files \ F
    /\ UNCHANGED <<listed, next>>

Next == Create \/ List \/ Clear \/ Unlink

Spec == Init /\ [][Next]_vars

-----------------------------------------------------------------------------
(* What follows for the reader of a playlist.                                  *)

(* The playlist numbers consecutive segments, the newest last, at most         *)
(* WindowSize of them: hls.go writes only the first number into the playlist.  *)
Consecutive ==
    /\ Len(listed) <= WindowSize
    /\ \A i \in 1 .. Len(listed) : listed[i] = next - Len(listed) + i - 1

(* What the playlist names can be fetched: finaliseCurrent removes a file only *)
(* in the step that takes it off the list, Stop only after that.               *)
Fetchable == ToSet(listed) \subseteq files
=============================================================================
